---------------------------- MODULE ConsoleProofs ----------------------------
(***************************************************************************)
(* Proofs about the console page of the backend.  Its input: the keys the  *)
(* server believes to be down are listed, and its button mask is what the  *)
(* user holds.  Its connection: one that is gone is said to be gone, and   *)
(* keyboard and mouse are grabbed once, while there is one.  Its screen:   *)
(* rectangles are painted in the order they were sent in.  Its stream:     *)
(* what the server sends is not taken for something else.                  *)
(***************************************************************************)
EXTENDS Console, SequenceTheorems, WellFoundedInduction, TLAPS

(***************************************************************************)
(* Induction over numbers, and what it says of recursive functions: those  *)
(* that call themselves once, on something smaller, exist and are loops.   *)
(***************************************************************************)
\* Every set of numbers has a least one: induction, as a fact about sets.
LEMMA LeastNumber ==
    ASSUME NEW T, T \subseteq Nat, T # {}
    PROVE  \E n \in T : \A m \in T : n <= m
<1> DEFINE R == {p \in Nat \X Nat : p[1] < p[2]}
<1>1. IsWellFoundedOn(R, Nat)
    BY NatLessThanWellFounded DEF OpToRel
<1> HIDE DEF R
<1>2. PICK n \in T : \A m \in T : ~(<<m, n>> \in R)
    BY <1>1, WFMin
<1>3. \A m \in T : ~(m < n)
    BY <1>2 DEF R
<1> QED BY <1>3

\* A set of numbers with zero and every successor has them all.
LEMMA Induction ==
    ASSUME NEW P, 0 \in P, \A n \in Nat : n \in P => n + 1 \in P
    PROVE  Nat \subseteq P
<1> SUFFICES ASSUME Nat \ P # {} PROVE FALSE
    OBVIOUS
<1>1. PICK n \in Nat \ P : \A m \in Nat \ P : n <= m
    BY LeastNumber
<1>2. n # 0 /\ n - 1 \in Nat
    BY <1>1
<1>3. n - 1 \in P
    BY <1>1, <1>2
<1> QED BY <1>1, <1>2, <1>3

\* A recursion with one call, of an argument that is smaller, has a solution.
Shrinks(S, stop, next, m) ==
    /\ next \in [S -> S] /\ m \in [S -> Nat]
    /\ \A s \in S : s \notin stop => m[next[s]] < m[s]

Combines(S, T, val, g) == val \in [S -> T] /\ g \in [S \X T -> T]

\* It is defined by its values on the arguments of each size in turn.
LEMMA Recursion ==
    ASSUME NEW S, NEW T, NEW stop, NEW next, NEW m, NEW val, NEW g,
           Shrinks(S, stop, next, m), Combines(S, T, val, g)
    PROVE  \E f \in [S -> T] :
             \A s \in S : f[s] = IF s \in stop THEN val[s] ELSE g[<<s, f[next[s]]>>]
<1> USE DEF Shrinks, Combines
<1> DEFINE Eq(f, s) == f[s] = IF s \in stop THEN val[s] ELSE g[<<s, f[next[s]]>>]
<1> DEFINE Upto(n) == {f \in [S -> T] : \A s \in S : m[s] <= n => Eq(f, s)}
<1> DEFINE Extend(f) == [s \in S |-> IF s \in stop THEN val[s] ELSE g[<<s, f[next[s]]>>]]
<1>0. \A s \in S : next[s] \in S /\ m[s] \in Nat /\ val[s] \in T
    OBVIOUS
<1>1. ASSUME NEW f \in [S -> T] PROVE Extend(f) \in [S -> T]
    <2>1. \A s \in S : <<s, f[next[s]]>> \in S \X T
        BY <1>0
    <2> QED BY <1>0, <2>1
<1>2. Upto(0) # {}
    <2>1. Extend(val) \in [S -> T]
        BY <1>1
    <2>2. ASSUME NEW s \in S, m[s] <= 0 PROVE s \in stop
        BY <1>0, <2>2
    <2>3. \A s \in S : m[s] <= 0 => Eq(Extend(val), s)
        BY <2>2
    <2> QED BY <2>1, <2>3
<1>3. ASSUME NEW n \in Nat, Upto(n) # {} PROVE Upto(n + 1) # {}
    <2>1. PICK f \in [S -> T] : \A s \in S : m[s] <= n => Eq(f, s)
        BY <1>3
    <2> DEFINE e == Extend(f)
    <2>2. e \in [S -> T]
        BY <1>1
    <2>3. ASSUME NEW s \in S, m[s] <= n PROVE e[s] = f[s]
        BY <2>1, <2>3
    <2>4. ASSUME NEW s \in S, m[s] <= n + 1 PROVE Eq(e, s)
        <3>1. CASE s \in stop
            BY <3>1
        <3>2. CASE s \notin stop
            <4>1. next[s] \in S /\ m[next[s]] <= n
                BY <1>0, <2>4, <3>2
            <4>2. e[next[s]] = f[next[s]]
                BY <2>3, <4>1
            <4>3. e[s] = g[<<s, f[next[s]]>>]
                BY <3>2
            <4> HIDE DEF e
            <4> QED BY <3>2, <4>2, <4>3
        <3> QED BY <3>1, <3>2
    <2> HIDE DEF e
    <2> QED BY <2>2, <2>4
<1> HIDE DEF Upto, Extend
<1>4. \A n \in Nat : Upto(n) # {}
    <2> DEFINE P == {n \in Nat : Upto(n) # {}}
    <2>1. 0 \in P /\ \A n \in Nat : n \in P => n + 1 \in P
        BY <1>2, <1>3
    <2> HIDE DEF P
    <2>2. Nat \subseteq P
        BY <2>1, Induction
    <2> QED BY <2>2 DEF P
\* Two solutions up to a number agree there.
<1>5. ASSUME NEW k \in Nat, NEW n \in Nat, NEW e \in Upto(k), NEW f \in Upto(n),
             NEW s \in S, m[s] <= k, m[s] <= n
      PROVE  e[s] = f[s]
    <2> DEFINE Apart == {x \in S : m[x] <= k /\ m[x] <= n /\ e[x] # f[x]}
    <2> SUFFICES ASSUME Apart # {} PROVE FALSE
        BY <1>5
    <2> DEFINE Sizes == {m[x] : x \in Apart}
    <2>1. Sizes \subseteq Nat /\ Sizes # {}
        BY <1>0
    <2> HIDE DEF Sizes
    <2>2. PICK i \in Sizes : \A j \in Sizes : i <= j
        BY <2>1, LeastNumber
    <2>3. PICK x \in Apart : m[x] = i
        BY <2>2 DEF Sizes
    <2>4. Eq(e, x) /\ Eq(f, x)
        BY <2>3 DEF Upto
    <2>5. x \notin stop
        BY <2>3, <2>4
    <2>6. next[x] \in S /\ m[next[x]] < m[x] /\ m[x] \in Nat /\ m[next[x]] \in Nat
        BY <1>0, <2>3, <2>5
    <2>7. m[next[x]] <= k /\ m[next[x]] <= n
        BY <2>3, <2>6
    <2>8. next[x] \in Apart
        BY <2>3, <2>4, <2>5, <2>6, <2>7
    <2>9. m[next[x]] \in Sizes
        BY <2>8 DEF Sizes
    <2>10. m[x] <= m[next[x]]
        BY <2>2, <2>3, <2>9
    <2> QED BY <2>6, <2>10
<1> DEFINE F == [n \in Nat |-> CHOOSE f \in Upto(n) : TRUE]
<1>6. \A n \in Nat : F[n] \in Upto(n)
    BY <1>4
<1> DEFINE sol == [s \in S |-> F[m[s]][s]]
<1>7. \A n \in Nat : F[n] \in [S -> T]
    BY <1>6 DEF Upto
<1> HIDE DEF F
<1>8. sol \in [S -> T]
    BY <1>0, <1>7
<1>9. ASSUME NEW s \in S PROVE Eq(sol, s)
    <2>1. F[m[s]] \in Upto(m[s]) /\ m[s] \in Nat
        BY <1>0, <1>6
    <2>2. Eq(F[m[s]], s)
        BY <2>1 DEF Upto
    <2>3. CASE s \in stop
        BY <2>2, <2>3
    <2>4. CASE s \notin stop
        <3>1. next[s] \in S /\ m[next[s]] < m[s] /\ m[next[s]] \in Nat
            BY <1>0, <2>4
        <3>2. F[m[next[s]]] \in Upto(m[next[s]])
            BY <1>6, <3>1
        <3>3. F[m[s]][next[s]] = F[m[next[s]]][next[s]]
            BY <1>5, <2>1, <3>1, <3>2
        <3>4. sol[next[s]] = F[m[s]][next[s]]
            BY <3>1, <3>3
        <3> QED BY <2>2, <2>4, <3>4
    <2> QED BY <2>3, <2>4
<1> HIDE DEF sol
<1> QED BY <1>8, <1>9

\* A loop: the argument goes on to next until it stops, where val is returned.
Computes(f, S, stop, next, val) ==
    \A s \in S : f[s] = IF s \in stop THEN val[s] ELSE f[next[s]]

Returns(S, T, val) == val \in [S -> T]

Kept(I, S, stop, next) == I \subseteq S /\ \A s \in I : s \notin stop => next[s] \in I

\* A loop that ends is a recursive function.
LEMMA Loop ==
    ASSUME NEW S, NEW T, NEW stop, NEW next, NEW m, NEW val,
           Shrinks(S, stop, next, m), Returns(S, T, val)
    PROVE  \E f : f = [s \in S |-> IF s \in stop THEN val[s] ELSE f[next[s]]]
<1> DEFINE g == [p \in S \X T |-> p[2]]
<1>1. Combines(S, T, val, g)
    BY DEF Combines, Returns
<1>2. \A s \in S, t \in T : g[<<s, t>>] = t
    OBVIOUS
<1> HIDE DEF g
<1>3. PICK f \in [S -> T] :
        \A s \in S : f[s] = IF s \in stop THEN val[s] ELSE g[<<s, f[next[s]]>>]
    BY <1>1, Recursion
<1>4. \A s \in S : s \in S /\ next[s] \in S /\ f[next[s]] \in T
    BY <1>3 DEF Shrinks
<1>5. \A s \in S : f[s] = IF s \in stop THEN val[s] ELSE f[next[s]]
    BY <1>2, <1>3, <1>4
<1>6. f = [s \in S |-> IF s \in stop THEN val[s] ELSE f[next[s]]]
    BY <1>3, <1>5
<1> QED BY <1>6

\* What every turn of a loop keeps holds of the argument it returns.
LEMMA LoopEnds ==
    ASSUME NEW S, NEW stop, NEW next, NEW m, Shrinks(S, stop, next, m), NEW val, NEW f,
           Computes(f, S, stop, next, val), NEW I, Kept(I, S, stop, next), NEW s0 \in I
    PROVE  \E t \in I : t \in stop /\ f[s0] = val[t]
<1> DEFINE Bad == {s \in I : ~\E t \in I : t \in stop /\ f[s] = val[t]}
<1> DEFINE Sizes == {m[s] : s \in Bad}
<1> SUFFICES ASSUME Bad # {} PROVE FALSE
    OBVIOUS
<1>1. Sizes \subseteq Nat /\ Sizes # {}
    BY DEF Shrinks, Kept
<1> HIDE DEF Sizes
<1>2. PICK i \in Sizes : \A j \in Sizes : i <= j
    BY <1>1, LeastNumber
<1>3. PICK s \in Bad : m[s] = i
    BY <1>2 DEF Sizes
<1>4. s \notin stop
    BY <1>3 DEF Computes, Kept
<1>5. f[s] = f[next[s]] /\ next[s] \in I
    BY <1>3, <1>4 DEF Computes, Kept
<1>6. next[s] \in Bad
    BY <1>3, <1>5
<1>7. m[next[s]] \in Sizes
    BY <1>6 DEF Sizes
<1>8. m[s] <= m[next[s]]
    BY <1>2, <1>3, <1>7
<1>9. m[s] \in Nat /\ m[next[s]] \in Nat /\ m[next[s]] < m[s]
    BY <1>3, <1>4, <1>5 DEF Shrinks, Kept
<1> QED BY <1>8, <1>9

(***************************************************************************)
(* The list of keys.  Its entries are never inspected but for their code   *)
(* and keysym, so that any sequence will do.                               *)
(***************************************************************************)
ListOK == keyDownList \in Seq(Entry)

KInv == ListOK /\ down \subseteq Keys /\ NoKeyStuck

\* A pushed event is listed, and what was listed still is.
LEMMA PushLists ==
    ASSUME ListOK, NEW k \in Keys, keyDownList' = PushKeyEvent(k)
    PROVE  /\ ListOK'
           /\ Listed' = Listed \union {Keysym(k)}
<1> DEFINE e == [code |-> k, keysym |-> Keysym(k)]
<1>1. Keysym(k) \in Keysyms
  <2>1. CASE k \in Special
    BY <2>1 DEF Keysym, Keysyms
  <2>2. CASE k \notin Special
    <3>1. k \in Letters /\ (Shift \in down) \in BOOLEAN
      BY <2>2 DEF Keys
    <3>2. <<k, Shift \in down>> \in Letters \X BOOLEAN
      BY <3>1, Zenon
    <3> QED BY <2>2, <3>2 DEF Keysym, Keysyms
  <2> QED BY <2>1, <2>2
<1>2. e \in Entry /\ e.keysym = Keysym(k)
  BY <1>1 DEF Entry
<1>3. keyDownList' = Append(keyDownList, e)
  BY DEF PushKeyEvent
<1> HIDE DEF e
<1>4. /\ keyDownList' \in Seq(Entry)
      /\ Len(keyDownList') = Len(keyDownList) + 1
      /\ \A i \in 1 .. Len(keyDownList) : keyDownList'[i] = keyDownList[i]
      /\ keyDownList'[Len(keyDownList) + 1] = e
  BY <1>2, <1>3 DEF ListOK
<1>5. Len(keyDownList) \in Nat
  BY DEF ListOK
<1>6. DOMAIN keyDownList = 1 .. Len(keyDownList) /\ DOMAIN keyDownList' = 1 .. Len(keyDownList')
  BY <1>4 DEF ListOK
<1>7. DOMAIN keyDownList' = DOMAIN keyDownList \union {Len(keyDownList) + 1}
  BY <1>4, <1>5, <1>6
<1>8. ASSUME NEW x \in Listed'
      PROVE  x \in Listed \union {Keysym(k)}
  <2>1. PICK i \in DOMAIN keyDownList' : keyDownList'[i].keysym = x
    BY DEF Listed
  <2>2. i \in 1 .. Len(keyDownList) \/ i = Len(keyDownList) + 1
    BY <1>4, <1>5, <1>6
  <2> QED BY <1>2, <1>4, <1>6, <2>1, <2>2 DEF Listed
<1>9. ASSUME NEW x \in Listed \union {Keysym(k)}
      PROVE  x \in Listed'
  <2>1. CASE x = Keysym(k)
    BY <1>2, <1>4, <1>7, <2>1 DEF Listed
  <2>2. CASE x \in Listed
    <3>1. PICK i \in DOMAIN keyDownList : keyDownList[i].keysym = x
      BY <2>2 DEF Listed
    <3> QED BY <1>4, <1>6, <1>7, <3>1 DEF Listed
  <2> QED BY <2>1, <2>2
<1> QED
  BY <1>4, <1>8, <1>9 DEF ListOK

\* Taking out one entry leaves every other keysym listed.
LEMMA PopLists ==
    ASSUME ListOK, NEW i \in DOMAIN keyDownList, keyDownList' = Without(i)
    PROVE  /\ ListOK'
           /\ Listed \ {keyDownList[i].keysym} \subseteq Listed'
<1> DEFINE n == Len(keyDownList)
<1>1. n \in Nat /\ DOMAIN keyDownList = 1 .. n /\ i \in 1 .. n
  BY DEF ListOK
<1>2. /\ DOMAIN keyDownList' = 1 .. n - 1
      /\ \A j \in 1 .. n - 1 :
            keyDownList'[j] = IF j < i THEN keyDownList[j] ELSE keyDownList[j + 1]
  BY DEF Without
<1>3. \A j \in 1 .. n - 1 : keyDownList'[j] \in Entry
  <2> TAKE j \in 1 .. n - 1
  <2>1. j \in 1 .. n /\ j + 1 \in 1 .. n
    BY <1>1
  <2>2. keyDownList[j] \in Entry
        /\ keyDownList[j + 1] \in Entry
    BY <2>1 DEF ListOK
  <2> QED BY <1>2, <2>2
<1>4. keyDownList' \in Seq(Entry)
  <2>1. n - 1 \in Nat
    BY <1>1
  <2>2. keyDownList' = [j \in 1 .. n - 1 |->
                          IF j < i THEN keyDownList[j] ELSE keyDownList[j + 1]]
    BY DEF Without
  <2>3. \A j \in 1 .. n - 1 : (IF j < i THEN keyDownList[j] ELSE keyDownList[j + 1])
                                \in Entry
    BY <1>2, <1>3
  <2> HIDE DEF n
  <2> QED BY <2>1, <2>2, <2>3
<1>5. ASSUME NEW x \in Listed, x # keyDownList[i].keysym
      PROVE  x \in Listed'
  <2>1. PICK j \in 1 .. n : keyDownList[j].keysym = x
    BY <1>1, <1>5 DEF Listed
  <2>2. j # i
    BY <2>1, <1>5
  <2>3. CASE j < i
    <3>1. j \in 1 .. n - 1 /\ keyDownList'[j] = keyDownList[j]
      BY <1>1, <1>2, <2>3
    <3> QED BY <1>2, <2>1, <3>1 DEF Listed
  <2>4. CASE j > i
    <3>1. j - 1 \in 1 .. n - 1 /\ ~(j - 1 < i) /\ (j - 1) + 1 = j
      BY <1>1, <2>4
    <3>2. keyDownList'[j - 1] = keyDownList[j]
      BY <1>2, <3>1
    <3> QED BY <1>2, <2>1, <3>1, <3>2 DEF Listed
  <2> QED BY <1>1, <2>2, <2>3, <2>4
<1> QED BY <1>4, <1>5 DEF ListOK

\* Letting all keys up leaves none that is not listed.
LEMMA AllUpLists ==
    ASSUME ListOK, NoKeyStuck, AllKeysUp
    PROVE  ListOK' /\ NoKeyStuck'
BY DEF ListOK, NoKeyStuck, AllKeysUp, Listed

\* What leaves the list and the server's keys alone keeps the invariant.
LEMMA KeysFrame ==
    ASSUME ListOK, NoKeyStuck, UNCHANGED <<keyDownList, held>>
    PROVE  ListOK' /\ NoKeyStuck'
BY DEF ListOK, NoKeyStuck, Listed

\* A key goes down.
LEMMA KeyDownListed ==
    ASSUME KInv, NEW k \in Keys, OnKeyDown(k)
    PROVE  KInv'
<1>1. down' \subseteq Keys
  BY DEF KInv, OnKeyDown
<1>2. CASE Listening
  <2>1. keyDownList' = PushKeyEvent(k) /\ held' = held \union {Keysym(k)}
    BY <1>2 DEF OnKeyDown
  <2>2. ListOK' /\ Listed' = Listed \union {Keysym(k)}
    BY <2>1, PushLists DEF KInv
  <2> QED BY <1>1, <2>1, <2>2 DEF KInv, NoKeyStuck
<1>3. CASE ~Listening
  BY <1>1, <1>3, KeysFrame DEF KInv, OnKeyDown
<1> QED BY <1>2, <1>3

\* A key goes up.
LEMMA KeyUpListed ==
    ASSUME KInv, NEW k \in Keys, OnKeyUp(k)
    PROVE  KInv'
<1>1. down' \subseteq Keys
  BY DEF KInv, OnKeyUp
<1>2. CASE UNCHANGED <<keyDownList, held>>
  BY <1>1, <1>2, KeysFrame DEF KInv
<1>3. CASE \E i \in DOMAIN keyDownList : /\ keyDownList' = Without(i)
                                         /\ held' = held \ {keyDownList[i].keysym}
  <2>1. PICK i \in DOMAIN keyDownList : /\ keyDownList' = Without(i)
                                        /\ held' = held \ {keyDownList[i].keysym}
    BY <1>3
  <2>2. ListOK' /\ Listed \ {keyDownList[i].keysym} \subseteq Listed'
    BY <2>1, PopLists DEF KInv
  <2> QED BY <1>1, <2>1, <2>2 DEF KInv, NoKeyStuck
<1> QED BY <1>2, <1>3 DEF OnKeyUp, PopKeyEvent

\* NoKeyStuck for every set of keys and every length of the list: each report
\* to the server comes with an entry, and an entry is taken out only together
\* with its report.
THEOREM KeysListed == InputSpec => []NoKeyStuck
<1>1. InputInit => KInv
  <2> SUFFICES ASSUME InputInit
               PROVE  KInv
    OBVIOUS
  <2>1. ListOK
    <3>1. keyDownList = <<>>
      BY DEF InputInit
    <3>2. <<>> \in Seq(Entry)
      OBVIOUS
    <3> QED BY <3>1, <3>2 DEF ListOK
  <2>2. down \subseteq Keys /\ held \subseteq Listed
    BY DEF InputInit
  <2> QED BY <2>1, <2>2 DEF KInv, NoKeyStuck
<1>2. KInv /\ [InputNext]_inputVars => KInv'
  <2> SUFFICES ASSUME KInv, [InputNext]_inputVars
               PROVE  KInv'
    OBVIOUS
  <2>1. ASSUME NEW k \in Keys, OnKeyDown(k)
        PROVE  KInv'
    BY <2>1, KeyDownListed
  <2>2. ASSUME NEW k \in Keys, OnKeyUp(k)
        PROVE  KInv'
    BY <2>2, KeyUpListed
  <2>3. CASE Blur
    <3>1. down' \subseteq Keys
      BY <2>3 DEF Blur, KInv
    <3>2. AllKeysUp \/ UNCHANGED <<keyDownList, held>>
      BY <2>3 DEF Blur
    <3> QED BY <3>1, <3>2, AllUpLists, KeysFrame DEF KInv
  <2>4. CASE Ungrab
    <3>1. down' \subseteq Keys
      BY <2>4 DEF Ungrab, KInv
    <3>2. AllKeysUp \/ UNCHANGED <<keyDownList, held>>
      BY <2>4 DEF Ungrab
    <3> QED BY <3>1, <3>2, AllUpLists, KeysFrame DEF KInv
  <2>5. CASE UNCHANGED keyVars
    <3>1. down' \subseteq Keys /\ UNCHANGED <<keyDownList, held>>
      BY <2>5 DEF keyVars, KInv
    <3> QED BY <3>1, KeysFrame DEF KInv
  <2>6. ASSUME NEW b \in Buttons, OnMouseUp(b) \/ \E over \in BOOLEAN : OnMouseDown(b, over)
        PROVE  UNCHANGED keyVars
    BY <2>6 DEF OnMouseUp, OnMouseDown
  <2>7. CASE Focus \/ Grab \/ UNCHANGED inputVars
    BY <2>5, <2>7 DEF Focus, Grab, inputVars
  <2> QED
    BY <2>1, <2>2, <2>3, <2>4, <2>5, <2>6, <2>7
    DEF InputNext, InputStarts, InputEnds
<1> QED BY <1>1, <1>2, PTL DEF InputSpec, KInv

(***************************************************************************)
(* The mouse.                                                              *)
(***************************************************************************)

\* While two buttons were never held: at most one is, and the mask is empty
\* unless the mouse is captured for the one that is held.
MInv ==
    /\ grab = "not yet" => mask = {} /\ ~mouseCaptured
    /\ ~two => \A b, c \in pressed : b = c
    /\ Grabbed /\ ~two => IF mouseCaptured THEN mask = pressed /\ pressed # {} ELSE mask = {}

\* What is neither of them.
LEMMA MouseFrame ==
    ASSUME MInv, UNCHANGED mouseVars, grab' = grab \/ grab' = "off"
    PROVE  MInv'
BY DEF MInv, mouseVars, Grabbed

\* A button goes down.
LEMMA MouseDownMatched ==
    ASSUME MInv, NEW b, NEW over, OnMouseDown(b, over)
    PROVE  MInv'
<1>1. grab' = grab /\ pressed' = pressed \union {b} /\ two' = (two \/ pressed # {})
  BY DEF OnMouseDown
<1>2. two' \/ (~two /\ pressed = {} /\ pressed' = {b})
  BY <1>1
<1>3. grab = "not yet" => mask' = {} /\ ~mouseCaptured'
  BY DEF OnMouseDown, MInv, Grabbed
<1>4. ~two' => \A c, d \in pressed' : c = d
  BY <1>2
<1>5. Grabbed /\ ~two' =>
        IF mouseCaptured' THEN mask' = pressed' /\ pressed' # {} ELSE mask' = {}
  <2> SUFFICES ASSUME Grabbed, ~two'
               PROVE  IF mouseCaptured' THEN mask' = pressed' /\ pressed' # {} ELSE mask' = {}
    OBVIOUS
  <2>1. ~two /\ pressed = {} /\ pressed' = {b}
    BY <1>2
  <2>2. ~mouseCaptured /\ mask = {}
    BY <2>1 DEF MInv
  <2>3. CASE over
    BY <2>1, <2>2, <2>3 DEF OnMouseDown, MaskOr
  <2>4. CASE ~over
    BY <2>2, <2>4 DEF OnMouseDown
  <2> QED BY <2>3, <2>4
<1> QED BY <1>1, <1>3, <1>4, <1>5 DEF MInv, Grabbed

\* A button goes up.
LEMMA MouseUpMatched ==
    ASSUME MInv, NEW b, OnMouseUp(b)
    PROVE  MInv'
<1>1. grab' = grab /\ b \in pressed /\ pressed' = pressed \ {b} /\ two' = two
  BY DEF OnMouseUp
<1>2. grab = "not yet" => mask' = {} /\ ~mouseCaptured'
  BY DEF OnMouseUp, MInv, Grabbed
<1>3. ~two => \A c, d \in pressed' : c = d
  BY <1>1 DEF MInv
<1>4. Grabbed /\ ~two => mask' = {} /\ ~mouseCaptured'
  <2> SUFFICES ASSUME Grabbed, ~two
               PROVE  mask' = {} /\ ~mouseCaptured'
    OBVIOUS
  <2>1. pressed = {b}
    BY <1>1 DEF MInv
  <2>2. CASE mouseCaptured
    BY <2>1, <2>2 DEF OnMouseUp, MInv, MaskXor
  <2>3. CASE ~mouseCaptured
    BY <2>3 DEF OnMouseUp, MInv
  <2> QED BY <2>2, <2>3
<1> QED BY <1>1, <1>2, <1>3, <1>4 DEF MInv, Grabbed

\* The invariant says what the property says.
LEMMA MInvImplies == ASSUME MInv PROVE ButtonsMatch
BY DEF MInv, ButtonsMatch

\* ButtonsMatch for any number of buttons: the capture belongs to the one
\* button that is held, as long as it is one.
THEOREM ButtonsMatched == InputSpec => []ButtonsMatch
<1>1. InputInit => MInv
  BY DEF InputInit, MInv, Grabbed
<1>2. MInv /\ [InputNext]_inputVars => MInv'
  <2> SUFFICES ASSUME MInv, [InputNext]_inputVars
               PROVE  MInv'
    OBVIOUS
  <2>1. ASSUME NEW b \in Buttons, NEW over \in BOOLEAN, OnMouseDown(b, over)
        PROVE  MInv'
    BY <2>1, MouseDownMatched
  <2>2. ASSUME NEW b \in Buttons, OnMouseUp(b)
        PROVE  MInv'
    BY <2>2, MouseUpMatched
  <2>3. CASE grab = "not yet" /\ Grab
    BY <2>3 DEF Grab, MInv, Grabbed, mouseVars
  <2>4. CASE Ungrab \/ Blur \/ Focus \/ UNCHANGED inputVars
    <3>1. UNCHANGED mouseVars /\ (grab' = grab \/ grab' = "off")
      BY <2>4 DEF Ungrab, Blur, Focus, inputVars, mouseVars
    <3> QED BY <3>1, MouseFrame
  <2>5. ASSUME NEW k \in Keys, OnKeyDown(k) \/ OnKeyUp(k)
        PROVE  MInv'
    <3>1. UNCHANGED mouseVars /\ grab' = grab
      BY <2>5 DEF OnKeyDown, OnKeyUp
    <3> QED BY <3>1, MouseFrame
  <2> QED
    BY <2>1, <2>2, <2>3, <2>4, <2>5 DEF InputNext, InputStarts, InputEnds
<1> QED BY <1>1, <1>2, MInvImplies, PTL DEF InputSpec


-----------------------------------------------------------------------------
(***************************************************************************)
(* The connection.                                                         *)
(***************************************************************************)
Phases == {"connect", "normal"} \union InitStates \union Unconnected

\* The states of the page follow those of the socket.  A closed one carries
\* nothing and has no password form, which only the handshake shows.
ConnInv ==
    /\ rfb_state \in Phases
    /\ link \in {"connecting", "open", "closed"}
    /\ link = "closed" <=> rfb_state \in Unconnected
    /\ link = "connecting" <=> rfb_state = "connect"
    /\ link # "open" => wire = <<>> /\ ~prompt
    /\ rfb_state = "normal" => ~prompt
    /\ "fail" \in timers => link = "closed"
    /\ DOMAIN server = {"version", "auth", "phase"}
    /\ server.auth \in {"none", "vnc"}
    /\ password \in BOOLEAN

\* The order of the states: a page that was connected is not connected again.
Onwards ==
    /\ rfb_state' = "normal" => rfb_state \notin Unconnected
    /\ rfb_state = "normal" => rfb_state' \in {"normal"} \union Unconnected
    /\ rfb_state \in Unconnected => rfb_state' \in Unconnected

\* init_msg fails, goes on with the handshake or ends it.
LEMMA InitMsgGoes ==
    ASSUME ConnInv, rfb_state \in InitStates, NEW q
    PROVE  InitMsg(q).state \in InitStates \union {"normal", "failed"}
<1>1. ASSUME NEW p, NEW says
      PROVE  Authentication(p, says).state \in InitStates
    BY DEF Authentication, ClientInitialisation, Goes, ConnInv, InitStates
<1>2. CASE rfb_state \in {"password", "Authentication"}
    BY <1>1, <1>2 DEF InitMsg, Goes, InitStates
<1>3. CASE rfb_state \notin {"password", "Authentication"} /\ q = <<>>
    BY <1>3 DEF InitMsg, Goes, InitStates
<1>4. CASE rfb_state \notin {"password", "Authentication"} /\ q # <<>>
    <2>1. CASE rfb_state = "Security"
        BY <1>1, <1>4, <2>1 DEF InitMsg
    <2>2. CASE rfb_state # "Security"
        BY <1>4, <2>2 DEF InitMsg, Goes, ClientInitialisation, InitStates
    <2> QED BY <2>1, <2>2
<1> QED BY <1>2, <1>3, <1>4

\* A failure is said.
LEMMA FailSaid ==
    ASSUME ConnInv, Fail, UNCHANGED <<server, password>>
    PROVE  ConnInv' /\ Onwards
BY DEF ConnInv, Fail, Onwards, Phases, Unconnected, InitStates

\* init_msg says what it does.
LEMMA InitialisedSaid ==
    ASSUME ConnInv, rfb_state \in InitStates, NEW q, Initialised(InitMsg(q)),
           InitMsg(q).state # "failed" =>
               ("fail" \in timers' => "fail" \in timers),
           UNCHANGED <<server, password>>
    PROVE  ConnInv' /\ Onwards
<1> DEFINE r == InitMsg(q)
<1>1. r.state \in InitStates \union {"normal", "failed"}
    BY InitMsgGoes
<1>2. link = "open" /\ "fail" \notin timers
    BY DEF ConnInv, InitStates, Unconnected
<1> HIDE DEF r
<1>3. CASE r.state = "failed"
    BY <1>3, FailSaid DEF Initialised, r
<1>4. CASE r.state # "failed"
    <2>1. rfb_state' = r.state /\ link' = link /\ (r.state = "normal" => ~prompt')
        BY <1>4 DEF Initialised, r
    <2>2. "fail" \notin timers'
        BY <1>2, <1>4 DEF r
    <2> QED BY <1>1, <1>2, <1>4, <2>1, <2>2
            DEF ConnInv, Onwards, Phases, InitStates, Unconnected
<1> QED BY <1>3, <1>4

\* A frame arrives, or a timer goes on with what did.
LEMMA NormalSaid ==
    ASSUME ConnInv, rfb_state = "normal", UNCHANGED <<link, rfb_state, prompt, server, password>>,
           "fail" \in timers' => "fail" \in timers
    PROVE  ConnInv' /\ Onwards
BY DEF ConnInv, Onwards, Unconnected, InitStates, Phases

\* normal_msg leaves the timers of the connection alone.
LEMMA NormalTimers ==
    ASSUME NEW q, NEW running, Normal(q, running), running \subseteq timers
    PROVE  /\ "fail" \in timers' => "fail" \in timers
           /\ UNCHANGED <<link, rfb_state, prompt>>
<1> DEFINE s == NormalMsg(Reader(q))
<1>1. timers' = MsgTimerSet(s, running)
    BY DEF Normal
<1>2. UNCHANGED <<link, rfb_state, prompt>>
    BY DEF Normal
<1> HIDE DEF s
<1> QED BY <1>1, <1>2 DEF MsgTimerSet

\* A frame arrives.
LEMMA ReceiveSaid ==
    ASSUME ConnInv, Receive
    PROVE  ConnInv' /\ Onwards
<1>1. PICK n \in 1 .. Len(wire) : RecvMessage(n)
    BY DEF Receive
<1>2. link = "open"
    BY <1>1, EmptySeq DEF ConnInv
<1>3. UNCHANGED <<server, password>>
    BY <1>1 DEF RecvMessage, serverVars
<1> DEFINE q == rQ \o SubSeq(wire, 1, n)
<1>4. CASE rfb_state = "normal"
    <2>1. Normal(q, timers)
        BY <1>1, <1>4 DEF RecvMessage
    <2> HIDE DEF q
    <2> QED BY <1>3, <1>4, <2>1, NormalTimers, NormalSaid
<1>5. CASE rfb_state # "normal"
    <2>1. Initialised(InitMsg(q)) /\ (InitMsg(q).state # "failed" => UNCHANGED timers)
        BY <1>1, <1>5 DEF RecvMessage
    <2>2. rfb_state \in InitStates
        BY <1>2, <1>5 DEF ConnInv, Phases
    <2> HIDE DEF q
    <2> QED BY <1>3, <2>1, <2>2, InitialisedSaid
<1> QED BY <1>4, <1>5

\* Its timer.
LEMMA MsgTimerSaid ==
    ASSUME ConnInv, MsgTimer
    PROVE  ConnInv' /\ Onwards
<1>1. UNCHANGED <<server, password>> /\ rfb_state = "normal"
    BY DEF MsgTimer, serverVars
<1>2. CASE rQ # <<>>
    <2>1. Normal(rQ, timers \ {"msg"})
        BY <1>2 DEF MsgTimer
    <2> QED BY <1>1, <2>1, NormalTimers, NormalSaid
<1>3. CASE rQ = <<>>
    <2>1. timers' = timers \ {"msg"} /\ UNCHANGED <<link, rfb_state, prompt>>
        BY <1>3 DEF MsgTimer
    <2> QED BY <1>1, <2>1, NormalSaid
<1> QED BY <1>2, <1>3

\* The timer of init_msg.
LEMMA InitTimerSaid ==
    ASSUME ConnInv, InitTimer
    PROVE  ConnInv' /\ Onwards
<1>1. UNCHANGED <<server, password>>
    BY DEF InitTimer, serverVars
<1>2. CASE rfb_state \in InitStates
    <2>1. /\ Initialised(InitMsg(rQ))
          /\ InitMsg(rQ).state # "failed" => timers' = timers \ {"init"}
        BY <1>2 DEF InitTimer
    <2> QED BY <1>1, <1>2, <2>1, InitialisedSaid
<1>3. CASE rfb_state \notin InitStates
    <2>1. timers' = timers \ {"init"} /\ UNCHANGED <<rfb_state, prompt, wire, link>>
        BY <1>3 DEF InitTimer
    <2> QED BY <1>1, <2>1 DEF ConnInv, Onwards, Unconnected
<1> QED BY <1>2, <1>3

\* The other events of the page.
LEMMA PageEventSaid ==
    ASSUME ConnInv, PageEvent
    PROVE  ConnInv' /\ Onwards
<1>1. CASE OnOpen
    BY <1>1 DEF OnOpen, ConnInv, Onwards, Phases, InitStates, Unconnected, serverVars
<1>2. CASE Drop \/ ConnectTimeout
    BY <1>2, FailSaid DEF Drop, OnClose, ConnectTimeout, serverVars
<1>3. CASE FailedTimer
    BY <1>3 DEF FailedTimer, ConnInv, Onwards, Phases, InitStates, Unconnected,
                serverVars, linkVars
<1>4. CASE Receive \/ MsgTimer \/ InitTimer
    BY <1>4, ReceiveSaid, MsgTimerSaid, InitTimerSaid
<1>5. CASE SendPassword
    BY <1>5 DEF SendPassword, ConnInv, Onwards, Phases, InitStates, Unconnected,
                serverVars, linkVars
<1>6. CASE AnimFrame \/ Flush \/ \E n \in loading : ImageLoads(n)
    <2>1. UNCHANGED <<server, password, rfb_state, prompt, timers, wire, link>>
        BY <1>6 DEF AnimFrame, Flush, ImageLoads, serverVars, linkVars, pageVars
    <2> QED BY <2>1 DEF ConnInv, Onwards, Unconnected
<1> QED BY <1>1, <1>2, <1>3, <1>4, <1>5, <1>6 DEF PageEvent

\* The server sends on an open connection only, and its authentication stays
\* what it was until it matters no more.
LEMMA ServerEventSaid ==
    ASSUME ConnInv, ServerEvent
    PROVE  ConnInv' /\ Onwards
<1>1. link' = link /\ UNCHANGED pageVars
    BY DEF ServerEvent, ServerReads, Draw, ServerUpdates, Notice, linkVars
<1>2. link # "open" => wire' = wire
    BY DEF ServerEvent, ServerReads, Draw, ServerUpdates, Notice, Send, Ready, linkVars
<1>3. DOMAIN server' = {"version", "auth", "phase"} /\ server'.auth \in {"none", "vnc"}
    <2>1. CASE ServerReads
        BY <2>1 DEF ServerReads, Served, ConnInv
    <2>2. CASE ~ServerReads
        BY <2>2 DEF ServerEvent, Draw, ServerUpdates, Notice, ConnInv
    <2> QED BY <2>1, <2>2
<1> QED BY <1>1, <1>2, <1>3 DEF ConnInv, Onwards, Unconnected, pageVars

\* What the user does.
LEMMA UserSaid ==
    ASSUME ConnInv, UserEvent \/ MouseMove \/ AskTimer \/ CheckEvents \/ UNCHANGED vars
    PROVE  ConnInv' /\ Onwards /\ rfb_state' = rfb_state
<1>1. UNCHANGED <<server, password, rfb_state, prompt, timers, wire, link>>
    BY DEF UserEvent, MouseMove, AskTimer, CheckEvents, vars, streamVars, serverVars,
           linkVars, pageVars, Rest
<1> QED BY <1>1 DEF ConnInv, Onwards, Unconnected

\* At first,
LEMMA ConnStarts == Init => ConnInv
<1> SUFFICES ASSUME Init PROVE ConnInv
    OBVIOUS
<1>1. /\ DOMAIN server = {"version", "auth", "phase"}
      /\ server.auth \in {"none", "vnc"}
    BY DEF Init, StreamInit
<1> QED BY <1>1 DEF Init, StreamInit, ConnInv, Phases, InitStates, Unconnected

\* after every step
LEMMA ConnStep == ASSUME ConnInv, [Next]_vars PROVE ConnInv' /\ Onwards
BY PageEventSaid, ServerEventSaid, UserSaid DEF Next

\* and always.
LEMMA ConnHolds == Spec => []ConnInv
BY ConnStarts, ConnStep, PTL DEF Spec

\* ClosedIsSaid for every server, whatever it sends and however often a password
\* is tried: the page shows a closed connection as failed or disconnected.
THEOREM GoneIsSaid == Spec => []ClosedIsSaid
<1>1. ConnInv => ClosedIsSaid
    BY DEF ConnInv, ClosedIsSaid
<1> QED BY <1>1, ConnHolds, PTL

(***************************************************************************)
(* The input belongs to the connection.                                    *)
(***************************************************************************)
GrabInv ==
    /\ rfb_state = "normal" => grab = "on"
    /\ rfb_state \in Unconnected => grab # "on"
    /\ rfb_state \notin {"normal"} \union Unconnected => grab = "not yet"

\* A step of the connection installs the handlers or takes them away.
LEMMA FollowsInput ==
    ASSUME ConnInv, GrabInv, PageEvent
    PROVE  GrabInv' /\ [InputNext]_inputVars
<1>1. Onwards /\ rfb_state' \in Phases /\ Follow
    BY PageEventSaid DEF ConnInv, PageEvent
<1>2. CASE rfb_state # "normal" /\ rfb_state' = "normal"
    <2>1. rfb_state' \notin Unconnected /\ grab = "not yet"
        BY <1>1, <1>2 DEF GrabInv, Onwards, Unconnected
    <2>2. Grab
        BY <1>1, <1>2, <2>1, Zenon DEF Follow
    <2> QED BY <1>2, <2>1, <2>2 DEF GrabInv, Grab, Unconnected, InputNext
<1>3. CASE Grabbed /\ rfb_state' \in Unconnected
    <2>1. rfb_state' # "normal"
        BY <1>3 DEF Unconnected
    <2>2. Ungrab
        BY <1>1, <1>3, <2>1, Zenon DEF Follow
    <2> QED BY <1>3, <2>2 DEF GrabInv, Ungrab, Unconnected, InputNext
<1>4. CASE /\ ~(rfb_state # "normal" /\ rfb_state' = "normal")
           /\ ~(Grabbed /\ rfb_state' \in Unconnected)
    <2>1. UNCHANGED inputVars
        BY <1>1, <1>4, Zenon DEF Follow
    <2>2. grab' = grab
        BY <2>1 DEF inputVars
    <2> QED BY <1>1, <1>4, <2>1, <2>2 DEF GrabInv, Grabbed, Onwards
<1> QED BY <1>2, <1>3, <1>4

\* What the user does is a step of keyboard and mouse.
LEMMA UserIsInput ==
    ASSUME ConnInv, GrabInv,
           ServerEvent \/ UserEvent \/ MouseMove \/ AskTimer \/ CheckEvents \/ UNCHANGED vars
    PROVE  GrabInv' /\ [InputNext]_inputVars
<1>1. rfb_state' = rfb_state
    <2>1. CASE ServerEvent
        BY <2>1 DEF ServerEvent, ServerReads, Draw, ServerUpdates, Notice, pageVars
    <2> QED BY <2>1, UserSaid
<1>2. CASE UserEvent
    <2>1. InputNext
        BY <1>2 DEF UserEvent, InputNext
    <2>2. grab' = grab
        BY <1>2 DEF UserEvent, InputStarts, InputEnds, OnKeyDown, OnKeyUp, OnMouseDown, OnMouseUp,
                    Blur, Focus
    <2> QED BY <1>1, <2>1, <2>2 DEF GrabInv
<1>3. CASE ~UserEvent
    <2>1. UNCHANGED inputVars
        BY <1>3 DEF ServerEvent, MouseMove, AskTimer, CheckEvents, vars
    <2> QED BY <1>1, <2>1 DEF GrabInv, inputVars
<1> QED BY <1>2, <1>3

\* The page's keyboard and mouse are those of RFBInput, whose handlers are
\* installed once and taken away with the connection: what holds of the input by
\* itself holds on the page.
THEOREM PageRunsInput == Spec => InputSpec
<1>1. Init => GrabInv /\ InputInit
    BY DEF Init, StreamInit, InputInit, GrabInv, Unconnected
<1>2. ConnInv /\ GrabInv /\ [Next]_vars => GrabInv' /\ [InputNext]_inputVars
    BY FollowsInput, UserIsInput DEF Next
<1> QED BY <1>1, <1>2, ConnHolds, PTL DEF Spec, InputSpec

\* NoKeyStuck on the page.
THEOREM NoPageKeyStuck == Spec => []NoKeyStuck
BY PageRunsInput, KeysListed, PTL

\* ButtonsMatch on the page.
THEOREM PageButtonsMatch == Spec => []ButtonsMatch
BY PageRunsInput, ButtonsMatched, PTL

(***************************************************************************)
(* scan_renderQ paints from the front until it finds an image that is not  *)
(* complete.                                                               *)
(***************************************************************************)
Held == {d \in Displays : d.queue = <<>> \/ Head(d.queue) \in d.loading}

PaintFirst(d) == [Paint(d, Head(d.queue)) EXCEPT !.queue = Tail(@)]

PaintFirstIf == [d \in Displays |-> IF d \in Held THEN d ELSE PaintFirst(d)]

QueueLength == [d \in Displays |-> Len(d.queue)]

Same == [d \in Displays |-> d]

\* What one rectangle does to the display.
LEMMA PaintIs ==
    ASSUME NEW d \in Displays, NEW n \in Nat
    PROVE  /\ Paint(d, n) \in Displays
           /\ Paint(d, n).queue = d.queue
           /\ Paint(d, n).loading = d.loading
           /\ Paint(d, n).canvas = IF n > d.canvas THEN n ELSE d.canvas
           /\ ~d.disorder /\ d.canvas <= n => ~Paint(d, n).disorder
<1> DEFINE late == d.disorder \/ n < d.canvas
<1> DEFINE top == IF n > d.canvas THEN n ELSE d.canvas
<1>1. late \in BOOLEAN /\ top \in Nat
    BY DEF Displays
<1>2. Paint(d, n) = [[d EXCEPT !.disorder = late] EXCEPT !.canvas = top]
    BY DEF Paint, Displays
<1>3. ~d.disorder /\ d.canvas <= n => ~late
    BY DEF Displays
<1>4. top = IF n > d.canvas THEN n ELSE d.canvas
    OBVIOUS
<1> HIDE DEF late, top
<1>5. Paint(d, n) = [queue |-> d.queue, loading |-> d.loading, canvas |-> top,
                     disorder |-> late]
    BY <1>2 DEF Displays
<1> QED BY <1>1, <1>3, <1>4, <1>5 DEF Displays

\* One turn of the scan takes the first of the queue.
LEMMA PaintFirstIs ==
    ASSUME NEW d \in Displays, d.queue # <<>>
    PROVE  /\ Head(d.queue) \in Nat
           /\ PaintFirst(d) \in Displays
           /\ PaintFirst(d).queue = Tail(d.queue)
           /\ PaintFirst(d).loading = d.loading
           /\ PaintFirst(d).canvas = Paint(d, Head(d.queue)).canvas
           /\ PaintFirst(d).disorder = Paint(d, Head(d.queue)).disorder
           /\ Len(Tail(d.queue)) = Len(d.queue) - 1
           /\ Len(d.queue) \in Nat
<1> DEFINE n == Head(d.queue)
<1> DEFINE r == Tail(d.queue)
<1>1. n \in Nat /\ r \in Seq(Nat) /\ Len(r) = Len(d.queue) - 1 /\ Len(d.queue) \in Nat
    BY HeadTailProperties, LenProperties DEF Displays
<1> DEFINE e == Paint(d, n)
<1>2. e \in Displays /\ e.queue = d.queue /\ e.loading = d.loading
    BY <1>1, PaintIs
<1>3. PaintFirst(d) = [e EXCEPT !.queue = r]
    BY <1>2 DEF PaintFirst
<1> HIDE DEF n, r, e
<1> QED BY <1>1, <1>2, <1>3 DEF Displays, n, r, e

\* The scan ends.
LEMMA ScanShrinks == Shrinks(Displays, Held, PaintFirstIf, QueueLength)
<1>1. ASSUME NEW d \in Displays PROVE Len(d.queue) \in Nat
    BY LenProperties DEF Displays
<1>2. ASSUME NEW d \in Displays, d \notin Held
      PROVE  PaintFirst(d) \in Displays /\ Len(PaintFirst(d).queue) < Len(d.queue)
    <2>1. d.queue # <<>>
        BY <1>2 DEF Held
    <2>2. Len(Tail(d.queue)) < Len(d.queue)
        BY <2>1, PaintFirstIs
    <2> QED BY <2>1, <2>2, PaintFirstIs
<1> QED BY <1>1, <1>2 DEF Shrinks, PaintFirstIf, QueueLength

\* Scan is that loop.
LEMMA ScanComputes == Computes(Scan, Displays, Held, PaintFirstIf, Same)
<1>1. Returns(Displays, Displays, Same)
    BY DEF Returns, Same
<1>2. PICK f : f = [d \in Displays |-> IF d \in Held THEN Same[d] ELSE f[PaintFirstIf[d]]]
    BY <1>1, ScanShrinks, Loop
<1>3. \A d \in Displays : Same[d] = d /\ (d \notin Held => PaintFirstIf[d] = PaintFirst(d))
    BY DEF Same, PaintFirstIf
<1>4. \A d \in Displays : f[d] = IF d \in Held THEN d ELSE f[PaintFirst(d)]
    BY <1>2, <1>3
<1>5. f = [d \in Displays |->
             IF d.queue = <<>> \/ Head(d.queue) \in d.loading THEN d
             ELSE f[[Paint(d, Head(d.queue)) EXCEPT !.queue = Tail(@)]]]
    <2>1. f = [d \in Displays |-> f[d]]
        BY <1>2
    <2>2. ASSUME NEW d \in Displays
          PROVE  f[d] = IF d.queue = <<>> \/ Head(d.queue) \in d.loading THEN d
                        ELSE f[[Paint(d, Head(d.queue)) EXCEPT !.queue = Tail(@)]]
        BY <1>4 DEF Held, PaintFirst
    <2> QED BY <2>1, <2>2
<1>6. Scan = [d \in Displays |->
             IF d.queue = <<>> \/ Head(d.queue) \in d.loading THEN d
             ELSE Scan[[Paint(d, Head(d.queue)) EXCEPT !.queue = Tail(@)]]]
    BY <1>5 DEF Scan
<1>7. Scan = [d \in Displays |-> IF d \in Held THEN d ELSE Scan[PaintFirst(d)]]
    BY <1>6 DEF Held, PaintFirst
<1> QED BY <1>3, <1>7 DEF Computes

\* What painting the first of the queue preserves holds after a scan.
LEMMA ScanKeeps ==
    ASSUME NEW I, I \subseteq Displays,
           \A d \in I : d \notin Held => PaintFirst(d) \in I,
           NEW d \in I
    PROVE  Scan[d] \in I \intersect Held
<1>1. Kept(I, Displays, Held, PaintFirstIf)
    BY DEF Kept, PaintFirstIf
<1>2. PICK t \in I : t \in Held /\ Scan[d] = Same[t]
    BY <1>1, ScanShrinks, ScanComputes, LoopEnds
<1> QED BY <1>2 DEF Same

\* A display whose queue is in order: what waits was sent after what is painted,
\* and every image that is not complete waits.
Ordered(num) ==
    {d \in Displays :
        /\ ~d.disorder /\ d.canvas <= num
        /\ \A i \in 1 .. Len(d.queue) : d.canvas <= d.queue[i] /\ d.queue[i] <= num
        /\ \A i, j \in 1 .. Len(d.queue) : i <= j => d.queue[i] <= d.queue[j]
        /\ \A n \in d.loading : \E i \in 1 .. Len(d.queue) : d.queue[i] = n}

\* A scan paints in order.
LEMMA OrderedScan ==
    ASSUME NEW num \in Nat, NEW d \in Ordered(num)
    PROVE  /\ Scan[d] \in Ordered(num)
           /\ d.loading = {} => Scan[d].queue = <<>>
<1>1. ASSUME NEW e \in Ordered(num), e \notin Held
      PROVE  PaintFirst(e) \in Ordered(num) /\ PaintFirst(e).loading = e.loading
    <2> DEFINE n == Head(e.queue)
    <2> DEFINE r == Tail(e.queue)
    <2> DEFINE p == PaintFirst(e)
    <2>1. e \in Displays /\ e.queue # <<>> /\ n \notin e.loading
        BY <1>1 DEF Ordered, Held
    <2>2. /\ n \in Nat /\ p \in Displays /\ p.queue = r /\ p.loading = e.loading
          /\ p.canvas = Paint(e, n).canvas /\ p.disorder = Paint(e, n).disorder
          /\ Len(r) = Len(e.queue) - 1 /\ Len(e.queue) \in Nat
        BY <2>1, PaintFirstIs
    <2>3. n = e.queue[1] /\ \A i \in 1 .. Len(r) : r[i] = e.queue[i + 1]
        BY <2>1, HeadTailProperties DEF Displays
    <2> HIDE DEF n, r, p
    <2>4. e.canvas <= n /\ n <= num /\ 1 \in 1 .. Len(e.queue)
        <3>1. Len(e.queue) # 0
            BY <2>1, EmptySeq DEF Displays
        <3> QED BY <2>2, <2>3, <3>1 DEF Ordered
    <2>5. ~p.disorder /\ p.canvas = n
        <3>1. e.canvas \in Nat /\ ~e.disorder
            BY <2>1 DEF Ordered, Displays
        <3>2. /\ Paint(e, n).canvas = IF n > e.canvas THEN n ELSE e.canvas
              /\ ~Paint(e, n).disorder
            BY <2>1, <2>2, <2>4, <3>1, PaintIs
        <3> QED BY <2>2, <2>4, <3>1, <3>2
    <2>6. \A i \in 1 .. Len(r) : i + 1 \in 1 .. Len(e.queue) /\ n <= r[i] /\ r[i] <= num
        <3>1. \A i, j \in 1 .. Len(e.queue) : i <= j => e.queue[i] <= e.queue[j]
            BY DEF Ordered
        <3>2. \A i \in 1 .. Len(e.queue) : e.queue[i] <= num
            BY DEF Ordered
        <3>3. \A i \in 1 .. Len(r) : i + 1 \in 1 .. Len(e.queue) /\ 1 <= i + 1
            BY <2>2
        <3> QED BY <2>3, <2>4, <3>1, <3>2, <3>3
    <2>7. \A i, j \in 1 .. Len(r) : i <= j => r[i] <= r[j]
        BY <2>2, <2>3, <2>6 DEF Ordered
    <2>8. ASSUME NEW k \in e.loading PROVE \E i \in 1 .. Len(r) : r[i] = k
        <3>1. PICK i \in 1 .. Len(e.queue) : e.queue[i] = k
            BY DEF Ordered
        <3>2. i # 1
            BY <2>1, <2>3, <3>1
        <3>3. i - 1 \in 1 .. Len(r) /\ r[i - 1] = k
            BY <2>2, <2>3, <3>1, <3>2
        <3> QED BY <3>3
    <2> QED BY <2>2, <2>4, <2>5, <2>6, <2>7, <2>8 DEF Ordered, p
<1>2. Ordered(num) \subseteq Displays
    BY DEF Ordered
<1>3. Scan[d] \in Ordered(num)
    BY <1>1, <1>2, ScanKeeps
<1>4. ASSUME d.loading = {} PROVE Scan[d].queue = <<>>
    <2> DEFINE I == {e \in Ordered(num) : e.loading = {}}
    <2>1. I \subseteq Displays /\ d \in I /\ \A e \in I : e \notin Held => PaintFirst(e) \in I
        BY <1>1, <1>2, <1>4
    <2> HIDE DEF I
    <2>2. Scan[d] \in I \intersect Held
        BY <2>1, ScanKeeps
    <2> QED BY <2>2 DEF I, Held
<1> QED BY <1>3, <1>4

\* A rectangle painted at once is in order if nothing waits.
LEMMA OrderedPaint ==
    ASSUME NEW num \in Nat, NEW d \in Ordered(num), d.queue = <<>>
    PROVE  Paint(d, num) \in Ordered(num)
<1>1. d \in Displays /\ ~d.disorder /\ d.canvas <= num /\ d.loading = {}
    BY EmptySeq DEF Ordered
<1>2. /\ Paint(d, num) \in Displays /\ Paint(d, num).queue = <<>>
      /\ Paint(d, num).loading = {} /\ ~Paint(d, num).disorder
      /\ Paint(d, num).canvas = IF num > d.canvas THEN num ELSE d.canvas
    BY <1>1, PaintIs
<1>3. Paint(d, num).canvas <= num
    BY <1>1, <1>2
<1> QED BY <1>2, <1>3, EmptySeq DEF Ordered

\* renderQ_push.
LEMMA PushIs ==
    ASSUME NEW d \in Displays, NEW n \in Nat, NEW image \in BOOLEAN
    PROVE  Push(d, n, image) \in Displays
<1> DEFINE e == [d EXCEPT !.queue = Append(@, n),
                          !.loading = IF image THEN @ \union {n} ELSE @]
<1>1. Append(d.queue, n) \in Seq(Nat) /\ (IF image THEN d.loading \union {n} ELSE d.loading) \in SUBSET Nat
    BY AppendProperties DEF Displays
<1>2. e \in Displays
    BY <1>1 DEF Displays
<1> HIDE DEF e
<1>3. Scan[e] \in Displays
    <2>1. \A c \in Displays : c \notin Held => PaintFirst(c) \in Displays
        BY PaintFirstIs DEF Held
    <2> QED BY <1>2, <2>1, ScanKeeps
<1> QED BY <1>2, <1>3 DEF Push, e

\* One that is pushed is, whatever waits.
LEMMA OrderedPush ==
    ASSUME NEW num \in Nat, NEW d \in Ordered(num), NEW image \in BOOLEAN
    PROVE  /\ Push(d, num, image) \in Ordered(num)
           /\ ~image /\ d.queue = <<>> => Push(d, num, image).queue = <<>>
<1> DEFINE q == Append(d.queue, num)
<1> DEFINE l == IF image THEN d.loading \union {num} ELSE d.loading
<1> DEFINE e == [d EXCEPT !.queue = q, !.loading = l]
<1>1. d \in Displays
    BY DEF Ordered
<1>2. /\ q \in Seq(Nat) /\ Len(q) = Len(d.queue) + 1 /\ Len(d.queue) \in Nat
      /\ q[Len(d.queue) + 1] = num /\ \A i \in 1 .. Len(d.queue) : q[i] = d.queue[i]
    BY <1>1, AppendProperties, LenProperties DEF Displays
<1>3. l \in SUBSET Nat /\ d.loading \subseteq l /\ l \subseteq d.loading \union {num}
    BY <1>1 DEF Displays
<1>4. ~image /\ d.queue = <<>> => l = {} /\ Len(q) = 1
    <2>1. d.queue = <<>> => d.loading = {} /\ Len(d.queue) = 0
        BY EmptySeq DEF Ordered
    <2> QED BY <1>2, <2>1
<1> HIDE DEF q, l
<1>5. /\ e \in Displays /\ e.queue = q /\ e.loading = l /\ e.canvas = d.canvas
      /\ e.disorder = d.disorder
    BY <1>1, <1>2, <1>3 DEF Displays
<1>6. Push(d, num, image) = IF Len(q) = 1 THEN Scan[e] ELSE e
    BY <1>5 DEF Push, q, l
<1> HIDE DEF e
<1>7. e \in Ordered(num)
    <2>1. /\ ~d.disorder /\ d.canvas <= num /\ d.canvas \in Nat
          /\ \A i \in 1 .. Len(d.queue) : d.canvas <= d.queue[i] /\ d.queue[i] <= num
          /\ \A i, j \in 1 .. Len(d.queue) : i <= j => d.queue[i] <= d.queue[j]
          /\ \A n \in d.loading : \E i \in 1 .. Len(d.queue) : d.queue[i] = n
        BY DEF Ordered, Displays
    <2>2. \A i \in 1 .. Len(q) : i \in 1 .. Len(d.queue) \/ i = Len(d.queue) + 1
        BY <1>2
    <2>3. \A i \in 1 .. Len(q) : d.canvas <= q[i] /\ q[i] <= num
        <3> SUFFICES ASSUME NEW i \in 1 .. Len(q)
                     PROVE  d.canvas <= q[i] /\ q[i] <= num
            OBVIOUS
        <3>1. CASE i = Len(d.queue) + 1
            BY <1>2, <2>1, <3>1
        <3>2. CASE i \in 1 .. Len(d.queue)
            BY <1>2, <2>1, <3>2
        <3> QED BY <2>2, <3>1, <3>2
    <2>4. \A i, j \in 1 .. Len(q) : i <= j => q[i] <= q[j]
        <3> SUFFICES ASSUME NEW i \in 1 .. Len(q), NEW j \in 1 .. Len(q), i <= j
                     PROVE  q[i] <= q[j]
            OBVIOUS
        <3>1. CASE j = Len(d.queue) + 1
            BY <1>2, <2>3, <3>1
        <3>2. CASE j \in 1 .. Len(d.queue)
            <4>1. i \in 1 .. Len(d.queue)
                BY <1>2, <3>2
            <4> QED BY <1>2, <2>1, <3>2, <4>1
        <3> QED BY <2>2, <3>1, <3>2
    <2>5. \A n \in l : \E i \in 1 .. Len(q) : q[i] = n
        <3> SUFFICES ASSUME NEW n \in l PROVE \E i \in 1 .. Len(q) : q[i] = n
            OBVIOUS
        <3>1. CASE n = num
            BY <1>2, <3>1
        <3>2. CASE n \in d.loading
            <4>1. PICK i \in 1 .. Len(d.queue) : d.queue[i] = n
                BY <2>1, <3>2
            <4>2. i \in 1 .. Len(q) /\ q[i] = n
                BY <1>2, <4>1
            <4> QED BY <4>2
        <3> QED BY <1>3, <3>1, <3>2
    <2> QED BY <1>5, <2>1, <2>3, <2>4, <2>5 DEF Ordered
<1>8. Scan[e] \in Ordered(num) /\ (e.loading = {} => Scan[e].queue = <<>>)
    BY <1>7, OrderedScan
<1> QED BY <1>4, <1>5, <1>6, <1>7, <1>8

(***************************************************************************)
(* The loop of framebufferUpdate.                                          *)
(***************************************************************************)
FBUs == [rects : Nat, enc : Encodings, num : Nat, left : Nat, waiting : BOOLEAN]

\* No rectangle has more than two tokens after its header.
LEMMA PartsIs == \A enc \in Encodings : Parts(enc) \in {0, 1, 2}
BY DEF Parts, Encodings

\* A part that is drawn leaves a display.
LEMMA RenderIs ==
    ASSUME NEW d \in Displays, NEW enc \in Encodings, NEW n \in Nat
    PROVE  Render(d, enc, n) \in Displays
<1>1. CASE enc \in Direct
    <2>1. enc \notin Queued /\ enc \notin Quiet
        BY <1>1 DEF Direct, Queued, Quiet
    <2> QED BY <1>1, <2>1, PaintIs DEF Render
<1>2. CASE enc \in Queued
    <2>1. enc \notin Direct /\ (enc = "IMAGE") \in BOOLEAN
        BY <1>2 DEF Direct, Queued
    <2> QED BY <1>2, <2>1, PushIs DEF Render
<1>3. CASE enc \in Quiet
    <2>1. enc \notin Direct /\ enc \notin Queued
        BY <1>3 DEF Direct, Queued, Quiet
    <2> QED BY <1>3, <2>1 DEF Render
<1> QED BY <1>1, <1>2, <1>3 DEF Encodings

\* The components of a reader.
LEMMA ReaderHas ==
    ASSUME NEW s \in Readers
    PROVE  /\ s.q \in Seq(Tokens) /\ s.fbu \in FBUs /\ s.d \in Displays
           /\ s.asks \in BOOLEAN /\ s.more \in BOOLEAN /\ s.confused \in BOOLEAN
           /\ s.q # <<>> => /\ Head(s.q) \in Tokens /\ Tail(s.q) \in Seq(Tokens)
                            /\ Len(Tail(s.q)) = Len(s.q) - 1
           /\ Len(s.q) \in Nat
<1>1. s.q \in Seq(Tokens) /\ s.fbu \in FBUs /\ s.d \in Displays
      /\ s.asks \in BOOLEAN /\ s.more \in BOOLEAN /\ s.confused \in BOOLEAN
    BY DEF Readers, FBUs
<1> QED BY <1>1, HeadTailProperties, LenProperties

\* A header is read.
LEMMA HeaderIs ==
    ASSUME NEW s \in Readers, NextIs(s, "rect")
    PROVE  /\ RectHeader(s) \in Readers
           /\ Head(s.q).v \in Encodings /\ Head(s.q).n \in Nat
           /\ RectHeader(s).q = Tail(s.q)
           /\ RectHeader(s).fbu = [rects |-> s.fbu.rects, enc |-> Head(s.q).v,
                                   num |-> Head(s.q).n, left |-> Parts(Head(s.q).v),
                                   waiting |-> TRUE]
           /\ RectHeader(s).d = s.d
           /\ RectHeader(s).confused = s.confused
<1> DEFINE h == Head(s.q)
<1> DEFINE q == Tail(s.q)
<1> DEFINE f == [rects |-> s.fbu.rects, enc |-> h.v, num |-> h.n, left |-> Parts(h.v),
                 waiting |-> TRUE]
<1>1. s.q # <<>> /\ h.k = "rect"
    BY DEF NextIs
<1>2. h \in Tokens /\ q \in Seq(Tokens) /\ s.fbu \in FBUs
    BY <1>1, ReaderHas
<1> HIDE DEF q
<1>3. h.v \in Encodings /\ h.n \in Nat
    BY <1>1, <1>2 DEF Tokens
<1> HIDE DEF h
<1>4. f \in FBUs
    BY <1>2, <1>3, PartsIs DEF FBUs
<1>5. RectHeader(s) = [s EXCEPT !.q = q, !.fbu = f]
    BY DEF RectHeader, Readers, q, h
<1> HIDE DEF f
<1>6. RectHeader(s) \in Readers /\ RectHeader(s).q = q /\ RectHeader(s).fbu = f
      /\ RectHeader(s).d = s.d /\ RectHeader(s).confused = s.confused
    BY <1>2, <1>4, <1>5 DEF Readers, FBUs
<1> QED BY <1>3, <1>6 DEF f, h, q

\* A part is read.
LEMMA PartIs ==
    ASSUME NEW s \in Readers, NextIs(s, s.fbu.enc), s.fbu.left # 0
    PROVE  /\ RectPart(s) \in Readers
           /\ RectPart(s).q = Tail(s.q)
           /\ RectPart(s).fbu = [s.fbu EXCEPT !.left = s.fbu.left - 1]
           /\ RectPart(s).d = Render(s.d, s.fbu.enc, s.fbu.num)
           /\ RectPart(s).confused = s.confused
<1> DEFINE q == Tail(s.q)
<1> DEFINE f == [s.fbu EXCEPT !.left = s.fbu.left - 1]
<1> DEFINE d == Render(s.d, s.fbu.enc, s.fbu.num)
<1>1. s.q # <<>>
    BY DEF NextIs
<1>2. q \in Seq(Tokens) /\ s.fbu \in FBUs /\ s.d \in Displays
    BY <1>1, ReaderHas
<1>3. s.fbu.left - 1 \in Nat /\ s.fbu.enc \in Encodings /\ s.fbu.num \in Nat
    BY <1>2 DEF FBUs
<1>4. d \in Displays
    BY <1>2, <1>3, RenderIs
<1>5. f \in FBUs
    BY <1>2, <1>3 DEF FBUs
<1>6. RectPart(s) = [s EXCEPT !.q = q, !.fbu = f, !.d = d]
    BY DEF RectPart, Readers
<1> HIDE DEF q, f, d
<1>7. RectPart(s) \in Readers /\ RectPart(s).q = q /\ RectPart(s).fbu = f
      /\ RectPart(s).d = d /\ RectPart(s).confused = s.confused
    BY <1>2, <1>4, <1>5, <1>6 DEF Readers, FBUs
<1> QED BY <1>7 DEF f, d, q

\* A rectangle is done.
LEMMA DoneIs ==
    ASSUME NEW s \in Readers, s.fbu.rects > 0
    PROVE  /\ RectDone(s) \in Readers
           /\ RectDone(s).q = s.q
           /\ RectDone(s).fbu =
                [s.fbu EXCEPT !.rects = IF s.fbu.enc = "last_rect" THEN 0 ELSE s.fbu.rects - 1,
                              !.waiting = FALSE]
           /\ RectDone(s).d = s.d
           /\ RectDone(s).confused = s.confused
<1> DEFINE r == IF s.fbu.enc = "last_rect" THEN 0 ELSE s.fbu.rects - 1
<1> DEFINE f == [s.fbu EXCEPT !.rects = r, !.waiting = FALSE]
<1> DEFINE a == s.asks \/ s.fbu.enc = "DesktopSize"
<1>1. s.fbu \in FBUs /\ s.asks \in BOOLEAN
    BY ReaderHas
<1>2. r \in Nat /\ a \in BOOLEAN
    BY <1>1 DEF FBUs
<1>3. RectDone(s) = [s EXCEPT !.fbu = f, !.asks = a]
    BY DEF RectDone, Readers
<1> HIDE DEF r, a
<1>4. f \in FBUs
    BY <1>1, <1>2 DEF FBUs
<1> HIDE DEF f
<1>5. RectDone(s) \in Readers /\ RectDone(s).q = s.q /\ RectDone(s).fbu = f
      /\ RectDone(s).d = s.d /\ RectDone(s).confused = s.confused
    BY <1>2, <1>3, <1>4 DEF Readers, FBUs
<1> QED BY <1>5 DEF f, r

\* The loop stops when the update is read, or when what it wants is not there.
Stops == {s \in Readers :
            \/ s.fbu.rects = 0
            \/ ~s.fbu.waiting /\ ~NextIs(s, "rect")
            \/ s.fbu.waiting /\ s.fbu.left # 0 /\ ~NextIs(s, s.fbu.enc)}

Turn(s) == IF ~s.fbu.waiting THEN RectHeader(s)
           ELSE IF s.fbu.left = 0 THEN RectDone(s) ELSE RectPart(s)

Ending(s) == IF s.fbu.rects = 0 THEN s
             ELSE IF s.q # <<>> THEN Confused(s)
             ELSE IF ~s.fbu.waiting THEN Waits(s)
             ELSE Waits([s EXCEPT !.fbu.waiting = Waiting(s)])

TurnIf == [s \in Readers |-> IF s \in Stops THEN s ELSE Turn(s)]

EndIf == [s \in Readers |-> IF s \in Stops THEN Ending(s) ELSE s]

WorkLeft == [s \in Readers |->
               2 * Len(s.q) + 2 * s.fbu.rects + IF s.fbu.waiting THEN 1 ELSE 0]

\* What a turn of the loop is.
LEMMA TurnIs ==
    ASSUME NEW s \in Readers, s \notin Stops
    PROVE  /\ s.fbu.rects > 0
           /\ ~s.fbu.waiting => NextIs(s, "rect") /\ Turn(s) = RectHeader(s)
           /\ s.fbu.waiting /\ s.fbu.left = 0 => Turn(s) = RectDone(s)
           /\ s.fbu.waiting /\ s.fbu.left # 0 => /\ NextIs(s, s.fbu.enc)
                                                 /\ Turn(s) = RectPart(s)
           /\ Turn(s) \in Readers
<1>1. s.fbu \in FBUs
    BY ReaderHas
<1>2. /\ s.fbu.rects > 0
      /\ ~s.fbu.waiting => NextIs(s, "rect")
      /\ s.fbu.waiting /\ s.fbu.left # 0 => NextIs(s, s.fbu.enc)
    BY <1>1 DEF Stops, FBUs
<1>3. /\ ~s.fbu.waiting => Turn(s) = RectHeader(s)
      /\ s.fbu.waiting /\ s.fbu.left = 0 => Turn(s) = RectDone(s)
      /\ s.fbu.waiting /\ s.fbu.left # 0 => Turn(s) = RectPart(s)
    BY DEF Turn
<1>4. CASE ~s.fbu.waiting
    BY <1>2, <1>3, <1>4, HeaderIs
<1>5. CASE s.fbu.waiting /\ s.fbu.left = 0
    BY <1>2, <1>3, <1>5, DoneIs
<1>6. CASE s.fbu.waiting /\ s.fbu.left # 0
    BY <1>2, <1>3, <1>6, PartIs
<1> QED BY <1>2, <1>3, <1>4, <1>5, <1>6

\* The loop ends: a turn reads a token or finishes a rectangle.
LEMMA TurnShrinks == Shrinks(Readers, Stops, TurnIf, WorkLeft)
<1>1. ASSUME NEW s \in Readers
      PROVE  /\ Len(s.q) \in Nat /\ s.fbu.rects \in Nat
             /\ s.fbu.waiting => WorkLeft[s] = 2 * Len(s.q) + 2 * s.fbu.rects + 1
             /\ ~s.fbu.waiting => WorkLeft[s] = 2 * Len(s.q) + 2 * s.fbu.rects
             /\ WorkLeft[s] \in Nat
    <2>1. Len(s.q) \in Nat /\ s.fbu.rects \in Nat
        BY ReaderHas DEF FBUs
    <2> QED BY <2>1 DEF WorkLeft
<1>2. ASSUME NEW s \in Readers, s \notin Stops
      PROVE  Turn(s) \in Readers /\ WorkLeft[Turn(s)] < WorkLeft[s]
    <2>0. PICK t : t = Turn(s)
        OBVIOUS
    <2>1. t \in Readers /\ s.fbu.rects > 0
        BY <1>2, <2>0, TurnIs
    <2> SUFFICES WorkLeft[t] < WorkLeft[s]
        BY <2>0, <2>1
    <2>2. s.fbu \in FBUs
        BY ReaderHas
    <2>3. CASE ~s.fbu.waiting
        <3>1. NextIs(s, "rect") /\ t = RectHeader(s)
            BY <1>2, <2>0, <2>3, TurnIs
        <3>2. t.q = Tail(s.q) /\ t.fbu.rects = s.fbu.rects /\ t.fbu.waiting
            <4>1. /\ t.q = Tail(s.q)
                  /\ t.fbu = [rects |-> s.fbu.rects, enc |-> Head(s.q).v, num |-> Head(s.q).n,
                              left |-> Parts(Head(s.q).v), waiting |-> TRUE]
                BY <3>1, HeaderIs
            <4> QED BY <4>1
        <3>4. s.q # <<>>
            BY <3>1 DEF NextIs
        <3>3. Len(t.q) = Len(s.q) - 1
            BY <3>2, <3>4, ReaderHas
        <3>5. /\ WorkLeft[s] = 2 * Len(s.q) + 2 * s.fbu.rects
              /\ WorkLeft[t] = 2 * Len(t.q) + 2 * t.fbu.rects + 1
              /\ Len(s.q) \in Nat /\ s.fbu.rects \in Nat
            BY <1>1, <2>1, <2>3, <3>2
        <3> QED BY <3>2, <3>3, <3>5
    <2>4. CASE s.fbu.waiting /\ s.fbu.left = 0
        <3>1. t = RectDone(s)
            BY <1>2, <2>0, <2>4, TurnIs
        <3>2. t.q = s.q /\ ~t.fbu.waiting
              /\ t.fbu.rects = IF s.fbu.enc = "last_rect" THEN 0 ELSE s.fbu.rects - 1
            BY <2>1, <2>2, <3>1, DoneIs DEF FBUs
        <3>3. /\ WorkLeft[s] = 2 * Len(s.q) + 2 * s.fbu.rects + 1
              /\ WorkLeft[t] = 2 * Len(t.q) + 2 * t.fbu.rects
              /\ Len(s.q) \in Nat /\ s.fbu.rects \in Nat
            BY <1>1, <2>1, <2>4, <3>2
        <3> QED BY <2>1, <3>2, <3>3
    <2>5. CASE s.fbu.waiting /\ s.fbu.left # 0
        <3>1. NextIs(s, s.fbu.enc) /\ t = RectPart(s)
            BY <1>2, <2>0, <2>5, TurnIs
        <3>2. t.q = Tail(s.q) /\ t.fbu.rects = s.fbu.rects /\ t.fbu.waiting = s.fbu.waiting
              /\ s.q # <<>>
            BY <2>2, <2>5, <3>1, PartIs DEF NextIs, FBUs
        <3>3. Len(t.q) = Len(s.q) - 1
            BY <3>2, ReaderHas
        <3>4. /\ WorkLeft[s] = 2 * Len(s.q) + 2 * s.fbu.rects + 1
              /\ WorkLeft[t] = 2 * Len(t.q) + 2 * t.fbu.rects + 1
              /\ Len(s.q) \in Nat /\ s.fbu.rects \in Nat
            BY <1>1, <2>1, <2>5, <3>2
        <3> QED BY <3>2, <3>3, <3>4
    <2> QED BY <2>2, <2>3, <2>4, <2>5 DEF FBUs
<1>3. TurnIf \in [Readers -> Readers] /\ WorkLeft \in [Readers -> Nat]
    BY <1>1, <1>2 DEF TurnIf, WorkLeft
<1>4. \A s \in Readers : s \notin Stops => WorkLeft[TurnIf[s]] < WorkLeft[s]
    BY <1>2 DEF TurnIf
<1> QED BY <1>3, <1>4 DEF Shrinks

\* FramebufferUpdate is that loop.
LEMMA LoopBody ==
    ASSUME NEW s \in Readers, NEW f
    PROVE  (IF s \in Stops THEN EndIf[s] ELSE f[TurnIf[s]]) =
             CASE s.fbu.rects = 0 -> s
               [] s.fbu.rects > 0 /\ ~s.fbu.waiting ->
                    IF NextIs(s, "rect") THEN f[RectHeader(s)]
                      ELSE IF s.q = <<>> THEN Waits(s) ELSE Confused(s)
               [] s.fbu.rects > 0 /\ s.fbu.waiting ->
                    IF s.fbu.left = 0 THEN f[RectDone(s)]
                      ELSE IF NextIs(s, s.fbu.enc) THEN f[RectPart(s)]
                      ELSE IF s.q = <<>> THEN Waits([s EXCEPT !.fbu.waiting = Waiting(s)])
                      ELSE Confused(s)
<1>1. s.fbu.rects \in Nat /\ s.fbu.waiting \in BOOLEAN
    BY ReaderHas DEF FBUs
<1>2. s \in Stops => EndIf[s] = Ending(s)
    BY DEF EndIf
<1>3. s \notin Stops => TurnIf[s] = Turn(s)
    BY DEF TurnIf
<1>4. CASE s.fbu.rects = 0
    <2>1. s \in Stops
        BY <1>4 DEF Stops
    <2> QED BY <1>2, <1>4, <2>1 DEF Ending
<1>5. CASE s.fbu.rects > 0 /\ ~s.fbu.waiting
    <2>1. CASE NextIs(s, "rect")
        <3>1. s \notin Stops
            BY <1>1, <1>5, <2>1 DEF Stops
        <3> QED BY <1>3, <1>5, <2>1, <3>1 DEF Turn
    <2>2. CASE ~NextIs(s, "rect")
        <3>1. s \in Stops
            BY <1>5, <2>2 DEF Stops
        <3> QED BY <1>1, <1>2, <1>5, <2>2, <3>1 DEF Ending
    <2> QED BY <2>1, <2>2
<1>6. CASE s.fbu.rects > 0 /\ s.fbu.waiting /\ s.fbu.left = 0
    <2>1. s \notin Stops
        BY <1>1, <1>6 DEF Stops
    <2> QED BY <1>3, <1>6, <2>1 DEF Turn
<1>7. CASE s.fbu.rects > 0 /\ s.fbu.waiting /\ s.fbu.left # 0
    <2>1. CASE NextIs(s, s.fbu.enc)
        <3>1. s \notin Stops
            BY <1>1, <1>7, <2>1 DEF Stops
        <3> QED BY <1>3, <1>7, <2>1, <3>1 DEF Turn
    <2>2. CASE ~NextIs(s, s.fbu.enc)
        <3>1. s \in Stops
            BY <1>7, <2>2 DEF Stops
        <3> QED BY <1>1, <1>2, <1>7, <2>2, <3>1 DEF Ending
    <2> QED BY <2>1, <2>2
<1> QED BY <1>1, <1>4, <1>5, <1>6, <1>7

\* What the loop returns where it stops.
LEMMA EndingIs ==
    ASSUME NEW s \in Readers
    PROVE  /\ Ending(s) \in Readers
           /\ Ending(s).q = s.q /\ Ending(s).d = s.d
           /\ Ending(s).fbu.num = s.fbu.num /\ Ending(s).fbu.rects = s.fbu.rects
           /\ Ending(s).fbu.enc = s.fbu.enc /\ Ending(s).fbu.left = s.fbu.left
           /\ s.fbu.rects # 0 /\ s.q # <<>> => Ending(s).confused
           /\ s.fbu.rects = 0 \/ s.q = <<>> => Ending(s).confused = s.confused
           /\ Ending(s).fbu.waiting =
                IF s.fbu.rects # 0 /\ s.q = <<>> /\ s.fbu.waiting THEN Waiting(s)
                                                                 ELSE s.fbu.waiting
<1>1. s.fbu \in FBUs /\ Waiting(s) \in BOOLEAN
    BY ReaderHas DEF Waiting
<1> DEFINE f == [s.fbu EXCEPT !.waiting = Waiting(s)]
<1>2. /\ f \in FBUs /\ f.num = s.fbu.num /\ f.rects = s.fbu.rects
      /\ f.enc = s.fbu.enc /\ f.left = s.fbu.left /\ f.waiting = Waiting(s)
    BY <1>1 DEF FBUs
<1>3. Confused(s) \in Readers /\ Confused(s).q = s.q /\ Confused(s).d = s.d
      /\ Confused(s).fbu = s.fbu /\ Confused(s).confused
    BY DEF Confused, Readers
<1>4. Waits(s) \in Readers /\ Waits(s).q = s.q /\ Waits(s).d = s.d
      /\ Waits(s).fbu = s.fbu /\ Waits(s).confused = s.confused
    BY DEF Waits, Readers
<1> DEFINE w == Waits([s EXCEPT !.fbu.waiting = Waiting(s)])
<1>5. w = [s EXCEPT !.fbu = f, !.more = FALSE]
    BY DEF Waits, Readers
<1> HIDE DEF f
<1>6. w \in Readers /\ w.q = s.q /\ w.d = s.d /\ w.fbu = f /\ w.confused = s.confused
    BY <1>2, <1>5 DEF Readers, FBUs
<1> HIDE DEF w
<1>7. CASE s.fbu.rects = 0
    BY <1>7 DEF Ending
<1>8. CASE s.fbu.rects # 0 /\ s.q # <<>>
    BY <1>3, <1>8 DEF Ending
<1>9. CASE s.fbu.rects # 0 /\ s.q = <<>> /\ ~s.fbu.waiting
    BY <1>4, <1>9 DEF Ending
<1>10. CASE s.fbu.rects # 0 /\ s.q = <<>> /\ s.fbu.waiting
    <2>1. Ending(s) = w
        BY <1>10 DEF Ending, w
    <2> QED BY <1>2, <1>6, <1>10, <2>1
<1> QED BY <1>7, <1>8, <1>9, <1>10

\* FramebufferUpdate as a loop of the general form.
LEMMA UpdateComputes == Computes(FramebufferUpdate, Readers, Stops, TurnIf, EndIf)
<1>1. Returns(Readers, Readers, EndIf)
    BY EndingIs DEF Returns, EndIf
<1>2. PICK f : f = [s \in Readers |-> IF s \in Stops THEN EndIf[s] ELSE f[TurnIf[s]]]
    BY <1>1, TurnShrinks, Loop
<1>3. f = [s \in Readers |->
             CASE s.fbu.rects = 0 -> s
               [] s.fbu.rects > 0 /\ ~s.fbu.waiting ->
                    IF NextIs(s, "rect") THEN f[RectHeader(s)]
                      ELSE IF s.q = <<>> THEN Waits(s) ELSE Confused(s)
               [] s.fbu.rects > 0 /\ s.fbu.waiting ->
                    IF s.fbu.left = 0 THEN f[RectDone(s)]
                      ELSE IF NextIs(s, s.fbu.enc) THEN f[RectPart(s)]
                      ELSE IF s.q = <<>> THEN Waits([s EXCEPT !.fbu.waiting = Waiting(s)])
                      ELSE Confused(s)]
    <2>1. f = [s \in Readers |-> f[s]]
        BY <1>2
    <2>2. ASSUME NEW s \in Readers
          PROVE  f[s] =
             CASE s.fbu.rects = 0 -> s
               [] s.fbu.rects > 0 /\ ~s.fbu.waiting ->
                    IF NextIs(s, "rect") THEN f[RectHeader(s)]
                      ELSE IF s.q = <<>> THEN Waits(s) ELSE Confused(s)
               [] s.fbu.rects > 0 /\ s.fbu.waiting ->
                    IF s.fbu.left = 0 THEN f[RectDone(s)]
                      ELSE IF NextIs(s, s.fbu.enc) THEN f[RectPart(s)]
                      ELSE IF s.q = <<>> THEN Waits([s EXCEPT !.fbu.waiting = Waiting(s)])
                      ELSE Confused(s)
        <3>1. f[s] = IF s \in Stops THEN EndIf[s] ELSE f[TurnIf[s]]
            BY <1>2
        <3> QED BY <3>1, LoopBody
    <2> QED BY <2>1, <2>2
<1>4. FramebufferUpdate = [s \in Readers |->
             CASE s.fbu.rects = 0 -> s
               [] s.fbu.rects > 0 /\ ~s.fbu.waiting ->
                    IF NextIs(s, "rect") THEN FramebufferUpdate[RectHeader(s)]
                      ELSE IF s.q = <<>> THEN Waits(s) ELSE Confused(s)
               [] s.fbu.rects > 0 /\ s.fbu.waiting ->
                    IF s.fbu.left = 0 THEN FramebufferUpdate[RectDone(s)]
                      ELSE IF NextIs(s, s.fbu.enc) THEN FramebufferUpdate[RectPart(s)]
                      ELSE IF s.q = <<>> THEN Waits([s EXCEPT !.fbu.waiting = Waiting(s)])
                      ELSE Confused(s)]
    BY <1>3 DEF FramebufferUpdate
<1>5. ASSUME NEW s \in Readers
      PROVE  FramebufferUpdate[s] =
             CASE s.fbu.rects = 0 -> s
               [] s.fbu.rects > 0 /\ ~s.fbu.waiting ->
                    IF NextIs(s, "rect") THEN FramebufferUpdate[RectHeader(s)]
                      ELSE IF s.q = <<>> THEN Waits(s) ELSE Confused(s)
               [] s.fbu.rects > 0 /\ s.fbu.waiting ->
                    IF s.fbu.left = 0 THEN FramebufferUpdate[RectDone(s)]
                      ELSE IF NextIs(s, s.fbu.enc) THEN FramebufferUpdate[RectPart(s)]
                      ELSE IF s.q = <<>> THEN Waits([s EXCEPT !.fbu.waiting = Waiting(s)])
                      ELSE Confused(s)
    BY <1>4
<1> QED BY <1>5, LoopBody DEF Computes

\* What every turn preserves holds where the loop stops.
LEMMA UpdateKeeps ==
    ASSUME NEW I, I \subseteq Readers,
           \A s \in I : s \notin Stops => Turn(s) \in I,
           NEW s \in I
    PROVE  \E t \in I : t \in Stops /\ FramebufferUpdate[s] = Ending(t)
<1>1. Kept(I, Readers, Stops, TurnIf)
    BY DEF Kept, TurnIf
<1>2. PICK t \in I : t \in Stops /\ FramebufferUpdate[s] = EndIf[t]
    BY <1>1, TurnShrinks, UpdateComputes, LoopEnds
<1> QED BY <1>2 DEF EndIf

(***************************************************************************)
(* What is on its way to the reader: rest follows what is received.        *)
(***************************************************************************)
LEMMA StreamTail ==
    ASSUME NEW X, NEW q \in Seq(X), NEW rest \in Seq(X), q # <<>>
    PROVE  /\ q \o rest \in Seq(X) /\ q \o rest # <<>>
           /\ Head(q \o rest) = Head(q) /\ Tail(q \o rest) = Tail(q) \o rest
<1>1. q \o rest \in Seq(X) /\ Len(q \o rest) = Len(q) + Len(rest)
    BY ConcatProperties
<1>2. Len(q) \in Nat /\ Len(rest) \in Nat /\ Len(q) # 0
    BY LenProperties, EmptySeq
<1>3. Head(q \o rest) = Head(q)
    BY <1>1, <1>2, ConcatProperties, HeadTailProperties
<1>4. q \o rest # <<>>
    BY <1>1, <1>2, EmptySeq
<1>5. /\ Tail(q) \in Seq(X) /\ Len(Tail(q)) = Len(q) - 1
      /\ \A i \in 1 .. Len(Tail(q)) : Tail(q)[i] = q[i + 1]
    BY HeadTailProperties
<1>6. /\ Tail(q \o rest) \in Seq(X) /\ Len(Tail(q \o rest)) = Len(q) + Len(rest) - 1
      /\ \A i \in 1 .. Len(Tail(q \o rest)) : Tail(q \o rest)[i] = (q \o rest)[i + 1]
    BY <1>1, <1>4, HeadTailProperties
<1>7. /\ Tail(q) \o rest \in Seq(X) /\ Len(Tail(q) \o rest) = Len(q) + Len(rest) - 1
      /\ \A i \in 1 .. Len(Tail(q)) + Len(rest) : (Tail(q) \o rest)[i] =
            IF i <= Len(Tail(q)) THEN Tail(q)[i] ELSE rest[i - Len(Tail(q))]
    BY <1>2, <1>5, ConcatProperties
<1>8. \A i \in 1 .. Len(q) + Len(rest) : (q \o rest)[i] =
            IF i <= Len(q) THEN q[i] ELSE rest[i - Len(q)]
    BY ConcatProperties
<1>9. \A i \in 1 .. Len(q) + Len(rest) - 1 : Tail(q \o rest)[i] = (Tail(q) \o rest)[i]
    <2> SUFFICES ASSUME NEW i \in 1 .. Len(q) + Len(rest) - 1
                 PROVE  Tail(q \o rest)[i] = (Tail(q) \o rest)[i]
        OBVIOUS
    <2>1. i + 1 \in 1 .. Len(q) + Len(rest) /\ i \in 1 .. Len(Tail(q)) + Len(rest)
        BY <1>2, <1>5
    <2>2. Tail(q \o rest)[i] = (q \o rest)[i + 1]
        BY <1>6
    <2>3. CASE i + 1 <= Len(q)
        <3>1. i \in 1 .. Len(Tail(q)) /\ i <= Len(Tail(q))
            BY <1>2, <1>5, <2>3
        <3> QED BY <1>5, <1>7, <1>8, <2>1, <2>2, <2>3, <3>1
    <2>4. CASE ~(i + 1 <= Len(q))
        <3>1. ~(i <= Len(Tail(q))) /\ i - Len(Tail(q)) = i + 1 - Len(q)
            BY <1>2, <1>5, <2>4
        <3> QED BY <1>7, <1>8, <2>1, <2>2, <2>4, <3>1
    <2> QED BY <2>3, <2>4
<1>10. Tail(q \o rest) = Tail(q) \o rest
    BY <1>6, <1>7, <1>9, SeqEqual
<1> QED BY <1>1, <1>3, <1>4, <1>10

\* The rectangles of a stream are numbered in order, from num to last.
InOrder(stream, num, last) ==
    /\ \A i \in 1 .. Len(stream) :
          stream[i].v # "" => num <= stream[i].n /\ stream[i].n <= last
    /\ \A i, j \in 1 .. Len(stream) :
          i <= j /\ stream[i].v # "" /\ stream[j].v # "" => stream[i].n <= stream[j].n

\* Pixels that are drawn at once come after no image that waits or may have to.
Clean(stream, queue) ==
    \A j \in 1 .. Len(stream) :
       stream[j].v \in Direct => /\ queue = <<>>
                                 /\ \A i \in 1 .. j - 1 : stream[i].v # "IMAGE"

\* What is in order stays so when its first token is read.
LEMMA TailInOrder ==
    ASSUME NEW s \in Seq(Tokens), s # <<>>, NEW num \in Nat, NEW last \in Nat,
           InOrder(s, num, last)
    PROVE  /\ InOrder(Tail(s), num, last)
           /\ Head(s).v # "" => /\ num <= Head(s).n /\ Head(s).n <= last
                                /\ InOrder(Tail(s), Head(s).n, last)
<1>1. /\ Tail(s) \in Seq(Tokens) /\ Len(Tail(s)) = Len(s) - 1 /\ Len(s) \in Nat
      /\ \A i \in 1 .. Len(Tail(s)) : Tail(s)[i] = s[i + 1]
      /\ Head(s) = s[1] /\ 1 \in 1 .. Len(s)
    <2>1. Len(s) # 0 /\ Len(s) \in Nat
        BY EmptySeq, LenProperties
    <2> QED BY <2>1, HeadTailProperties
<1>2. /\ \A i \in 1 .. Len(Tail(s)) : i + 1 \in 1 .. Len(s) /\ 1 <= i + 1
      /\ \A i, j \in 1 .. Len(Tail(s)) : i <= j => i + 1 <= j + 1
    <2> DEFINE n == Len(Tail(s))
    <2>1. n \in Nat /\ Len(s) = n + 1
        BY <1>1, LenProperties
    <2> HIDE DEF n
    <2>2. /\ \A i \in 1 .. n : i + 1 \in 1 .. n + 1 /\ 1 <= i + 1
          /\ \A i, j \in 1 .. n : i <= j => i + 1 <= j + 1
        BY <2>1
    <2> QED BY <2>1, <2>2 DEF n
<1>3. \A i \in 1 .. Len(s) :
          s[i].v # "" => num <= s[i].n /\ s[i].n <= last
    BY DEF InOrder
<1>4. \A i, j \in 1 .. Len(s) :
          i <= j /\ s[i].v # "" /\ s[j].v # "" => s[i].n <= s[j].n
    BY DEF InOrder
<1>5. \A i \in 1 .. Len(Tail(s)) :
          Tail(s)[i].v # "" => num <= Tail(s)[i].n /\ Tail(s)[i].n <= last
    BY <1>1, <1>2, <1>3
<1>6. \A i, j \in 1 .. Len(Tail(s)) :
          i <= j /\ Tail(s)[i].v # "" /\ Tail(s)[j].v # "" => Tail(s)[i].n <= Tail(s)[j].n
    <2> SUFFICES ASSUME NEW i \in 1 .. Len(Tail(s)), NEW j \in 1 .. Len(Tail(s)), i <= j,
                        Tail(s)[i].v # "", Tail(s)[j].v # ""
                 PROVE  Tail(s)[i].n <= Tail(s)[j].n
        OBVIOUS
    <2>1. i + 1 <= j + 1 /\ i + 1 \in 1 .. Len(s) /\ j + 1 \in 1 .. Len(s)
        BY <1>2
    <2> QED BY <1>1, <1>4, <2>1
<1>7. ASSUME Head(s).v # ""
      PROVE  \A i \in 1 .. Len(Tail(s)) : Tail(s)[i].v # "" => Head(s).n <= Tail(s)[i].n
    <2> SUFFICES ASSUME NEW i \in 1 .. Len(Tail(s)), Tail(s)[i].v # ""
                 PROVE  Head(s).n <= Tail(s)[i].n
        OBVIOUS
    <2>1. 1 <= i + 1 /\ i + 1 \in 1 .. Len(s)
        BY <1>2
    <2> QED BY <1>1, <1>4, <1>7, <2>1
<1>8. Head(s).v # "" => num <= Head(s).n /\ Head(s).n <= last
    BY <1>1, <1>3
<1> QED BY <1>5, <1>6, <1>7, <1>8 DEF InOrder

\* So does a clean stream.
LEMMA TailClean ==
    ASSUME NEW s \in Seq(Tokens), s # <<>>, NEW queue, Clean(s, queue)
    PROVE  /\ Clean(Tail(s), queue)
           /\ Head(s).v \in Direct => queue = <<>>
           /\ Head(s).v = "IMAGE" => \A other : Clean(Tail(s), other)
<1>1. /\ Len(Tail(s)) = Len(s) - 1 /\ Len(s) \in Nat
      /\ \A i \in 1 .. Len(Tail(s)) : Tail(s)[i] = s[i + 1]
      /\ Head(s) = s[1] /\ 1 \in 1 .. Len(s)
    <2>1. Len(s) # 0 /\ Len(s) \in Nat
        BY EmptySeq, LenProperties
    <2> QED BY <2>1, HeadTailProperties
<1>2. ASSUME NEW j \in 1 .. Len(Tail(s)), Tail(s)[j].v \in Direct
      PROVE  /\ queue = <<>> /\ Head(s).v # "IMAGE"
             /\ \A i \in 1 .. j - 1 : Tail(s)[i].v # "IMAGE"
    <2>1. j + 1 \in 1 .. Len(s) /\ s[j + 1].v \in Direct
        BY <1>1, <1>2
    <2>2. queue = <<>> /\ \A i \in 1 .. (j + 1) - 1 : s[i].v # "IMAGE"
        BY <2>1 DEF Clean
    <2>3. 1 \in 1 .. (j + 1) - 1
        OBVIOUS
    <2>4. \A i \in 1 .. j - 1 : i + 1 \in 1 .. (j + 1) - 1 /\ i \in 1 .. Len(Tail(s))
        BY <1>1
    <2> QED BY <1>1, <2>2, <2>3, <2>4
<1>3. Head(s).v \in Direct => queue = <<>>
    BY <1>1 DEF Clean
<1> QED BY <1>2, <1>3 DEF Clean

\* The reader is in front of rest, and nothing was painted too late.
PaintSafe(rest, last) ==
    {s \in Readers :
        /\ s.fbu.num <= last /\ s.d \in Ordered(s.fbu.num)
        /\ InOrder(s.q \o rest, s.fbu.num, last)
        /\ Clean(s.q \o rest, s.d.queue)}

\* A display in order up to num is so up to any later number.
LEMMA OrderedLater ==
    ASSUME NEW num \in Nat, NEW later \in Nat, num <= later, NEW d \in Ordered(num)
    PROVE  d \in Ordered(later)
<1>1. /\ d \in Displays /\ ~d.disorder /\ d.canvas <= num /\ d.canvas \in Nat
      /\ d.queue \in Seq(Nat)
      /\ \A i \in 1 .. Len(d.queue) : d.canvas <= d.queue[i] /\ d.queue[i] <= num
      /\ \A i, j \in 1 .. Len(d.queue) : i <= j => d.queue[i] <= d.queue[j]
      /\ \A n \in d.loading : \E i \in 1 .. Len(d.queue) : d.queue[i] = n
    BY DEF Ordered, Displays
<1>2. \A i \in 1 .. Len(d.queue) : d.queue[i] \in Nat
    BY <1>1, ElementOfSeq
<1>3. \A i \in 1 .. Len(d.queue) : d.queue[i] <= later
    BY <1>1, <1>2
<1> QED BY <1>1, <1>3 DEF Ordered

\* A header that is read leaves the reader safe.
LEMMA HeaderSafe ==
    ASSUME NEW rest \in Seq(Tokens), NEW last \in Nat, NEW s \in PaintSafe(rest, last),
           NextIs(s, "rect")
    PROVE  RectHeader(s) \in PaintSafe(rest, last)
<1> DEFINE h == Head(s.q)
<1>1. s \in Readers /\ s.q # <<>> /\ h.k = "rect" /\ s.q \in Seq(Tokens) /\ s.fbu.num \in Nat
    BY ReaderHas DEF PaintSafe, NextIs, FBUs
<1>2. PICK t : t = RectHeader(s)
    OBVIOUS
<1>3. /\ t \in Readers /\ h.v \in Encodings /\ h.n \in Nat /\ t.q = Tail(s.q)
      /\ t.fbu = [rects |-> s.fbu.rects, enc |-> h.v, num |-> h.n, left |-> Parts(h.v),
                  waiting |-> TRUE]
      /\ t.d = s.d
    BY <1>1, <1>2, HeaderIs
<1>4. h.v # "" /\ t.fbu.num = h.n
    <2>1. h.v # ""
        BY <1>3 DEF Encodings, Direct, Queued, Quiet
    <2>2. t.fbu.num = h.n
        BY <1>3
    <2> QED BY <2>1, <2>2
<1>5. /\ s.q \o rest \in Seq(Tokens) /\ s.q \o rest # <<>>
      /\ Head(s.q \o rest) = h /\ Tail(s.q \o rest) = t.q \o rest
    BY <1>1, <1>3, StreamTail
<1> HIDE DEF h
<1>6. /\ s.fbu.num <= h.n /\ h.n <= last /\ InOrder(t.q \o rest, h.n, last)
    <2>1. InOrder(s.q \o rest, s.fbu.num, last)
        BY DEF PaintSafe
    <2> QED BY <1>1, <1>4, <1>5, <2>1, TailInOrder
<1>7. Clean(t.q \o rest, t.d.queue)
    <2>1. Clean(s.q \o rest, s.d.queue)
        BY DEF PaintSafe
    <2> QED BY <1>3, <1>5, <2>1, TailClean
<1>8. t.d \in Ordered(h.n)
    <2>1. s.d \in Ordered(s.fbu.num)
        BY DEF PaintSafe
    <2> QED BY <1>1, <1>3, <1>6, <2>1, OrderedLater
<1> QED BY <1>2, <1>3, <1>4, <1>6, <1>7, <1>8 DEF PaintSafe

\* So does a part that is drawn,
LEMMA RenderSafe ==
    ASSUME NEW enc \in Encodings, NEW num \in Nat, NEW d \in Ordered(num),
           NEW s \in Seq(Tokens), s # <<>>, Clean(s, d.queue), Head(s).v = enc
    PROVE  /\ Render(d, enc, num) \in Ordered(num)
           /\ Clean(Tail(s), Render(d, enc, num).queue)
<1>1. /\ Clean(Tail(s), d.queue)
      /\ enc \in Direct => d.queue = <<>>
      /\ enc = "IMAGE" => \A other : Clean(Tail(s), other)
    BY TailClean
<1>2. d \in Displays
    BY DEF Ordered
<1>3. CASE enc \in Direct
    <2>1. enc \notin Queued /\ enc \notin Quiet
        BY <1>3 DEF Direct, Queued, Quiet
    <2>2. Render(d, enc, num) = Paint(d, num)
        BY <1>3, <2>1 DEF Render
    <2>3. Paint(d, num).queue = d.queue
        BY <1>2, PaintIs
    <2>4. d.queue = <<>> /\ Paint(d, num) \in Ordered(num)
        BY <1>1, <1>3, OrderedPaint
    <2> QED BY <1>1, <2>2, <2>3, <2>4
<1>4. CASE enc \in Queued
    <2>1. enc \notin Direct /\ enc \notin Quiet
        BY <1>4 DEF Direct, Queued, Quiet
    <2>3. CASE enc = "IMAGE"
        <3>1. Render(d, enc, num) = Push(d, num, TRUE)
            BY <1>4, <2>1, <2>3 DEF Render
        <3> QED BY <1>1, <2>3, <3>1, OrderedPush
    <2>4. CASE enc # "IMAGE"
        <3>1. Render(d, enc, num) = Push(d, num, FALSE)
            BY <1>4, <2>1, <2>4 DEF Render
        <3>2. /\ Push(d, num, FALSE) \in Ordered(num)
              /\ d.queue = <<>> => Push(d, num, FALSE).queue = <<>>
            BY OrderedPush
        <3>3. Clean(Tail(s), Push(d, num, FALSE).queue)
            <4>1. CASE d.queue = <<>>
                BY <1>1, <3>2, <4>1
            <4>2. CASE d.queue # <<>>
                BY <1>1, <4>2 DEF Clean
            <4> QED BY <4>1, <4>2
        <3> QED BY <3>1, <3>2, <3>3
    <2> QED BY <2>3, <2>4
<1>5. CASE enc \in Quiet
    <2>1. enc \notin Direct /\ enc \notin Queued
        BY <1>5 DEF Direct, Queued, Quiet
    <2> QED BY <1>1, <1>5, <2>1 DEF Render
<1> QED BY <1>3, <1>4, <1>5 DEF Encodings

\* and read,
LEMMA PartSafe ==
    ASSUME NEW rest \in Seq(Tokens), NEW last \in Nat, NEW s \in PaintSafe(rest, last),
           NextIs(s, s.fbu.enc), s.fbu.left # 0
    PROVE  RectPart(s) \in PaintSafe(rest, last)
<1>1. /\ s \in Readers /\ s.q # <<>> /\ Head(s.q).k = s.fbu.enc /\ s.q \in Seq(Tokens)
      /\ s.fbu \in FBUs
    BY ReaderHas DEF PaintSafe, NextIs
<1>2. /\ s.fbu.num <= last /\ s.d \in Ordered(s.fbu.num)
      /\ InOrder(s.q \o rest, s.fbu.num, last)
      /\ Clean(s.q \o rest, s.d.queue)
    BY DEF PaintSafe
<1>3. s.fbu.enc \in Encodings /\ s.fbu.num \in Nat
    BY <1>1 DEF FBUs
<1>4. Head(s.q).v = s.fbu.enc
    <2>1. Head(s.q) \in Tokens
        BY <1>1, HeadTailProperties
    <2>2. Head(s.q).k # "rect"
        BY <1>1, <1>3 DEF Encodings, Direct, Queued, Quiet
    <2> QED BY <1>1, <1>3, <2>1, <2>2 DEF Tokens
<1>5. /\ s.q \o rest \in Seq(Tokens) /\ s.q \o rest # <<>>
      /\ Head(s.q \o rest) = Head(s.q) /\ Tail(s.q \o rest) = Tail(s.q) \o rest
    BY <1>1, StreamTail
<1>6. PICK t : t = RectPart(s)
    OBVIOUS
<1>7. /\ t \in Readers /\ t.q = Tail(s.q) /\ t.fbu = [s.fbu EXCEPT !.left = s.fbu.left - 1]
      /\ t.d = Render(s.d, s.fbu.enc, s.fbu.num)
    BY <1>1, <1>6, PartIs
<1>8. t.fbu.num = s.fbu.num
    BY <1>1, <1>7 DEF FBUs
<1>9. /\ t.d \in Ordered(s.fbu.num) /\ Clean(t.q \o rest, t.d.queue)
    <2>1. PICK stream : stream = s.q \o rest
        OBVIOUS
    <2>2. /\ stream \in Seq(Tokens) /\ stream # <<>> /\ Head(stream).v = s.fbu.enc
          /\ Clean(stream, s.d.queue)
        BY <1>2, <1>4, <1>5, <2>1
    <2>3. /\ t.d \in Ordered(s.fbu.num) /\ Clean(Tail(stream), t.d.queue)
        BY <1>2, <1>3, <1>7, <2>2, RenderSafe
    <2> QED BY <1>5, <1>7, <2>1, <2>3
<1>10. InOrder(t.q \o rest, s.fbu.num, last)
    BY <1>2, <1>3, <1>5, <1>7, TailInOrder
<1> QED BY <1>2, <1>6, <1>7, <1>8, <1>9, <1>10 DEF PaintSafe

\* and the whole loop.
LEMMA UpdateSafe ==
    ASSUME NEW rest \in Seq(Tokens), NEW last \in Nat, NEW s \in PaintSafe(rest, last)
    PROVE  FramebufferUpdate[s] \in PaintSafe(rest, last)
<1>1. ASSUME NEW t \in PaintSafe(rest, last), t \notin Stops
      PROVE  Turn(t) \in PaintSafe(rest, last)
    <2>1. t \in Readers
        BY DEF PaintSafe
    <2>2. CASE ~t.fbu.waiting
        BY <1>1, <2>1, <2>2, TurnIs, HeaderSafe
    <2>3. CASE t.fbu.waiting /\ t.fbu.left = 0
        <3>1. Turn(t) = RectDone(t) /\ t.fbu.rects > 0 /\ t.fbu \in FBUs
            BY <1>1, <2>1, <2>3, TurnIs, ReaderHas
        <3>2. PICK u : u = RectDone(t)
            OBVIOUS
        <3>3. u \in Readers /\ u.q = t.q /\ u.d = t.d /\ u.fbu.num = t.fbu.num
            BY <2>1, <3>1, <3>2, DoneIs DEF FBUs
        <3> QED BY <3>1, <3>2, <3>3 DEF PaintSafe
    <2>4. CASE t.fbu.waiting /\ t.fbu.left # 0
        BY <1>1, <2>1, <2>4, TurnIs, PartSafe
    <2> QED BY <2>2, <2>3, <2>4
<1>2. PaintSafe(rest, last) \subseteq Readers
    BY DEF PaintSafe
<1>3. PICK t \in PaintSafe(rest, last) : FramebufferUpdate[s] = Ending(t)
    BY <1>1, <1>2, UpdateKeeps
<1>4. PICK u : u = Ending(t)
    OBVIOUS
<1>5. u \in Readers /\ u.q = t.q /\ u.d = t.d /\ u.fbu.num = t.fbu.num
    BY <1>2, <1>4, EndingIs
<1> QED BY <1>3, <1>4, <1>5 DEF PaintSafe

\* Two tokens are read.
LEMMA TwoRead ==
    ASSUME NEW X, NEW q \in Seq(X), Len(q) >= 2
    PROVE  /\ q # <<>> /\ Tail(q) \in Seq(X) /\ Tail(q) # <<>>
           /\ SubSeq(q, 3, Len(q)) = Tail(Tail(q)) /\ Tail(Tail(q)) \in Seq(X)
           /\ Head(q) = q[1] /\ Head(Tail(q)) = q[2]
           /\ Len(Tail(Tail(q))) = Len(q) - 2 /\ Len(q) \in Nat
<1>1. Len(q) \in Nat /\ q # <<>>
    BY LenProperties, EmptySeq
<1>2. /\ Tail(q) \in Seq(X) /\ Len(Tail(q)) = Len(q) - 1
      /\ \A i \in 1 .. Len(Tail(q)) : Tail(q)[i] = q[i + 1]
      /\ Head(q) = q[1]
    BY <1>1, HeadTailProperties
<1>3. Tail(q) # <<>>
    <2>1. Len(Tail(q)) # 0
        BY <1>1, <1>2
    <2> QED BY <1>2, <2>1, EmptySeq
<1>4. /\ Tail(Tail(q)) \in Seq(X) /\ Len(Tail(Tail(q))) = Len(q) - 2
      /\ \A i \in 1 .. Len(Tail(Tail(q))) : Tail(Tail(q))[i] = Tail(q)[i + 1]
      /\ Head(Tail(q)) = Tail(q)[1]
    BY <1>1, <1>2, <1>3, HeadTailProperties
<1>5. \A i \in 3 .. Len(q) : q[i] \in X
    BY <1>1, ElementOfSeq
<1>6. /\ SubSeq(q, 3, Len(q)) \in Seq(X)
      /\ Len(SubSeq(q, 3, Len(q))) = IF 3 <= Len(q) THEN Len(q) - 3 + 1 ELSE 0
      /\ \A i \in 1 .. Len(q) - 3 + 1 : SubSeq(q, 3, Len(q))[i] = q[3 + i - 1]
    BY <1>1, <1>5, SubSeqProperties
<1>7. Len(SubSeq(q, 3, Len(q))) = Len(q) - 2
    <2>1. CASE 3 <= Len(q)
        BY <1>1, <1>6, <2>1
    <2>2. CASE Len(q) = 2
        BY <1>6, <2>2
    <2> QED BY <1>1, <2>1, <2>2
<1>8. \A i \in 1 .. Len(q) - 2 : /\ i \in 1 .. Len(q) - 3 + 1 /\ 3 + i - 1 = i + 1 + 1
                                 /\ i + 1 \in 1 .. Len(q) - 1
    BY <1>1
<1>9. \A i \in 1 .. Len(q) - 2 : SubSeq(q, 3, Len(q))[i] = Tail(Tail(q))[i]
    BY <1>2, <1>4, <1>6, <1>8
<1>10. SubSeq(q, 3, Len(q)) = Tail(Tail(q))
    BY <1>4, <1>6, <1>7, <1>9, SeqEqual
<1>11. 1 \in 1 .. Len(Tail(q)) /\ 1 + 1 = 2
    BY <1>1, <1>2
<1>12. Tail(q)[1] = q[2]
    BY <1>2, <1>11
<1> QED BY <1>1, <1>2, <1>3, <1>4, <1>10, <1>12

\* Three tokens are read.
LEMMA ThreeRead ==
    ASSUME NEW X, NEW q \in Seq(X), Len(q) >= 3
    PROVE  /\ Tail(Tail(q)) # <<>>
           /\ SubSeq(q, 4, Len(q)) = Tail(Tail(Tail(q)))
           /\ Tail(Tail(Tail(q))) \in Seq(X)
<1>1. Len(q) \in Nat
    BY LenProperties
<1>2. /\ q # <<>> /\ Tail(q) \in Seq(X) /\ Tail(q) # <<>>
      /\ Tail(Tail(q)) \in Seq(X) /\ Len(Tail(Tail(q))) = Len(q) - 2
    BY <1>1, TwoRead
<1>3. Tail(Tail(q)) # <<>>
    <2>1. Len(Tail(Tail(q))) # 0
        <3>1. \A n, m \in Nat : n >= 3 /\ m = n - 2 => m # 0
            OBVIOUS
        <3>2. Len(Tail(Tail(q))) \in Nat
            BY <1>2, LenProperties
        <3> QED BY <1>1, <1>2, <3>1, <3>2
    <2> QED BY <1>2, <2>1, EmptySeq
<1>4. /\ \A i \in 1 .. Len(Tail(q)) : Tail(q)[i] = q[i + 1]
      /\ Len(Tail(q)) = Len(q) - 1
    BY <1>2, HeadTailProperties
<1>5. \A i \in 1 .. Len(Tail(Tail(q))) : Tail(Tail(q))[i] = Tail(q)[i + 1]
    BY <1>2, HeadTailProperties
<1>6. /\ Tail(Tail(Tail(q))) \in Seq(X) /\ Len(Tail(Tail(Tail(q)))) = Len(q) - 3
      /\ \A i \in 1 .. Len(Tail(Tail(Tail(q)))) : Tail(Tail(Tail(q)))[i] = Tail(Tail(q))[i + 1]
    BY <1>1, <1>2, <1>3, HeadTailProperties
<1>7. \A i \in 4 .. Len(q) : q[i] \in X
    BY <1>1, ElementOfSeq
<1>8. /\ SubSeq(q, 4, Len(q)) \in Seq(X)
      /\ Len(SubSeq(q, 4, Len(q))) = IF 4 <= Len(q) THEN Len(q) - 4 + 1 ELSE 0
      /\ \A i \in 1 .. Len(q) - 4 + 1 : SubSeq(q, 4, Len(q))[i] = q[4 + i - 1]
    BY <1>1, <1>7, SubSeqProperties
<1>9. Len(SubSeq(q, 4, Len(q))) = Len(q) - 3
    <2>1. \A n \in Nat : n >= 3 => (IF 4 <= n THEN n - 4 + 1 ELSE 0) = n - 3
        OBVIOUS
    <2> QED BY <1>1, <1>8, <2>1
<1>10. \A i \in 1 .. Len(q) - 3 : /\ i \in 1 .. Len(q) - 4 + 1 /\ 4 + i - 1 = i + 1 + 1 + 1
                                  /\ i + 1 \in 1 .. Len(q) - 2
                                  /\ i + 1 + 1 \in 1 .. Len(q) - 1
    BY <1>1
<1>11. \A i \in 1 .. Len(q) - 3 : SubSeq(q, 4, Len(q))[i] = Tail(Tail(Tail(q)))[i]
    BY <1>2, <1>4, <1>5, <1>6, <1>8, <1>10
<1>12. SubSeq(q, 4, Len(q)) = Tail(Tail(Tail(q)))
    BY <1>6, <1>8, <1>9, <1>11, SeqEqual
<1> QED BY <1>3, <1>6, <1>12

\* The update that a message begins.
Begun(s) == [s EXCEPT !.q = Tail(Tail(@)), !.fbu.rects = Head(Tail(s.q)).n,
                      !.fbu.waiting = FALSE]

Skips(s, q) == [s EXCEPT !.q = q]

\* An update begins.
LEMMA BegunIs ==
    ASSUME NEW s \in Readers, Len(s.q) >= 2
    PROVE  /\ Begun(s) \in Readers
           /\ Begun(s).q = Tail(Tail(s.q)) /\ Begun(s).d = s.d
           /\ Begun(s).fbu = [s.fbu EXCEPT !.rects = Head(Tail(s.q)).n, !.waiting = FALSE]
           /\ Begun(s).fbu.num = s.fbu.num
           /\ Begun(s).fbu.rects = Head(Tail(s.q)).n /\ ~Begun(s).fbu.waiting
           /\ Begun(s).confused = s.confused
<1> DEFINE q == Tail(Tail(s.q))
<1> DEFINE r == Head(Tail(s.q)).n
<1> DEFINE f == [s.fbu EXCEPT !.rects = r, !.waiting = FALSE]
<1>1. s.q \in Seq(Tokens) /\ s.fbu \in FBUs
    BY ReaderHas
<1>2. q \in Seq(Tokens) /\ Head(Tail(s.q)) \in Tokens
    BY <1>1, TwoRead, HeadTailProperties
<1>3. r \in Nat
    BY <1>2 DEF Tokens
<1>4. Begun(s) = [s EXCEPT !.q = q, !.fbu = f]
    BY <1>1 DEF Begun, Readers, FBUs
<1> HIDE DEF q, r
<1>5. f \in FBUs /\ f.num = s.fbu.num /\ f.rects = r /\ ~f.waiting
    BY <1>1, <1>3 DEF FBUs
<1> HIDE DEF f
<1>6. Begun(s) \in Readers /\ Begun(s).q = q /\ Begun(s).fbu = f /\ Begun(s).d = s.d
      /\ Begun(s).confused = s.confused
    BY <1>2, <1>4, <1>5 DEF Readers, FBUs
<1> QED BY <1>5, <1>6 DEF q, f, r

\* Tokens are skipped.
LEMMA SkipsIs ==
    ASSUME NEW s \in Readers, NEW q \in Seq(Tokens)
    PROVE  /\ Skips(s, q) \in Readers
           /\ Skips(s, q).q = q /\ Skips(s, q).d = s.d /\ Skips(s, q).fbu = s.fbu
           /\ Skips(s, q).confused = s.confused
BY DEF Skips, Readers

\* The reader gives up.
LEMMA WaitsIs ==
    ASSUME NEW s \in Readers
    PROVE  /\ Waits(s) \in Readers /\ Confused(s) \in Readers
           /\ Waits(s).q = s.q /\ Waits(s).d = s.d /\ Waits(s).fbu = s.fbu
           /\ Waits(s).confused = s.confused
           /\ Confused(s).q = s.q /\ Confused(s).d = s.d /\ Confused(s).fbu = s.fbu
BY DEF Waits, Confused, Readers

\* What normal_msg does with the first message of the queue.
LEMMA MessageIs ==
    ASSUME NEW s \in Readers, s.q # <<>>, s.fbu.rects = 0
    PROVE  \/ /\ Head(s.q).k = "FBU" /\ Len(s.q) >= 2
              /\ NormalMsg(s) = FramebufferUpdate[Begun(s)]
           \/ Head(s.q).k = "BELL" /\ NormalMsg(s) = Skips(s, Tail(s.q))
           \/ /\ Head(s.q).k \in {"CUT", "COLOURS"} /\ Len(s.q) >= 3
              /\ NormalMsg(s) = Skips(s, Tail(Tail(Tail(s.q))))
           \/ Head(s.q).k \in {"FBU", "CUT", "COLOURS"} /\ NormalMsg(s) = Waits(s)
           \/ Head(s.q).k = "COLOURS" /\ Len(s.q) = 1 /\ NormalMsg(s) = Confused(s)
           \/ Head(s.q).k \notin {"FBU", "BELL", "CUT", "COLOURS"} /\ NormalMsg(s) = Confused(s)
<1> DEFINE k == Head(s.q).k
<1>1. s.q \in Seq(Tokens) /\ Len(s.q) \in Nat /\ Len(s.q) # 0
    BY ReaderHas, EmptySeq
<1> HIDE DEF k
<1>2. CASE k = "FBU"
    <2>1. NormalMsg(s) = IF Len(s.q) < 2 THEN Waits(s)
             ELSE FramebufferUpdate[[s EXCEPT !.q = SubSeq(@, 3, Len(@)),
                                              !.fbu.rects = s.q[2].n,
                                              !.fbu.waiting = FALSE]]
        BY <1>2 DEF NormalMsg, k
    <2>2. CASE Len(s.q) < 2
        BY <1>2, <2>1, <2>2 DEF k
    <2>3. CASE Len(s.q) >= 2
        <3>1. SubSeq(s.q, 3, Len(s.q)) = Tail(Tail(s.q)) /\ s.q[2] = Head(Tail(s.q))
            BY <1>1, <2>3, TwoRead
        <3>2. [s EXCEPT !.q = SubSeq(@, 3, Len(@)), !.fbu.rects = s.q[2].n,
                        !.fbu.waiting = FALSE] = Begun(s)
            BY <3>1 DEF Begun
        <3>3. NormalMsg(s) = FramebufferUpdate[Begun(s)]
            BY <1>1, <2>1, <2>3, <3>2
        <3>4. Head(s.q).k = "FBU"
            BY <1>2 DEF k
        <3> QED BY <2>3, <3>3, <3>4
    <2> QED BY <1>1, <2>2, <2>3
<1>3. CASE k = "BELL"
    <2>1. NormalMsg(s) = [s EXCEPT !.q = Tail(@)]
        BY <1>3 DEF NormalMsg, ReadNotice, k
    <2> QED BY <1>3, <2>1 DEF Skips, k
<1>4. ASSUME Len(s.q) >= 3
      PROVE  [s EXCEPT !.q = SubSeq(@, 4, Len(@))] = Skips(s, Tail(Tail(Tail(s.q))))
    BY <1>1, <1>4, ThreeRead DEF Skips
<1>5. CASE k = "CUT"
    <2>1. NormalMsg(s) = IF Len(s.q) < 3 THEN Waits([s EXCEPT !.q = GoBack(@)])
                           ELSE [s EXCEPT !.q = SubSeq(@, 4, Len(@))]
        BY <1>5 DEF NormalMsg, ReadNotice, k
    <2>2. [s EXCEPT !.q = GoBack(@)] = s
        BY DEF GoBack, Readers
    <2>3. CASE Len(s.q) < 3
        BY <1>5, <2>1, <2>2, <2>3 DEF k
    <2>4. CASE Len(s.q) >= 3
        BY <1>1, <1>4, <1>5, <2>1, <2>4 DEF k
    <2> QED BY <1>1, <2>3, <2>4
<1>6. CASE k = "COLOURS"
    <2>1. NormalMsg(s) = CASE Len(s.q) = 1 -> Confused(s)
                           [] Len(s.q) = 2 -> Waits(s)
                           [] OTHER -> [s EXCEPT !.q = SubSeq(@, 4, Len(@))]
        BY <1>6 DEF NormalMsg, ReadNotice, k
    <2>2. CASE Len(s.q) = 1
        BY <1>6, <2>1, <2>2 DEF k
    <2>3. CASE Len(s.q) = 2
        BY <1>6, <2>1, <2>3 DEF k
    <2>4. CASE Len(s.q) >= 3
        BY <1>1, <1>4, <1>6, <2>1, <2>4 DEF k
    <2>5. Len(s.q) = 1 \/ Len(s.q) = 2 \/ Len(s.q) >= 3
        <3>1. \A n \in Nat : n # 0 => n = 1 \/ n = 2 \/ n >= 3
            OBVIOUS
        <3> QED BY <1>1, <3>1
    <2> QED BY <2>2, <2>3, <2>4, <2>5
<1>7. CASE k \notin {"FBU", "BELL", "CUT", "COLOURS"}
    <2>1. NormalMsg(s) = Confused(s)
        BY <1>7 DEF NormalMsg, k
    <2> QED BY <1>7, <2>1 DEF k
<1> QED BY <1>2, <1>3, <1>5, <1>6, <1>7

\* Skipped tokens of no rectangle leave the reader safe.
LEMMA SkipSafe ==
    ASSUME NEW rest \in Seq(Tokens), NEW last \in Nat, NEW num \in Nat, NEW queue,
           NEW q \in Seq(Tokens), q # <<>>,
           InOrder(q \o rest, num, last), Clean(q \o rest, queue)
    PROVE  InOrder(Tail(q) \o rest, num, last) /\ Clean(Tail(q) \o rest, queue)
<1>1. q \o rest \in Seq(Tokens) /\ q \o rest # <<>> /\ Tail(q \o rest) = Tail(q) \o rest
    BY StreamTail
<1>2. InOrder(Tail(q \o rest), num, last)
    BY <1>1, TailInOrder
<1>3. Clean(Tail(q \o rest), queue)
    BY <1>1, TailClean
<1> QED BY <1>1, <1>2, <1>3

\* normal_msg paints nothing too late.
LEMMA NormalSafe ==
    ASSUME NEW rest \in Seq(Tokens), NEW last \in Nat, NEW s \in PaintSafe(rest, last),
           s.q # <<>>
    PROVE  NormalMsg(s) \in PaintSafe(rest, last)
<1>1. /\ s \in Readers /\ s.q \in Seq(Tokens) /\ s.fbu.num \in Nat /\ s.fbu.rects \in Nat
      /\ s.fbu.num <= last /\ s.d \in Ordered(s.fbu.num)
      /\ InOrder(s.q \o rest, s.fbu.num, last) /\ Clean(s.q \o rest, s.d.queue)
      /\ Len(s.q) \in Nat
    BY ReaderHas DEF PaintSafe, FBUs
<1> DEFINE Safe(q) == /\ InOrder(q \o rest, s.fbu.num, last)
                      /\ Clean(q \o rest, s.d.queue)
<1>2. \A q \in Seq(Tokens) : q # <<>> /\ Safe(q) => Safe(Tail(q))
    BY <1>1, SkipSafe
<1>3. Safe(s.q)
    BY <1>1
<1>4. ASSUME NEW q \in Seq(Tokens), Safe(q), NEW t \in Readers,
             t.q = q, t.d = s.d, t.fbu.num = s.fbu.num
      PROVE  t \in PaintSafe(rest, last)
    BY <1>1, <1>4 DEF PaintSafe
<1> HIDE DEF Safe
<1>5. CASE s.fbu.rects # 0
    <2>1. NormalMsg(s) = FramebufferUpdate[s]
        BY <1>1, <1>5 DEF NormalMsg
    <2> QED BY <2>1, UpdateSafe
<1>6. CASE s.fbu.rects = 0
    <2>1. CASE Len(s.q) >= 2 /\ NormalMsg(s) = FramebufferUpdate[Begun(s)]
        <3>1. s.q # <<>> /\ Tail(s.q) \in Seq(Tokens) /\ Tail(s.q) # <<>>
              /\ Tail(Tail(s.q)) \in Seq(Tokens)
            BY <1>1, <2>1, TwoRead
        <3>2. Safe(Tail(Tail(s.q)))
            BY <1>1, <1>2, <1>3, <3>1
        <3>3. /\ Begun(s) \in Readers /\ Begun(s).q = Tail(Tail(s.q))
              /\ Begun(s).d = s.d /\ Begun(s).fbu.num = s.fbu.num
            BY <1>1, <2>1, BegunIs
        <3>4. Begun(s) \in PaintSafe(rest, last)
            BY <1>4, <3>1, <3>2, <3>3
        <3> QED BY <2>1, <3>4, UpdateSafe
    <2>2. CASE NormalMsg(s) = Skips(s, Tail(s.q))
        <3>1. Tail(s.q) \in Seq(Tokens) /\ Safe(Tail(s.q))
            BY <1>1, <1>2, <1>3, ReaderHas
        <3>2. /\ Skips(s, Tail(s.q)) \in Readers /\ Skips(s, Tail(s.q)).q = Tail(s.q)
              /\ Skips(s, Tail(s.q)).d = s.d /\ Skips(s, Tail(s.q)).fbu.num = s.fbu.num
            BY <1>1, <3>1, SkipsIs
        <3> QED BY <1>4, <2>2, <3>1, <3>2
    <2>3. CASE Len(s.q) >= 3 /\ NormalMsg(s) = Skips(s, Tail(Tail(Tail(s.q))))
        <3> DEFINE q == Tail(Tail(Tail(s.q)))
        <3>1. /\ Tail(s.q) \in Seq(Tokens) /\ Tail(s.q) # <<>>
              /\ Tail(Tail(s.q)) \in Seq(Tokens) /\ Tail(Tail(s.q)) # <<>>
              /\ q \in Seq(Tokens)
            <4>1. Len(s.q) >= 2
                BY <1>1, <2>3
            <4> QED BY <1>1, <2>3, <4>1, TwoRead, ThreeRead
        <3>2. Safe(q)
            BY <1>1, <1>2, <1>3, <3>1
        <3> HIDE DEF q
        <3>3. /\ Skips(s, q) \in Readers /\ Skips(s, q).q = q
              /\ Skips(s, q).d = s.d /\ Skips(s, q).fbu.num = s.fbu.num
            BY <1>1, <3>1, SkipsIs
        <3> QED BY <1>4, <2>3, <3>1, <3>2, <3>3 DEF q
    <2>4. CASE NormalMsg(s) = Waits(s) \/ NormalMsg(s) = Confused(s)
        <3>1. /\ Waits(s) \in Readers /\ Confused(s) \in Readers
              /\ Waits(s).q = s.q /\ Waits(s).d = s.d /\ Waits(s).fbu = s.fbu
              /\ Confused(s).q = s.q /\ Confused(s).d = s.d /\ Confused(s).fbu = s.fbu
            BY <1>1, WaitsIs
        <3>2. Waits(s).fbu.num = s.fbu.num /\ Confused(s).fbu.num = s.fbu.num
            BY <3>1
        <3> QED BY <1>1, <1>3, <1>4, <2>4, <3>1, <3>2
    <2> QED BY <1>1, <1>6, <2>1, <2>2, <2>3, <2>4, MessageIs
<1> QED BY <1>5, <1>6

(***************************************************************************)
(* What the server sends of an update.                                     *)
(***************************************************************************)
Sendings == [tokens : Seq(Tokens), last : Nat]

Sent0 == [tokens |-> <<>>, last |-> sent]

After(enc, before) ==
    LET n == before.last + IF enc \in Quiet THEN 0 ELSE 1
    IN  [tokens |-> before.tokens \o RectTokens(enc, n), last |-> n]

\* The tokens of one rectangle.
LEMMA RectTokensIs ==
    ASSUME NEW enc \in Encodings, NEW n \in Nat
    PROVE  /\ RectTokens(enc, n) \in Seq(Tokens)
           /\ \A i \in 1 .. Len(RectTokens(enc, n)) :
                 RectTokens(enc, n)[i].v = enc /\ RectTokens(enc, n)[i].n = n
<1> DEFINE h == <<Token("rect", enc, n)>>
<1> DEFINE p == [i \in 1 .. Parts(enc) |-> Token(enc, enc, n)]
<1>1. Token("rect", enc, n) \in Tokens /\ Token(enc, enc, n) \in Tokens
    <2>1. Token("rect", enc, n) \in Tokens
        BY DEF Token, Tokens, Kinds, Encodings, Direct, Queued, Quiet
    <2>2. enc \in Kinds /\ enc # "rect"
        BY DEF Kinds, Encodings, Direct, Queued, Quiet
    <2>3. Token(enc, enc, n) \in Tokens
        BY <2>2 DEF Token, Tokens
    <2> QED BY <2>1, <2>3
<1>2. Parts(enc) \in Nat
    BY PartsIs
<1>3. h \in Seq(Tokens) /\ Len(h) = 1 /\ h[1] = Token("rect", enc, n)
    BY <1>1
<1>4. p \in Seq(Tokens) /\ Len(p) = Parts(enc)
    BY <1>1, <1>2
<1>5. /\ h \o p \in Seq(Tokens) /\ Len(h \o p) = 1 + Parts(enc)
      /\ \A i \in 1 .. 1 + Parts(enc) : (h \o p)[i] = IF i <= 1 THEN h[i] ELSE p[i - 1]
    <2> HIDE DEF h, p
    <2>1. /\ h \o p \in Seq(Tokens) /\ Len(h \o p) = Len(h) + Len(p)
          /\ \A i \in 1 .. Len(h) + Len(p) :
                (h \o p)[i] = IF i <= Len(h) THEN h[i] ELSE p[i - Len(h)]
        BY <1>3, <1>4, ConcatProperties
    <2> QED BY <1>3, <1>4, <2>1
<1>6. \A i \in 1 .. 1 + Parts(enc) : i = 1 \/ (~(i <= 1) /\ i - 1 \in 1 .. Parts(enc))
    BY <1>2
<1>7. \A i \in 1 .. 1 + Parts(enc) :
         (h \o p)[i] \in {Token("rect", enc, n), Token(enc, enc, n)}
    <2> SUFFICES ASSUME NEW i \in 1 .. 1 + Parts(enc)
                 PROVE  (h \o p)[i] \in {Token("rect", enc, n), Token(enc, enc, n)}
        OBVIOUS
    <2>1. CASE i = 1
        BY <1>3, <1>5, <2>1
    <2>2. CASE ~(i <= 1) /\ i - 1 \in 1 .. Parts(enc)
        BY <1>5, <2>2
    <2> QED BY <1>6, <2>1, <2>2
<1>8. \A t \in {Token("rect", enc, n), Token(enc, enc, n)} : t.v = enc /\ t.n = n
    BY DEF Token
<1>9. RectTokens(enc, n) = h \o p
    BY DEF RectTokens
<1> HIDE DEF h, p
<1> QED BY <1>5, <1>7, <1>8, <1>9

\* What is sent up to one more rectangle.
LEMMA AfterIs ==
    ASSUME NEW enc \in Encodings, NEW b \in Sendings
    PROVE  /\ After(enc, b) \in Sendings
           /\ After(enc, b).tokens = b.tokens \o RectTokens(enc, After(enc, b).last)
           /\ After(enc, b).last \in {b.last, b.last + 1}
<1>1. PICK n \in Nat : n = b.last + IF enc \in Quiet THEN 0 ELSE 1
    BY DEF Sendings
<1>2. b.tokens \o RectTokens(enc, n) \in Seq(Tokens)
    BY RectTokensIs, ConcatProperties DEF Sendings
<1>3. After(enc, b) = [tokens |-> b.tokens \o RectTokens(enc, n), last |-> n]
    BY <1>1 DEF After
<1> QED BY <1>1, <1>2, <1>3 DEF Sendings

\* Rects adds one rectangle after the other.
LEMMA RectsAre ==
    ASSUME sent \in Nat, NEW encs \in Seq(Encodings)
    PROVE  \E f \in [0 .. Len(encs) -> Sendings] :
              /\ f[0] = Sent0 /\ Rects(encs) = f[Len(encs)]
              /\ \A i \in 1 .. Len(encs) : f[i] = After(encs[i], f[i - 1])
<1>1. Len(encs) \in Nat /\ \A i \in 1 .. Len(encs) : encs[i] \in Encodings
    BY LenProperties, ElementOfSeq
<1> DEFINE S == 0 .. Len(encs)
<1> DEFINE next == [i \in S |-> IF i = 0 THEN 0 ELSE i - 1]
<1> DEFINE m == [i \in S |-> i]
<1> DEFINE val == [i \in S |-> Sent0]
<1> DEFINE g == [p \in S \X Sendings |-> IF p[1] = 0 THEN Sent0 ELSE After(encs[p[1]], p[2])]
<1>2. Shrinks(S, {0}, next, m)
    BY <1>1 DEF Shrinks
<1>3. Sent0 \in Sendings
    BY EmptySeq DEF Sent0, Sendings
<1>4. Combines(S, Sendings, val, g)
    <2>1. \A i \in S, b \in Sendings : i # 0 => After(encs[i], b) \in Sendings
        <3> SUFFICES ASSUME NEW i \in S, i # 0, NEW b \in Sendings
                     PROVE  After(encs[i], b) \in Sendings
            OBVIOUS
        <3>1. encs[i] \in Encodings
            BY <1>1
        <3> QED BY <3>1, AfterIs
    <2> QED BY <1>3, <2>1 DEF Combines
<1>5. PICK f \in [S -> Sendings] :
        \A i \in S : f[i] = IF i \in {0} THEN val[i] ELSE g[<<i, f[next[i]]>>]
    <2> HIDE DEF S, next, m, val, g
    <2> QED BY <1>2, <1>4, Recursion
<1>6. f[0] = Sent0
    <2>1. 0 \in S /\ val[0] = Sent0
        BY <1>1
    <2> QED BY <1>5, <2>1
<1>7. \A i \in S : i # 0 => f[i] = After(encs[i], f[i - 1])
    <2> SUFFICES ASSUME NEW i \in S, i # 0 PROVE f[i] = After(encs[i], f[i - 1])
        OBVIOUS
    <2>1. i - 1 \in S /\ next[i] = i - 1
        BY <1>1
    <2>2. <<i, f[i - 1]>> \in S \X Sendings
        BY <1>5, <2>1
    <2> QED BY <1>5, <2>1, <2>2
<1> DEFINE Solves(h) ==
    h = [i \in 0 .. Len(encs) |->
           IF i = 0 THEN [tokens |-> <<>>, last |-> sent]
           ELSE LET before == h[i - 1]
                    n == before.last + IF encs[i] \in Quiet THEN 0 ELSE 1
                IN  [tokens |-> before.tokens \o RectTokens(encs[i], n), last |-> n]]
<1>8. Solves(f)
    <2>1. f = [i \in 0 .. Len(encs) |-> f[i]]
        BY <1>5
    <2>2. ASSUME NEW i \in S
          PROVE  f[i] = IF i = 0 THEN [tokens |-> <<>>, last |-> sent]
             ELSE LET before == f[i - 1]
                      n == before.last + IF encs[i] \in Quiet THEN 0 ELSE 1
                  IN  [tokens |-> before.tokens \o RectTokens(encs[i], n), last |-> n]
        BY <1>6, <1>7 DEF Sent0, After
    <2> QED BY <2>1, <2>2
<1>9. PICK h : Solves(h) /\ Rects(encs) = h[Len(encs)]
    <2>1. Rects(encs) = (CHOOSE h : Solves(h))[Len(encs)]
        BY DEF Rects
    <2>2. Solves(CHOOSE h : Solves(h))
        BY <1>8
    <2> QED BY <2>1, <2>2
<1>10. /\ h = [i \in S |-> h[i]] /\ h[0] = Sent0
       /\ \A i \in 1 .. Len(encs) : h[i] = After(encs[i], h[i - 1])
    <2>1. /\ h = [i \in S |-> h[i]]
          /\ \A i \in S : h[i] = IF i = 0 THEN Sent0 ELSE After(encs[i], h[i - 1])
        BY <1>9 DEF Sent0, After
    <2>2. 0 \in S /\ \A i \in 1 .. Len(encs) : i \in S /\ i # 0
        BY <1>1
    <2> QED BY <2>1, <2>2
<1>11. \A i \in S : h[i] \in Sendings
    <2> DEFINE P == {i \in Nat : i \in S => h[i] \in Sendings}
    <2>1. 0 \in P
        BY <1>3, <1>10
    <2>2. ASSUME NEW i \in P, i + 1 \in S PROVE h[i + 1] \in Sendings
        <3>1. i \in S /\ i + 1 \in 1 .. Len(encs) /\ (i + 1) - 1 = i
            BY <1>1, <2>2
        <3>2. h[i + 1] = After(encs[i + 1], h[i]) /\ h[i] \in Sendings
            BY <1>10, <2>2, <3>1
        <3> QED BY <1>1, <3>1, <3>2, AfterIs
    <2>3. Nat \subseteq P
        <3>1. 0 \in P /\ \A n \in Nat : n \in P => n + 1 \in P
            BY <2>1, <2>2
        <3> HIDE DEF P
        <3> QED BY <3>1, Induction
    <2> QED BY <1>1, <2>3
<1> QED BY <1>9, <1>10, <1>11

\* Streams in order, one after the other.
LEMMA InOrderConcat ==
    ASSUME NEW a \in Seq(Tokens), NEW b \in Seq(Tokens), NEW num \in Nat, NEW mid \in Nat,
           NEW last \in Nat, num <= mid, mid <= last,
           InOrder(a, num, mid), InOrder(b, mid, last)
    PROVE  InOrder(a \o b, num, last)
<1>1. /\ a \o b \in Seq(Tokens) /\ Len(a \o b) = Len(a) + Len(b)
      /\ Len(a) \in Nat /\ Len(b) \in Nat
      /\ \A i \in 1 .. Len(a) + Len(b) :
            (a \o b)[i] = IF i <= Len(a) THEN a[i] ELSE b[i - Len(a)]
    BY ConcatProperties, LenProperties
<1>2. PICK x, y, c : x \in Nat /\ y \in Nat /\ x = Len(a) /\ y = Len(b) /\ c = a \o b
    BY <1>1
<1>9. x \in Nat /\ y \in Nat
    BY <1>2
<1>8. /\ \A i, j \in 1 .. x + y : i <= j => i - x <= j - x
      /\ \A i, j \in 1 .. x + y : i <= j /\ j \in 1 .. x => i \in 1 .. x /\ i - x \notin 1 .. y
    BY <1>9
<1>3. \A i \in 1 .. x + y :
         \/ i \in 1 .. x /\ c[i] = a[i]
         \/ i - x \in 1 .. y /\ ~(i <= x) /\ c[i] = b[i - x]
    <2>1. \A i \in 1 .. x + y : c[i] = IF i <= x THEN a[i] ELSE b[i - x]
        BY <1>1, <1>2
    <2>2. \A i \in 1 .. x + y : (i <= x /\ i \in 1 .. x) \/ (~(i <= x) /\ i - x \in 1 .. y)
        BY <1>9
    <2> QED BY <2>1, <2>2
<1>4. /\ \A i \in 1 .. x : a[i].v # "" => num <= a[i].n /\ a[i].n <= mid
      /\ \A i \in 1 .. y : b[i].v # "" => mid <= b[i].n /\ b[i].n <= last
      /\ \A i, j \in 1 .. x : i <= j /\ a[i].v # "" /\ a[j].v # "" => a[i].n <= a[j].n
      /\ \A i, j \in 1 .. y : i <= j /\ b[i].v # "" /\ b[j].v # "" => b[i].n <= b[j].n
    BY <1>2 DEF InOrder
<1>5. /\ \A i \in 1 .. x : a[i].n \in Nat
      /\ \A i \in 1 .. y : b[i].n \in Nat
    <2>1. /\ \A i \in 1 .. x : a[i] \in Tokens
          /\ \A i \in 1 .. y : b[i] \in Tokens
        BY <1>2, ElementOfSeq
    <2> QED BY <2>1 DEF Tokens
<1>6. ASSUME NEW i \in 1 .. x + y, c[i].v # ""
      PROVE  num <= c[i].n /\ c[i].n <= last
    <2>1. CASE i \in 1 .. x /\ c[i] = a[i]
        <3>1. a[i].n \in Nat /\ num <= a[i].n /\ a[i].n <= mid
            BY <1>4, <1>5, <1>6, <2>1
        <3> QED BY <2>1, <3>1
    <2>2. CASE i - x \in 1 .. y /\ c[i] = b[i - x]
        <3>1. b[i - x].n \in Nat /\ mid <= b[i - x].n /\ b[i - x].n <= last
            BY <1>4, <1>5, <1>6, <2>2
        <3> QED BY <2>2, <3>1
    <2> QED BY <1>3, <2>1, <2>2
<1>7. ASSUME NEW i \in 1 .. x + y, NEW j \in 1 .. x + y, i <= j, c[i].v # "", c[j].v # ""
      PROVE  c[i].n <= c[j].n
    <2>1. CASE j \in 1 .. x /\ c[j] = a[j]
        <3>1. i \in 1 .. x /\ i - x \notin 1 .. y
            BY <1>7, <1>8, <1>9, <2>1
        <3>2. c[i] = a[i]
            BY <1>3, <3>1
        <3> QED BY <1>4, <1>7, <2>1, <3>1, <3>2
    <2>2. CASE j - x \in 1 .. y /\ c[j] = b[j - x]
        <3>1. CASE i \in 1 .. x /\ c[i] = a[i]
            <4>1. a[i].n \in Nat /\ b[j - x].n \in Nat /\ a[i].n <= mid /\ mid <= b[j - x].n
                BY <1>4, <1>5, <1>7, <2>2, <3>1
            <4>2. a[i].n <= b[j - x].n
                BY <4>1
            <4> QED BY <2>2, <3>1, <4>2
        <3>2. CASE i - x \in 1 .. y /\ c[i] = b[i - x]
            <4>1. i - x <= j - x
                BY <1>7, <1>8
            <4> QED BY <1>4, <1>7, <2>2, <3>2, <4>1
        <3> QED BY <1>3, <3>1, <3>2
    <2> QED BY <1>3, <2>1, <2>2
<1> QED BY <1>1, <1>2, <1>6, <1>7 DEF InOrder

\* Clean streams, one after the other.
LEMMA CleanConcat ==
    ASSUME NEW a \in Seq(Tokens), NEW b \in Seq(Tokens), NEW queue,
           Clean(a, queue), Clean(b, queue),
           \A j \in 1 .. Len(b) : b[j].v \in Direct =>
              \A i \in 1 .. Len(a) : a[i].v # "IMAGE"
    PROVE  Clean(a \o b, queue)
<1>1. /\ a \o b \in Seq(Tokens) /\ Len(a \o b) = Len(a) + Len(b)
      /\ Len(a) \in Nat /\ Len(b) \in Nat
      /\ \A i \in 1 .. Len(a) + Len(b) :
            (a \o b)[i] = IF i <= Len(a) THEN a[i] ELSE b[i - Len(a)]
    BY ConcatProperties, LenProperties
<1> SUFFICES ASSUME NEW j \in 1 .. Len(a) + Len(b), (a \o b)[j].v \in Direct
             PROVE  queue = <<>> /\ \A i \in 1 .. j - 1 : (a \o b)[i].v # "IMAGE"
    BY <1>1 DEF Clean
<1>2. CASE j <= Len(a)
    <2>1. j \in 1 .. Len(a) /\ a[j].v \in Direct
        BY <1>1, <1>2
    <2>2. queue = <<>> /\ \A i \in 1 .. j - 1 : a[i].v # "IMAGE"
        BY <2>1 DEF Clean
    <2>3. \A i \in 1 .. j - 1 : (a \o b)[i] = a[i]
        BY <1>1, <1>2
    <2> QED BY <2>2, <2>3
<1>3. CASE ~(j <= Len(a))
    <2> DEFINE k == j - Len(a)
    <2>1. k \in 1 .. Len(b) /\ b[k].v \in Direct
        BY <1>1, <1>3
    <2>2. queue = <<>> /\ \A i \in 1 .. k - 1 : b[i].v # "IMAGE"
        BY <2>1 DEF Clean
    <2>3. \A i \in 1 .. Len(a) : a[i].v # "IMAGE"
        BY <2>1
    <2>4. ASSUME NEW i \in 1 .. j - 1 PROVE (a \o b)[i].v # "IMAGE"
        <3>1. CASE i <= Len(a)
            BY <1>1, <2>3, <3>1
        <3>2. CASE ~(i <= Len(a))
            <4>1. i - Len(a) \in 1 .. k - 1 /\ i \in 1 .. Len(a) + Len(b)
                BY <1>1, <3>2
            <4> QED BY <1>1, <2>2, <3>2, <4>1
        <3> QED BY <3>1, <3>2
    <2> QED BY <2>2, <2>4
<1> QED BY <1>2, <1>3

\* No rectangle of encs that is drawn at once comes after an image.
DrawnFirst(encs, queue) ==
    \A j \in 1 .. Len(encs) :
       encs[j] \in Direct => queue = <<>> /\ \A i \in 1 .. j - 1 : encs[i] # "IMAGE"

\* The rectangles of an update are in order, and clean if it mixes nothing.
LEMMA RectsSafe ==
    ASSUME sent \in Nat, NEW encs \in Seq(Encodings), NEW queue
    PROVE  /\ Rects(encs) \in Sendings
           /\ sent <= Rects(encs).last
           /\ InOrder(Rects(encs).tokens, sent, Rects(encs).last)
           /\ \A k \in 1 .. Len(Rects(encs).tokens) :
                 \E e \in 1 .. Len(encs) : Rects(encs).tokens[k].v = encs[e]
           /\ DrawnFirst(encs, queue) => Clean(Rects(encs).tokens, queue)
<1>1. PICK f \in [0 .. Len(encs) -> Sendings] :
              /\ f[0] = Sent0 /\ Rects(encs) = f[Len(encs)]
              /\ \A i \in 1 .. Len(encs) : f[i] = After(encs[i], f[i - 1])
    BY RectsAre
<1>2. Len(encs) \in Nat /\ \A i \in 1 .. Len(encs) : encs[i] \in Encodings
    BY LenProperties, ElementOfSeq
<1> DEFINE Fine(i) ==
      /\ sent <= f[i].last
      /\ InOrder(f[i].tokens, sent, f[i].last)
      /\ \A k \in 1 .. Len(f[i].tokens) : \E e \in 1 .. i : f[i].tokens[k].v = encs[e]
      /\ DrawnFirst(encs, queue) => Clean(f[i].tokens, queue)
<1>3. Fine(0)
    <2>1. f[0].tokens = <<>> /\ f[0].last = sent /\ Len(f[0].tokens) = 0
        BY <1>1, EmptySeq DEF Sent0
    <2> QED BY <2>1 DEF InOrder, Clean
<1>4. ASSUME NEW i \in Nat, i + 1 \in 1 .. Len(encs), Fine(i)
      PROVE  Fine(i + 1)
    <2>1. /\ i \in 0 .. Len(encs) /\ (i + 1) - 1 = i /\ i + 1 \in 0 .. Len(encs)
          /\ \A e \in 1 .. i : e \in 1 .. i + 1 /\ e \in 1 .. Len(encs)
          /\ i + 1 \in 1 .. i + 1
        BY <1>2, <1>4
    <2> DEFINE enc == encs[i + 1]
    <2>2. enc \in Encodings /\ f[i] \in Sendings /\ f[i + 1] \in Sendings
        BY <1>1, <1>2, <1>4, <2>1
    <2>3. f[i + 1] = After(enc, f[i])
        BY <1>1, <1>4, <2>1
    <2> DEFINE n == f[i + 1].last
    <2> DEFINE a == f[i].tokens
    <2> DEFINE r == RectTokens(enc, n)
    <2>4. /\ f[i].last \in Nat /\ n \in Nat /\ f[i].last <= n /\ a \in Seq(Tokens)
          /\ f[i + 1].tokens = a \o r
        <3> HIDE DEF enc
        <3>1. PICK b \in Sendings, c \in Sendings : b = f[i] /\ c = f[i + 1] /\ c = After(enc, b)
            BY <2>2, <2>3
        <3>2. c.tokens = b.tokens \o RectTokens(enc, c.last) /\ c.last \in {b.last, b.last + 1}
            BY <2>2, <3>1, AfterIs
        <3>3. b.last \in Nat /\ c.last \in Nat /\ b.tokens \in Seq(Tokens) /\ b.last <= c.last
            BY <3>2 DEF Sendings
        <3> QED BY <3>1, <3>2, <3>3
    <2>5. /\ r \in Seq(Tokens)
          /\ \A k \in 1 .. Len(r) : r[k].v = enc /\ r[k].n = n
        <3> HIDE DEF enc, n
        <3> QED BY <2>2, <2>4, RectTokensIs
    <2>6. /\ a \o r \in Seq(Tokens) /\ Len(a \o r) = Len(a) + Len(r)
          /\ Len(a) \in Nat /\ Len(r) \in Nat
          /\ \A k \in 1 .. Len(a) + Len(r) :
                (a \o r)[k] = IF k <= Len(a) THEN a[k] ELSE r[k - Len(a)]
        <3> HIDE DEF a, r
        <3> QED BY <2>4, <2>5, ConcatProperties, LenProperties
    <2>7. /\ sent <= f[i].last /\ InOrder(a, sent, f[i].last)
          /\ \A k \in 1 .. Len(a) : \E e \in 1 .. i : a[k].v = encs[e]
          /\ DrawnFirst(encs, queue) => Clean(a, queue)
        BY <1>4
    <2> HIDE DEF Fine, a, r
    <2>8. sent <= n /\ InOrder(a \o r, sent, n)
        <3> HIDE DEF n
        <3>1. InOrder(r, f[i].last, n)
            <4>1. PICK l \in Nat, m \in Nat : l = f[i].last /\ m = n
                BY <2>4
            <4>2. l <= m /\ m <= m
                BY <2>4, <4>1
            <4>3. \A k \in 1 .. Len(r) : r[k].n = m
                BY <2>5, <4>1
            <4>4. InOrder(r, l, m)
                BY <4>2, <4>3 DEF InOrder
            <4> QED BY <4>1, <4>4
        <3> QED BY <2>4, <2>5, <2>7, <3>1, InOrderConcat
    <2>9. ASSUME NEW k \in 1 .. Len(a \o r)
          PROVE  \E e \in 1 .. i + 1 : (a \o r)[k].v = encs[e]
        <3>1. CASE k <= Len(a)
            <4>1. k \in 1 .. Len(a) /\ (a \o r)[k] = a[k]
                BY <2>6, <3>1
            <4>2. PICK e \in 1 .. i : a[k].v = encs[e]
                BY <2>7, <4>1
            <4> QED BY <2>1, <4>1, <4>2
        <3>2. CASE ~(k <= Len(a))
            <4>1. k - Len(a) \in 1 .. Len(r) /\ (a \o r)[k] = r[k - Len(a)]
                BY <2>6, <3>2
            <4> QED BY <2>1, <2>5, <4>1
        <3> QED BY <3>1, <3>2
    <2>10. ASSUME DrawnFirst(encs, queue) PROVE Clean(a \o r, queue)
        <3>1. enc \in Direct =>
                 /\ queue = <<>> /\ enc # "IMAGE"
                 /\ \A e \in 1 .. i : encs[e] # "IMAGE"
            BY <1>4, <2>1, <2>10 DEF DrawnFirst, Direct
        <3>2. Clean(r, queue)
            <4>1. \A k \in 1 .. Len(r) : \A j \in 1 .. k - 1 : j \in 1 .. Len(r)
                BY <2>6
            <4> HIDE DEF enc
            <4> QED BY <2>5, <3>1, <4>1 DEF Clean
        <3>3. enc \in Direct => \A k \in 1 .. Len(a) : a[k].v # "IMAGE"
            BY <2>7, <3>1
        <3> HIDE DEF enc
        <3> QED BY <2>4, <2>5, <2>7, <2>10, <3>2, <3>3, CleanConcat
    <2> QED BY <2>4, <2>8, <2>9, <2>10 DEF Fine
<1> HIDE DEF Fine
<1>5. Fine(Len(encs))
    <2> DEFINE P == {i \in Nat : i \in 0 .. Len(encs) => Fine(i)}
    <2>1. 0 \in P
        BY <1>3
    <2>2. ASSUME NEW i \in P PROVE i + 1 \in P
        <3>1. i + 1 \in 0 .. Len(encs) => i \in 0 .. Len(encs) /\ i + 1 \in 1 .. Len(encs)
            BY <1>2
        <3> QED BY <1>4, <3>1
    <2>3. Nat \subseteq P
        <3>1. 0 \in P /\ \A n \in Nat : n \in P => n + 1 \in P
            BY <2>1, <2>2
        <3> HIDE DEF P
        <3> QED BY <3>1, Induction
    <2> QED BY <1>2, <2>3
<1>6. Len(encs) \in 0 .. Len(encs)
    BY <1>2
<1> QED BY <1>1, <1>5, <1>6 DEF Fine

\* A scan leaves a display.
LEMMA ScanIs ==
    ASSUME NEW d \in Displays
    PROVE  Scan[d] \in Displays /\ Scan[d].loading = d.loading
<1> DEFINE I == {e \in Displays : e.loading = d.loading}
<1>1. I \subseteq Displays /\ d \in I /\ \A e \in I : e \notin Held => PaintFirst(e) \in I
    BY PaintFirstIs DEF Held
<1> HIDE DEF I
<1>2. Scan[d] \in I
    BY <1>1, ScanKeeps
<1> QED BY <1>2 DEF I

\* The loop leaves a reader.
LEMMA UpdateIs ==
    ASSUME NEW s \in Readers
    PROVE  FramebufferUpdate[s] \in Readers
<1>1. \A t \in Readers : t \notin Stops => Turn(t) \in Readers
    <2> SUFFICES ASSUME NEW t \in Readers, t \notin Stops PROVE Turn(t) \in Readers
        OBVIOUS
    <2>1. CASE ~t.fbu.waiting
        BY <2>1, TurnIs, HeaderIs
    <2>2. CASE t.fbu.waiting /\ t.fbu.left = 0
        <3>1. Turn(t) = RectDone(t) /\ t.fbu.rects > 0
            BY <2>2, TurnIs, ReaderHas DEF FBUs
        <3> QED BY <3>1, DoneIs
    <2>3. CASE t.fbu.waiting /\ t.fbu.left # 0
        BY <2>3, TurnIs, PartIs
    <2> QED BY <2>1, <2>2, <2>3
<1>2. PICK t \in Readers : FramebufferUpdate[s] = Ending(t)
    BY <1>1, UpdateKeeps
<1> QED BY <1>2, EndingIs

\* So does normal_msg.
LEMMA NormalIs ==
    ASSUME NEW s \in Readers, s.q # <<>>
    PROVE  NormalMsg(s) \in Readers
<1>1. /\ s.q \in Seq(Tokens) /\ Tail(s.q) \in Seq(Tokens) /\ s.fbu.rects \in Nat
      /\ Len(s.q) \in Nat
    BY ReaderHas DEF FBUs
<1>2. CASE s.fbu.rects # 0
    <2>1. NormalMsg(s) = FramebufferUpdate[s]
        BY <1>1, <1>2 DEF NormalMsg
    <2> QED BY <2>1, UpdateIs
<1>3. CASE s.fbu.rects = 0
    <2>1. CASE Len(s.q) >= 2 /\ NormalMsg(s) = FramebufferUpdate[Begun(s)]
        BY <2>1, BegunIs, UpdateIs
    <2>2. CASE NormalMsg(s) = Skips(s, Tail(s.q))
        BY <1>1, <2>2, SkipsIs
    <2>3. CASE Len(s.q) >= 3 /\ NormalMsg(s) = Skips(s, Tail(Tail(Tail(s.q))))
        <3>1. Tail(Tail(Tail(s.q))) \in Seq(Tokens)
            BY <1>1, <2>3, ThreeRead
        <3> QED BY <2>3, <3>1, SkipsIs
    <2>4. CASE NormalMsg(s) = Waits(s) \/ NormalMsg(s) = Confused(s)
        BY <2>4, WaitsIs
    <2> QED BY <1>3, <2>1, <2>2, <2>3, <2>4, MessageIs
<1> QED BY <1>2, <1>3

\* init_msg reads one token, two, or none.
Takes(q, r) == \/ r = q
               \/ q # <<>> /\ r = Tail(q)
               \/ q # <<>> /\ Tail(q) # <<>> /\ r = Tail(Tail(q))

\* The authentication reads the challenge at most.
LEMMA AuthenticationTakes ==
    ASSUME ConnInv, NEW q, NEW says
    PROVE  \/ Authentication(q, says).q = q
           \/ q # <<>> /\ Authentication(q, says).q = Tail(q)
<1>1. server.auth \in {"none", "vnc"} /\ password \in BOOLEAN
    BY DEF ConnInv
<1> QED BY <1>1 DEF Authentication, ClientInitialisation, Goes

\* The handshake reads the front of what is received.
LEMMA InitMsgTakes ==
    ASSUME ConnInv, rfb_state \in InitStates, NEW q
    PROVE  Takes(q, InitMsg(q).q)
<1>1. CASE rfb_state \in {"password", "connect"}
    BY <1>1 DEF InitMsg, Goes, Takes
<1>2. CASE rfb_state = "Authentication"
    <2>1. InitMsg(q) = Authentication(q, <<>>)
        BY <1>2 DEF InitMsg
    <2> QED BY <2>1, AuthenticationTakes DEF Takes
<1>3. CASE rfb_state \notin {"password", "connect", "Authentication"} /\ q = <<>>
    BY <1>3 DEF InitMsg, Goes, Takes
<1>4. CASE rfb_state \notin {"password", "connect", "Authentication"} /\ q # <<>>
    <2>1. CASE rfb_state = "Security"
        <3>1. InitMsg(q) = Authentication(Tail(q), IF server.version = "3.3" THEN <<>>
                                                   ELSE <<"scheme">>)
            BY <1>4, <2>1 DEF InitMsg
        <3> QED BY <1>4, <3>1, AuthenticationTakes DEF Takes
    <2>2. CASE rfb_state \in {"ProtocolVersion", "SecurityResult", "ServerInitialisation"}
        BY <1>4, <2>2 DEF InitMsg, Goes, ClientInitialisation, Takes
    <2> QED BY <1>4, <2>1, <2>2 DEF InitStates
<1> QED BY <1>1, <1>2, <1>3, <1>4

\* Concatenation by a name that the provers do not interpret.
Join(s, t) == s \o t

\* Its one law.
LEMMA JoinAssociative ==
    ASSUME NEW X, NEW s \in Seq(X), NEW t \in Seq(X), NEW u \in Seq(X)
    PROVE  Join(Join(s, t), u) = Join(s, Join(t, u))
BY ConcatAssociative DEF Join

\* A frame is a piece of what is on the wire.
Cut(q, w, n, frame, rest) ==
    frame = q \o SubSeq(w, 1, n) /\ rest = SubSeq(w, n + 1, Len(w))

\* What was received with the frame, and what the frame left on the wire.
LEMMA CutIs ==
    ASSUME NEW X, NEW q \in Seq(X), NEW w \in Seq(X), NEW n \in 1 .. Len(w),
           NEW frame, NEW rest, Cut(q, w, n, frame, rest)
    PROVE  /\ frame \in Seq(X) /\ frame # <<>> /\ rest \in Seq(X)
           /\ frame \o rest = q \o w
           /\ frame[Len(frame)] = w[n]
<1>1. PICK m \in Nat : m = Len(w)
    BY LenProperties
<1>2. n \in 1 .. m /\ n \in Nat /\ m \in m .. m /\ \A i \in 1 .. m : w[i] \in X
    BY <1>1, ElementOfSeq
<1>3. /\ SubSeq(w, 1, n) \in Seq(X) /\ Len(SubSeq(w, 1, n)) = n
      /\ \A i \in 1 .. n : SubSeq(w, 1, n)[i] = w[i]
    <2>1. /\ \A i \in 1 .. n : w[i] \in X /\ i = 1 + i - 1
          /\ 1 <= n /\ n - 1 + 1 = n
        BY <1>2
    <2> QED BY <1>2, <2>1, SubSeqProperties
<1>4. SubSeq(w, n + 1, m) \in Seq(X)
    <2>1. \A i \in n + 1 .. m : w[i] \in X
        BY <1>2
    <2> QED BY <1>2, <2>1, SubSeqProperties
<1>5. SubSeq(w, 1, n) \o SubSeq(w, n + 1, m) = w
    <2>1. 1 \in 1 .. m + 1 /\ n \in 1 - 1 .. m /\ m \in n .. m
        BY <1>2
    <2>2. SubSeq(w, 1, n) \o SubSeq(w, n + 1, m) = SubSeq(w, 1, m)
        BY <1>1, <2>1, ConcatAdjacentSubSeq
    <2> QED BY <1>1, <2>2, SubSeqFull
<1> DEFINE a == SubSeq(w, 1, n)
<1>6. PICK l \in Nat : l = Len(q)
    BY LenProperties
<1> HIDE DEF a
<1>7. /\ q \o a \in Seq(X) /\ Len(q \o a) = l + n
      /\ \A i \in 1 .. l + n : (q \o a)[i] = IF i <= l THEN q[i] ELSE a[i - l]
    BY <1>3, <1>6, ConcatProperties DEF a
<1>8. l + n \in 1 .. l + n /\ ~(l + n <= l) /\ l + n - l = n /\ n \in 1 .. n /\ l + n # 0
    BY <1>2
<1>9. (q \o a)[l + n] = w[n]
    BY <1>3, <1>7, <1>8 DEF a
<1>10. q \o a # <<>>
    BY <1>7, <1>8, EmptySeq
<1>11. (q \o a) \o SubSeq(w, n + 1, m) = q \o w
    <2>1. PICK b \in Seq(X) : b = SubSeq(w, n + 1, m)
        BY <1>4
    <2>2. a \in Seq(X)
        BY <1>3 DEF a
    <2>3. Join(Join(q, a), b) = Join(q, Join(a, b))
        BY <2>2, JoinAssociative
    <2>4. a \o b = w
        BY <1>5, <2>1 DEF a
    <2> QED BY <2>1, <2>3, <2>4 DEF Join
<1>12. frame = q \o a /\ rest = SubSeq(w, n + 1, m)
    BY <1>1 DEF Cut, a
<1> QED BY <1>4, <1>7, <1>9, <1>10, <1>11, <1>12

(***************************************************************************)
(* The invariant: what the page shows and what it reads next are in order. *)
(***************************************************************************)
StreamTypes ==
    /\ rQ \in Seq(Tokens) /\ wire \in Seq(Tokens)
    /\ FBU \in FBUs /\ sent \in Nat /\ Shown \in Displays
    /\ link = "closed" => renderQ = <<>>

PaintInv ==
    /\ StreamTypes
    /\ ~mixed => /\ ~disorder
                 /\ link # "closed" => Reader(rQ) \in PaintSafe(wire, sent)

\* The reader that normal_msg starts with.
LEMMA ReaderIs ==
    ASSUME StreamTypes, NEW q \in Seq(Tokens)
    PROVE  /\ Reader(q) \in Readers /\ Reader(q).q = q
           /\ Reader(q).fbu = FBU /\ Reader(q).d = Shown /\ ~Reader(q).confused
BY DEF StreamTypes, Reader, Readers, FBUs

\* The display it shows.
LEMMA ShownIs ==
    /\ Shown.queue = renderQ /\ Shown.loading = loading
    /\ Shown.canvas = canvas /\ Shown.disorder = disorder
BY DEF Shown

\* What PaintSafe says of a reader depends on what it reads and shows.
LEMMA PaintSafeIf ==
    ASSUME NEW rest, NEW last, NEW s \in PaintSafe(rest, last),
           NEW w, NEW t \in Readers, t.q \o w = s.q \o rest,
           t.d = s.d, t.fbu = s.fbu
    PROVE  t \in PaintSafe(w, last)
BY DEF PaintSafe

\* The server sends.
LEMMA SendSafe ==
    ASSUME NEW rest \in Seq(Tokens), NEW last \in Nat, NEW s \in PaintSafe(rest, last),
           NEW tokens \in Seq(Tokens), NEW later \in Nat, last <= later,
           InOrder(tokens, last, later), Clean(tokens, s.d.queue),
           \A j \in 1 .. Len(tokens) : tokens[j].v \in Direct =>
              \A i \in 1 .. Len(s.q \o rest) : (s.q \o rest)[i].v # "IMAGE"
    PROVE  s \in PaintSafe(rest \o tokens, later)
<1>1. s \in Readers /\ s.q \in Seq(Tokens) /\ s.fbu.num \in Nat
    BY ReaderHas DEF PaintSafe, FBUs
<1>2. PICK stream \in Seq(Tokens) : stream = s.q \o rest
    BY <1>1, ConcatProperties
<1>3. /\ s.fbu.num <= last /\ s.d \in Ordered(s.fbu.num)
      /\ InOrder(stream, s.fbu.num, last) /\ Clean(stream, s.d.queue)
    BY <1>2 DEF PaintSafe
<1>4. InOrder(stream \o tokens, s.fbu.num, later)
    BY <1>1, <1>3, InOrderConcat
<1>5. Clean(stream \o tokens, s.d.queue)
    BY <1>2, <1>3, CleanConcat
<1>6. s.q \o (rest \o tokens) = stream \o tokens
    <2>1. Join(Join(s.q, rest), tokens) = Join(s.q, Join(rest, tokens))
        BY <1>1, JoinAssociative
    <2> QED BY <1>2, <2>1 DEF Join
<1>7. s.fbu.num <= later
    BY <1>1, <1>3
<1> QED BY <1>1, <1>3, <1>4, <1>5, <1>6, <1>7 DEF PaintSafe

\* The handshake.
LEMMA TakesSafe ==
    ASSUME NEW rest \in Seq(Tokens), NEW last \in Nat, NEW s \in PaintSafe(rest, last),
           NEW t \in Readers, Takes(s.q, t.q), t.d = s.d, t.fbu = s.fbu
    PROVE  t \in PaintSafe(rest, last)
<1>1. /\ s.q \in Seq(Tokens) /\ s.fbu.num \in Nat /\ s.fbu.num <= last
      /\ s.d \in Ordered(s.fbu.num)
      /\ InOrder(s.q \o rest, s.fbu.num, last) /\ Clean(s.q \o rest, s.d.queue)
    BY ReaderHas DEF PaintSafe, FBUs
<1> DEFINE Safe(q) == /\ InOrder(q \o rest, s.fbu.num, last)
                      /\ Clean(q \o rest, s.d.queue)
<1>2. \A q \in Seq(Tokens) : q # <<>> /\ Safe(q) => Safe(Tail(q))
    BY <1>1, SkipSafe
<1>3. \A q \in Seq(Tokens) : q # <<>> => Tail(q) \in Seq(Tokens)
    BY HeadTailProperties
<1>4. Safe(s.q)
    BY <1>1
<1> HIDE DEF Safe
<1>5. Safe(t.q)
    <2>1. CASE t.q = s.q
        BY <1>4, <2>1
    <2>2. CASE s.q # <<>> /\ t.q = Tail(s.q)
        BY <1>1, <1>2, <1>4, <2>2
    <2>3. CASE s.q # <<>> /\ Tail(s.q) # <<>> /\ t.q = Tail(Tail(s.q))
        BY <1>1, <1>2, <1>3, <1>4, <2>3
    <2> QED BY <2>1, <2>2, <2>3 DEF Takes
<1> QED BY <1>1, <1>5 DEF PaintSafe, Safe

\* What leaves the connection, the tokens and the display alone.
LEMMA PaintFrame ==
    ASSUME PaintInv, UNCHANGED <<rQ, wire, link, FBU, sent, mixed, drawVars>>
    PROVE  PaintInv'
<1>1. UNCHANGED <<Shown, Reader(rQ)>>
    BY DEF Shown, Reader, drawVars
<1> QED BY <1>1 DEF PaintInv, StreamTypes, drawVars

\* What comes to be on the wire.
Orderly(tokens, later) ==
    /\ InOrder(tokens, sent, later) /\ Clean(tokens, renderQ)
    /\ \A j \in 1 .. Len(tokens) : tokens[j].v \in Direct =>
          \A i \in 1 .. Len(rQ \o wire) : (rQ \o wire)[i].v # "IMAGE"

\* The server sends.
LEMMA PaintSends ==
    ASSUME PaintInv, link = "open" \/ (wire = <<>> /\ link = "connecting"), link' = "open",
           NEW tokens \in Seq(Tokens), wire' = wire \o tokens,
           sent' \in Nat, sent <= sent', mixed => mixed',
           ~mixed' => Orderly(tokens, sent'),
           UNCHANGED <<rQ, FBU, drawVars>>
    PROVE  PaintInv'
<1>1. UNCHANGED <<Shown, Reader(rQ)>>
    BY DEF Shown, Reader, drawVars
<1>2. StreamTypes /\ Reader(rQ).q = rQ /\ Reader(rQ).d.queue = renderQ
    BY ReaderIs, ShownIs DEF PaintInv, StreamTypes
<1>3. StreamTypes'
    <2>1. wire' \in Seq(Tokens)
        BY <1>2, ConcatProperties DEF StreamTypes
    <2> QED BY <1>1, <1>2, <2>1 DEF StreamTypes, drawVars
<1>4. ASSUME ~mixed' PROVE ~disorder' /\ Reader(rQ)' \in PaintSafe(wire', sent')
    <2>1. ~mixed /\ ~disorder /\ Reader(rQ) \in PaintSafe(wire, sent)
        BY <1>4 DEF PaintInv
    <2>2. wire \in Seq(Tokens) /\ sent \in Nat
        BY <1>2 DEF StreamTypes
    <2>3. PICK s : s = Reader(rQ)
        OBVIOUS
    <2>4. s \in PaintSafe(wire \o tokens, sent')
        BY <1>2, <1>4, <2>1, <2>2, <2>3, SendSafe DEF Orderly
    <2> QED BY <1>1, <2>1, <2>3, <2>4 DEF drawVars
<1> QED BY <1>3, <1>4 DEF PaintInv

\* The connection ends: nothing is read or painted any more.
LEMMA PaintFails ==
    ASSUME PaintInv, Fail, rQ' \in Seq(Tokens),
           UNCHANGED <<FBU, sent, mixed, loading, canvas, disorder>>
    PROVE  PaintInv'
<1>1. link' = "closed" /\ wire' = <<>> /\ renderQ' = <<>>
    BY DEF Fail
<1>2. Shown' \in Displays
    BY <1>1 DEF PaintInv, StreamTypes, Shown, Displays
<1> QED BY <1>1, <1>2 DEF PaintInv, StreamTypes

\* init_msg.
LEMMA PaintInitialised ==
    ASSUME ConnInv, PaintInv, rfb_state \in InitStates,
           NEW q \in Seq(Tokens), NEW rest \in Seq(Tokens), q \o rest = rQ \o wire,
           Initialised(InitMsg(q)),
           InitMsg(q).state # "failed" => wire' = rest,
           UNCHANGED <<FBU, sent, mixed>>
    PROVE  PaintInv'
<1> DEFINE r == InitMsg(q)
<1>1. Takes(q, r.q)
    BY InitMsgTakes
<1>2. \A p \in Seq(Tokens) : p # <<>> => Tail(p) \in Seq(Tokens)
    BY HeadTailProperties
<1>3. r.q \in Seq(Tokens)
    BY <1>1, <1>2 DEF Takes
<1> HIDE DEF r
<1>4. CASE r.state = "failed"
    <2>1. Fail /\ rQ' = r.q /\ UNCHANGED <<loading, canvas, disorder>>
        BY <1>4 DEF Initialised, r
    <2> QED BY <1>3, <2>1, PaintFails
<1>5. CASE r.state # "failed"
    <2>1. rQ' = r.q /\ wire' = rest /\ UNCHANGED <<link, drawVars>>
        BY <1>5 DEF Initialised, r
    <2>2. UNCHANGED Shown /\ UNCHANGED renderQ /\ UNCHANGED disorder
        BY <2>1 DEF Shown, drawVars
    <2>3. StreamTypes
        BY DEF PaintInv
    <2>4. StreamTypes'
        BY <1>3, <2>1, <2>2, <2>3 DEF StreamTypes
    <2>5. ASSUME ~mixed, link # "closed"
          PROVE  Reader(rQ)' \in PaintSafe(wire', sent')
        <3>1. PICK s : s = Reader(rQ)
            OBVIOUS
        <3>2. PICK m : m = Reader(q)
            OBVIOUS
        <3>3. PICK t : t = Reader(rQ)'
            OBVIOUS
        <3>4. /\ rQ \in Seq(Tokens) /\ FBU \in FBUs /\ Shown \in Displays /\ sent \in Nat
              /\ wire \in Seq(Tokens)
            BY <2>3 DEF StreamTypes
        <3>5. s \in PaintSafe(wire, sent) /\ s.q = rQ /\ s.d = Shown /\ s.fbu = FBU
            BY <2>3, <2>5, <3>1, <3>4, ReaderIs DEF PaintInv
        <3>6. m \in Readers /\ m.q = q /\ m.d = Shown /\ m.fbu = FBU
            BY <2>3, <3>2, ReaderIs
        <3>7. m \in PaintSafe(rest, sent)
            BY <3>5, <3>6, PaintSafeIf
        <3>8. t = [q |-> r.q, fbu |-> FBU, d |-> Shown, asks |-> FALSE, more |-> TRUE,
                   confused |-> FALSE]
            BY <2>1, <2>2, <3>3 DEF Reader
        <3>9. t \in Readers /\ t.q = r.q /\ t.d = m.d /\ t.fbu = m.fbu
            BY <1>3, <3>4, <3>6, <3>8 DEF Readers, FBUs
        <3>10. t \in PaintSafe(rest, sent)
            BY <1>1, <3>4, <3>6, <3>7, <3>9, TakesSafe DEF r
        <3> QED BY <2>1, <3>3, <3>10
    <2> QED BY <2>1, <2>2, <2>4, <2>5 DEF PaintInv
<1> QED BY <1>4, <1>5

\* normal_msg.
LEMMA PaintNormal ==
    ASSUME PaintInv, link # "closed",
           NEW q \in Seq(Tokens), NEW rest \in Seq(Tokens), q # <<>>, q \o rest = rQ \o wire,
           NEW running, Normal(q, running), wire' = rest, UNCHANGED <<sent, mixed>>
    PROVE  PaintInv'
<1>1. PICK m : m = Reader(q)
    OBVIOUS
<1>2. PICK s : s = NormalMsg(m)
    OBVIOUS
<1>3. StreamTypes
    BY DEF PaintInv
<1>4. m \in Readers /\ m.q = q /\ m.d = Shown /\ m.fbu = FBU
    BY <1>1, <1>3, ReaderIs
<1>5. s \in Readers
    BY <1>2, <1>4, NormalIs
<1>6. /\ rQ' = s.q /\ FBU' = s.fbu /\ renderQ' = s.d.queue /\ loading' = s.d.loading
      /\ canvas' = s.d.canvas /\ disorder' = s.d.disorder /\ link' = link
    BY <1>1, <1>2 DEF Normal
<1>7. Shown' = s.d
    BY <1>5, <1>6 DEF Shown, Readers, Displays
<1>8. s.q \in Seq(Tokens) /\ s.fbu \in FBUs /\ s.d \in Displays
    BY <1>5, ReaderHas
<1>9. StreamTypes'
    BY <1>3, <1>6, <1>7, <1>8 DEF StreamTypes
<1>10. ASSUME ~mixed PROVE ~disorder' /\ Reader(rQ)' \in PaintSafe(wire', sent')
    <2>1. PICK o : o = Reader(rQ)
        OBVIOUS
    <2>2. rQ \in Seq(Tokens) /\ sent \in Nat
        BY <1>3 DEF StreamTypes
    <2>3. o \in PaintSafe(wire, sent) /\ o.q = rQ /\ o.d = Shown /\ o.fbu = FBU
        BY <1>3, <1>10, <2>1, <2>2, ReaderIs DEF PaintInv
    <2>4. m \in PaintSafe(rest, sent)
        BY <1>4, <2>3, PaintSafeIf
    <2>5. s \in PaintSafe(rest, sent)
        BY <1>2, <1>4, <2>2, <2>4, NormalSafe
    <2>6. PICK t : t = Reader(rQ)'
        OBVIOUS
    <2>7. t = [q |-> s.q, fbu |-> s.fbu, d |-> s.d, asks |-> FALSE, more |-> TRUE,
               confused |-> FALSE]
        BY <1>6, <1>7, <2>6 DEF Reader
    <2>8. t \in Readers /\ t.q = s.q /\ t.fbu = s.fbu /\ t.d = s.d
        BY <1>5, <2>7 DEF Readers
    <2>9. t \in PaintSafe(rest, sent)
        BY <2>5, <2>8, PaintSafeIf
    <2>10. ~disorder'
        BY <1>6, <2>5 DEF PaintSafe, Ordered
    <2> QED BY <2>6, <2>9, <2>10
<1> QED BY <1>6, <1>9, <1>10 DEF PaintInv

\* Tokens of no rectangle.
Nameless == {t \in Tokens : t.v = ""}

\* The members of a concatenation.
LEMMA InConcat ==
    ASSUME NEW X, NEW p \in Seq(X), NEW q \in Seq(X), NEW i \in 1 .. Len(p \o q)
    PROVE  \/ \E k \in 1 .. Len(p) : (p \o q)[i] = p[k]
           \/ \E k \in 1 .. Len(q) : (p \o q)[i] = q[k]
<1>1. PICK x, y, c : x \in Nat /\ y \in Nat /\ x = Len(p) /\ y = Len(q) /\ c = p \o q
    BY LenProperties
<1>0. x \in Nat /\ y \in Nat
    BY <1>1
<1>2. Len(c) = x + y /\ \A k \in 1 .. x + y : c[k] = IF k <= x THEN p[k] ELSE q[k - x]
    BY <1>1, ConcatProperties
<1>3. \A k \in 1 .. x + y : (k <= x /\ k \in 1 .. x) \/ (~(k <= x) /\ k - x \in 1 .. y)
    BY <1>0
<1>4. i \in 1 .. x + y
    BY <1>1, <1>2
<1>5. CASE i <= x /\ i \in 1 .. x
    BY <1>1, <1>2, <1>4, <1>5
<1>6. CASE ~(i <= x) /\ i - x \in 1 .. y
    BY <1>1, <1>2, <1>4, <1>6
<1> QED BY <1>3, <1>4, <1>5, <1>6

\* They are those of its parts.
LEMMA ConcatHas ==
    ASSUME NEW X, NEW p \in Seq(X), NEW q \in Seq(X)
    PROVE  /\ \A k \in 1 .. Len(p) : p[k] \in Range(p \o q)
           /\ \A k \in 1 .. Len(q) : q[k] \in Range(p \o q)
<1>1. PICK x, y, c : x \in Nat /\ y \in Nat /\ x = Len(p) /\ y = Len(q) /\ c = p \o q
    BY LenProperties
<1>0. x \in Nat /\ y \in Nat
    BY <1>1
<1>2. /\ DOMAIN c = 1 .. x + y
      /\ \A k \in 1 .. x + y : c[k] = IF k <= x THEN p[k] ELSE q[k - x]
    BY <1>1, ConcatProperties, LenProperties
<1>3. /\ \A k \in 1 .. x : k \in 1 .. x + y /\ k <= x
      /\ \A k \in 1 .. y : k + x \in 1 .. x + y /\ ~(k + x <= x) /\ k + x - x = k
    BY <1>0
<1>4. /\ \A k \in 1 .. x : k \in DOMAIN c /\ c[k] = p[k]
      /\ \A k \in 1 .. y : k + x \in DOMAIN c /\ c[k + x] = q[k]
    BY <1>0, <1>2, <1>3
<1> QED BY <1>1, <1>4 DEF Range

\* Two cuts of one stream have the same tokens.
LEMMA SameTokens ==
    ASSUME NEW X, NEW p \in Seq(X), NEW q \in Seq(X), NEW i \in 1 .. Len(p \o q)
    PROVE  (p \o q)[i] \in Range(q \o p)
BY InConcat, ConcatHas

\* A token of the handshake.
LEMMA HandshakeIs ==
    ASSUME NEW k \in Kinds \ (Encodings \union {"rect"}), NEW n \in Nat
    PROVE  Token(k, "", n) \in Nameless
BY DEF Token, Nameless, Tokens

\* They disturb no order.
LEMMA NamelessSafe ==
    ASSUME NEW tokens \in Seq(Nameless), NEW num \in Nat, NEW queue
    PROVE  /\ tokens \in Seq(Tokens)
           /\ InOrder(tokens, num, num) /\ Clean(tokens, queue)
           /\ \A i \in 1 .. Len(tokens) : tokens[i].v = ""
<1>1. \A i \in 1 .. Len(tokens) : tokens[i] \in Nameless
    BY ElementOfSeq
<1>2. \A i \in 1 .. Len(tokens) : tokens[i].v = "" /\ tokens[i] \in Tokens
    BY <1>1 DEF Nameless
<1>3. "" \notin Direct
    BY DEF Direct
<1>4. tokens \in Seq(Tokens)
    <2>1. tokens \in [1 .. Len(tokens) -> Tokens] /\ Len(tokens) \in Nat
        BY <1>2, LenProperties
    <2> QED BY <2>1, SeqDef
<1> QED BY <1>2, <1>3, <1>4 DEF InOrder, Clean

\* What is sent besides rectangles.
Greetings == Kinds \ (Encodings \union {"rect"})

\* Sequences of such tokens.
LEMMA HandshakesAre ==
    /\ \A k \in Greetings : <<Handshake(k)>> \in Seq(Nameless)
    /\ \A k, l, m \in Greetings : <<Handshake(k), Handshake(l), Handshake(m)>> \in Seq(Nameless)
    /\ {"version", "scheme", "types", "challenge", "result", "refused", "serverinit",
        "FBU", "count", "BELL", "CUT", "length", "text", "COLOURS", "range", "colours"}
          \subseteq Greetings
<1>1. \A k \in Greetings : Handshake(k) \in Nameless
    BY HandshakeIs DEF Handshake, Greetings
<1>2. {"version", "scheme", "types", "challenge", "result", "refused", "serverinit",
        "FBU", "count", "BELL", "CUT", "length", "text", "COLOURS", "range", "colours"}
          \subseteq Greetings
    BY DEF Greetings, Kinds, Encodings, Direct, Queued, Quiet
<1> QED BY <1>1, <1>2

\* The server's answers.
LEMMA ReplyIs == \A m : Reply(m) \in Seq(Nameless)
<1> SUFFICES ASSUME NEW m PROVE Reply(m) \in Seq(Nameless)
    OBVIOUS
<1>1. <<>> \in Seq(Nameless)
    BY EmptySeq
<1>2. \A k \in {"scheme", "challenge", "types", "result", "serverinit"} :
         <<Handshake(k)>> \in Seq(Nameless)
    BY HandshakesAre
<1>3. <<Handshake("scheme")>> \o <<Handshake("challenge")>> \in Seq(Nameless)
    BY <1>2, ConcatProperties
<1>4. <<Handshake("scheme")>> \o <<>> \in Seq(Nameless)
    BY <1>1, <1>2, ConcatProperties
<1>5. CASE m = "version"
    <2>1. CASE server.version = "3.3"
        BY <1>3, <1>4, <1>5, <2>1 DEF Reply
    <2>2. CASE server.version # "3.3"
        BY <1>2, <1>5, <2>2 DEF Reply
    <2> QED BY <2>1, <2>2
<1>6. CASE m = "scheme"
    <2>1. CASE server.auth = "vnc"
        BY <1>2, <1>6, <2>1 DEF Reply
    <2>2. CASE server.auth = "none" /\ server.version = "3.8"
        BY <1>2, <1>6, <2>2 DEF Reply
    <2>3. CASE server.auth # "vnc" /\ ~(server.auth = "none" /\ server.version = "3.8")
        BY <1>1, <1>6, <2>3 DEF Reply
    <2> QED BY <2>1, <2>2, <2>3
<1>7. CASE m \notin {"version", "scheme"}
    BY <1>1, <1>2, <1>7 DEF Reply
<1> QED BY <1>5, <1>6, <1>7

\* Its other messages.
LEMMA NoticeIs ==
    ASSUME NEW m \in Notices
    PROVE  NoticeTokens(m) \in Seq(Nameless)
<1>1. m \in {"BELL", "CUT", "COLOURS"}
    BY StreamAssumption
<1> QED BY <1>1, HandshakesAre DEF NoticeTokens

\* What is sent besides rectangles.
LEMMA PaintGreets ==
    ASSUME PaintInv, link = "open" \/ (wire = <<>> /\ link = "connecting"), link' = "open",
           NEW tokens \in Seq(Nameless), wire' = wire \o tokens,
           UNCHANGED <<sent, mixed, rQ, FBU, drawVars>>
    PROVE  PaintInv'
<1>1. sent \in Nat
    BY DEF PaintInv, StreamTypes
<1>2. /\ tokens \in Seq(Tokens)
      /\ InOrder(tokens, sent, sent) /\ Clean(tokens, renderQ)
      /\ \A i \in 1 .. Len(tokens) : tokens[i].v \notin Direct
    BY <1>1, NamelessSafe DEF Direct
<1>3. sent' = sent /\ sent <= sent /\ mixed' = mixed
    BY <1>1
<1>4. Orderly(tokens, sent')
    BY <1>2, <1>3 DEF Orderly
<1> QED BY <1>1, <1>2, <1>3, <1>4, PaintSends

\* An update: without a mix, its direct pixels follow no image.
LEMMA PaintUpdates ==
    ASSUME PaintInv, ServerUpdates
    PROVE  PaintInv'
<1>1. PICK encs \in Updates :
        /\ Send(UpdateTokens(encs)) /\ sent' = Rects(encs).last
        /\ mixed' = (mixed \/ Mixes(encs))
    BY DEF ServerUpdates
<1>2. /\ link = "open" /\ link' = "open" /\ UNCHANGED <<rQ, FBU, drawVars>>
    BY DEF ServerUpdates, Ready, pageVars
<1>3. /\ rQ \in Seq(Tokens) /\ wire \in Seq(Tokens) /\ sent \in Nat
      /\ encs \in Seq(Encodings)
    BY UpdatesAssumption DEF PaintInv, StreamTypes
<1>4. Len(encs) \in Nat
    BY <1>3, LenProperties
<1> DEFINE h == <<Handshake("FBU"), Token("count", "", Len(encs))>>
<1> DEFINE r == Rects(encs).tokens
<1> DEFINE last == Rects(encs).last
<1>5. /\ last \in Nat /\ sent <= last /\ r \in Seq(Tokens) /\ InOrder(r, sent, last)
      /\ \A k \in 1 .. Len(r) : \E e \in 1 .. Len(encs) : r[k].v = encs[e]
      /\ DrawnFirst(encs, renderQ) => Clean(r, renderQ)
    BY <1>3, RectsSafe DEF Sendings
<1>6. h \in Seq(Nameless)
    <2>1. Handshake("FBU") \in Nameless /\ Token("count", "", Len(encs)) \in Nameless
        BY <1>4, HandshakeIs, HandshakesAre DEF Greetings, Handshake
    <2>2. \A a, b \in Nameless : <<a, b>> \in Seq(Nameless)
        OBVIOUS
    <2> QED BY <2>1, <2>2
<1>7. wire' = wire \o (h \o r)
    BY <1>1, <1>2 DEF Send, UpdateTokens
<1> HIDE DEF h, r, last
<1>8. /\ h \in Seq(Tokens) /\ InOrder(h, sent, sent) /\ Clean(h, renderQ)
      /\ \A i \in 1 .. Len(h) : h[i].v = ""
    BY <1>3, <1>6, NamelessSafe
<1>9. h \o r \in Seq(Tokens) /\ InOrder(h \o r, sent, last)
    <2>1. sent <= sent
        BY <1>3
    <2> QED BY <1>3, <1>5, <1>8, <2>1, ConcatProperties, InOrderConcat
<1>10. ASSUME ~mixed'
       PROVE  /\ DrawnFirst(encs, renderQ)
              /\ \A j \in 1 .. Len(encs) : encs[j] \in Direct =>
                    \A i \in 1 .. Len(rQ \o wire) : (rQ \o wire)[i].v # "IMAGE"
    <2>1. ~Mixes(encs)
        BY <1>1, <1>10
    <2>2. ASSUME NEW i \in 1 .. Len(rQ \o wire)
          PROVE  (rQ \o wire)[i] \in Range(wire \o rQ)
        BY <1>3, SameTokens
    <2> QED BY <2>1, <2>2 DEF Mixes, DrawnFirst
<1>11. ASSUME ~mixed'
       PROVE  /\ Clean(h \o r, renderQ)
              /\ \A j \in 1 .. Len(h \o r) : (h \o r)[j].v \in Direct =>
                    \A i \in 1 .. Len(rQ \o wire) : (rQ \o wire)[i].v # "IMAGE"
    <2>1. Clean(r, renderQ)
        BY <1>5, <1>10, <1>11
    <2>2. Clean(h \o r, renderQ)
        BY <1>5, <1>8, <2>1, CleanConcat
    <2>3. ASSUME NEW j \in 1 .. Len(h \o r), (h \o r)[j].v \in Direct
          PROVE  \E e \in 1 .. Len(encs) : encs[e] \in Direct
        <3>1. \/ \E k \in 1 .. Len(h) : (h \o r)[j] = h[k]
              \/ \E k \in 1 .. Len(r) : (h \o r)[j] = r[k]
            <4>1. \A p, q \in Seq(Tokens) : \A i \in 1 .. Len(p \o q) :
                     \/ \E k \in 1 .. Len(p) : (p \o q)[i] = p[k]
                     \/ \E k \in 1 .. Len(q) : (p \o q)[i] = q[k]
                BY InConcat
            <4> QED BY <1>5, <1>8, <4>1
        <3>2. CASE \E k \in 1 .. Len(h) : (h \o r)[j] = h[k]
            BY <1>8, <2>3, <3>2 DEF Direct
        <3>3. CASE \E k \in 1 .. Len(r) : (h \o r)[j] = r[k]
            <4>1. PICK k \in 1 .. Len(r) : (h \o r)[j] = r[k]
                BY <3>3
            <4> QED BY <1>5, <2>3, <4>1
        <3> QED BY <3>1, <3>2, <3>3
    <2> QED BY <1>10, <1>11, <2>2, <2>3
<1>12. sent' = last /\ (mixed => mixed')
    BY <1>1 DEF last
<1>13. PICK tokens \in Seq(Tokens) : tokens = h \o r
    BY <1>9
<1>14. /\ wire' = wire \o tokens /\ sent' \in Nat /\ sent <= sent'
       /\ ~mixed' => Orderly(tokens, sent')
    BY <1>5, <1>7, <1>9, <1>11, <1>12, <1>13 DEF Orderly
<1> QED BY <1>2, <1>12, <1>14, PaintSends

\* What the server does.
LEMMA PaintServer ==
    ASSUME PaintInv, ServerEvent
    PROVE  PaintInv'
<1>1. CASE ServerReads
    <2>1. /\ link = "open" /\ link' = "open" /\ UNCHANGED <<sent, mixed, rQ, FBU, drawVars>>
          /\ \/ Send(Reply(Head(said)))
             \/ Send(<<Handshake("refused")>>)
        BY <1>1 DEF ServerReads, pageVars
    <2>2. Reply(Head(said)) \in Seq(Nameless) /\ <<Handshake("refused")>> \in Seq(Nameless)
        BY ReplyIs, HandshakesAre
    <2>3. PICK tokens \in Seq(Nameless) : wire' = wire \o tokens
        BY <2>1, <2>2 DEF Send
    <2> QED BY <2>1, <2>3, PaintGreets
<1>2. CASE Draw
    <2>1. UNCHANGED <<rQ, wire, link, FBU, sent, mixed, drawVars>>
        BY <1>2 DEF Draw, linkVars, pageVars
    <2> QED BY <2>1, PaintFrame
<1>3. CASE ServerUpdates
    BY <1>3, PaintUpdates
<1>4. ASSUME NEW m \in Notices, Notice(m) PROVE PaintInv'
    <2>1. /\ link = "open" /\ link' = "open" /\ UNCHANGED <<sent, mixed, rQ, FBU, drawVars>>
          /\ wire' = wire \o NoticeTokens(m)
        BY <1>4 DEF Notice, Ready, Send, pageVars
    <2>2. PICK tokens \in Seq(Nameless) : wire' = wire \o tokens
        BY <2>1, NoticeIs
    <2> QED BY <2>1, <2>2, PaintGreets
<1> QED BY <1>1, <1>2, <1>3, <1>4 DEF ServerEvent

\* A frame arrives.
LEMMA PaintReceives ==
    ASSUME ConnInv, PaintInv, Receive
    PROVE  PaintInv'
<1>1. PICK n \in 1 .. Len(wire) : RecvMessage(n)
    BY DEF Receive
<1>2. link = "open"
    BY <1>1, EmptySeq DEF ConnInv
<1>3. UNCHANGED <<sent, mixed>>
    BY <1>1 DEF RecvMessage, serverVars
<1>4. rQ \in Seq(Tokens) /\ wire \in Seq(Tokens)
    BY DEF PaintInv, StreamTypes
<1>5. PICK q, rest : q = rQ \o SubSeq(wire, 1, n) /\ rest = SubSeq(wire, n + 1, Len(wire))
    OBVIOUS
<1>6. q \in Seq(Tokens) /\ q # <<>> /\ rest \in Seq(Tokens) /\ q \o rest = rQ \o wire
    <2>1. Cut(rQ, wire, n, q, rest)
        BY <1>5 DEF Cut
    <2> QED BY <1>4, <2>1, CutIs
<1>7. CASE rfb_state = "normal"
    <2>1. Normal(q, timers) /\ wire' = rest
        BY <1>1, <1>5, <1>7 DEF RecvMessage
    <2> QED BY <1>2, <1>3, <1>6, <2>1, PaintNormal
<1>8. CASE rfb_state # "normal"
    <2>1. /\ Initialised(InitMsg(q)) /\ (InitMsg(q).state # "failed" => wire' = rest)
          /\ UNCHANGED FBU
        BY <1>1, <1>5, <1>8 DEF RecvMessage
    <2>2. rfb_state \in InitStates
        BY <1>2, <1>8 DEF ConnInv, Phases
    <2> QED BY <1>3, <1>6, <2>1, <2>2, PaintInitialised
<1> QED BY <1>7, <1>8

\* The timers.
LEMMA PaintTimers ==
    ASSUME ConnInv, PaintInv, MsgTimer \/ InitTimer
    PROVE  PaintInv'
<1>1. rQ \in Seq(Tokens) /\ wire \in Seq(Tokens)
    BY DEF PaintInv, StreamTypes
<1>2. CASE MsgTimer
    <2>1. rfb_state = "normal" /\ wire' = wire /\ UNCHANGED <<sent, mixed>>
        BY <1>2 DEF MsgTimer, serverVars
    <2>2. link # "closed"
        BY <2>1 DEF ConnInv, Unconnected
    <2>3. CASE rQ # <<>>
        <3>1. Normal(rQ, timers \ {"msg"})
            BY <1>2, <2>3 DEF MsgTimer
        <3> QED BY <1>1, <2>1, <2>2, <2>3, <3>1, PaintNormal
    <2>4. CASE rQ = <<>>
        <3>1. UNCHANGED <<rQ, wire, link, FBU, sent, mixed, drawVars>>
            BY <1>2, <2>1, <2>4 DEF MsgTimer
        <3> QED BY <3>1, PaintFrame
    <2> QED BY <2>3, <2>4
<1>3. CASE InitTimer
    <2>1. UNCHANGED <<FBU, sent, mixed>>
        BY <1>3 DEF InitTimer, serverVars
    <2>2. CASE rfb_state \in InitStates
        <3>1. Initialised(InitMsg(rQ)) /\ (InitMsg(rQ).state # "failed" => wire' = wire)
            BY <1>3, <2>2 DEF InitTimer
        <3> QED BY <1>1, <2>1, <2>2, <3>1, PaintInitialised
    <2>3. CASE rfb_state \notin InitStates
        <3>1. UNCHANGED <<rQ, wire, link, FBU, sent, mixed, drawVars>>
            BY <1>3, <2>1, <2>3 DEF InitTimer
        <3> QED BY <3>1, PaintFrame
    <2> QED BY <2>2, <2>3
<1> QED BY <1>2, <1>3

\* The render queue.
LEMMA PaintAnimates ==
    ASSUME PaintInv, AnimFrame \/ \E n \in loading : ImageLoads(n)
    PROVE  PaintInv'
<1>1. StreamTypes /\ UNCHANGED <<rQ, wire, link, FBU, sent, mixed>>
    BY DEF PaintInv, AnimFrame, ImageLoads, serverVars, linkVars, pageVars
<1>2. rQ \in Seq(Tokens) /\ FBU \in FBUs /\ Shown \in Displays /\ sent \in Nat
    BY <1>1 DEF StreamTypes
<1>3. /\ Shown' \in Displays /\ (renderQ = <<>> => renderQ' = <<>>)
      /\ \A num \in Nat : Shown \in Ordered(num) => Shown' \in Ordered(num)
    <2>1. CASE AnimFrame
        <3>1. PICK d : d = Scan[Shown]
            OBVIOUS
        <3>2. d \in Displays /\ d.loading = loading
            BY <1>2, <3>1, ScanIs, ShownIs
        <3>3. Shown' = [queue |-> d.queue, loading |-> d.loading, canvas |-> d.canvas,
                        disorder |-> d.disorder]
            BY <2>1, <3>1, <3>2 DEF AnimFrame, Shown
        <3>4. Shown' = d
            BY <3>2, <3>3 DEF Displays
        <3>5. renderQ # <<>>
            BY <2>1 DEF AnimFrame
        <3> QED BY <3>1, <3>2, <3>4, <3>5, OrderedScan
    <2>2. ASSUME NEW n \in loading, ImageLoads(n)
          PROVE  /\ Shown' \in Displays /\ renderQ' = renderQ
                 /\ \A num \in Nat : Shown \in Ordered(num) => Shown' \in Ordered(num)
        <3>1. PICK d : d = Shown
            OBVIOUS
        <3>2. d \in Displays /\ d.queue = renderQ /\ d.loading = loading
            BY <1>2, <3>1, ShownIs
        <3>3. PICK e : e = Shown'
            OBVIOUS
        <3>4. e = [queue |-> d.queue, loading |-> d.loading \ {n}, canvas |-> d.canvas,
                   disorder |-> d.disorder]
            BY <2>2, <3>1, <3>3 DEF ImageLoads, Shown
        <3>5. /\ e \in Displays /\ e.queue = d.queue /\ e.loading \subseteq d.loading
              /\ e.canvas = d.canvas /\ e.disorder = d.disorder
            BY <3>2, <3>4 DEF Displays
        <3>6. \A num \in Nat : d \in Ordered(num) => e \in Ordered(num)
            BY <3>5 DEF Ordered
        <3> QED BY <2>2, <3>1, <3>3, <3>5, <3>6 DEF ImageLoads
    <2> QED BY <2>1, <2>2
<1>4. StreamTypes'
    BY <1>1, <1>3 DEF StreamTypes
<1>5. ASSUME ~mixed, link # "closed"
      PROVE  ~disorder' /\ Reader(rQ)' \in PaintSafe(wire', sent')
    <2>1. PICK s : s = Reader(rQ)
        OBVIOUS
    <2>2. PICK t : t = Reader(rQ)'
        OBVIOUS
    <2>3. s \in PaintSafe(wire, sent) /\ s.q = rQ /\ s.d = Shown /\ s.fbu = FBU
        BY <1>1, <1>2, <1>5, <2>1, ReaderIs DEF PaintInv
    <2>4. t = [q |-> rQ, fbu |-> FBU, d |-> Shown', asks |-> FALSE, more |-> TRUE,
               confused |-> FALSE]
        BY <1>1, <2>2 DEF Reader
    <2>5. t \in Readers /\ t.q = rQ /\ t.d = Shown' /\ t.fbu = FBU
        BY <1>2, <1>3, <2>4 DEF Readers, FBUs
    <2>6. FBU.num \in Nat /\ Shown \in Ordered(FBU.num) /\ FBU.num <= sent
          /\ InOrder(rQ \o wire, FBU.num, sent) /\ Clean(rQ \o wire, renderQ)
        BY <1>2, <2>3, ShownIs DEF PaintSafe, FBUs
    <2>7. Shown' \in Ordered(FBU.num)
        BY <1>3, <2>6
    <2>8. Clean(rQ \o wire, renderQ')
        <3>1. CASE renderQ = <<>>
            BY <1>3, <2>6, <3>1
        <3>2. CASE renderQ # <<>>
            BY <2>6, <3>2 DEF Clean
        <3> QED BY <3>1, <3>2
    <2>9. Shown'.queue = renderQ' /\ Shown'.disorder = disorder'
        BY DEF Shown
    <2>10. ~disorder'
        BY <2>7, <2>9 DEF Ordered
    <2>11. t \in PaintSafe(wire, sent)
        BY <2>5, <2>6, <2>7, <2>8, <2>9 DEF PaintSafe
    <2> QED BY <1>1, <2>2, <2>10, <2>11
<1>6. ASSUME ~mixed, link = "closed" PROVE ~disorder'
    <2>1. renderQ = <<>> /\ ~disorder
        BY <1>1, <1>6 DEF PaintInv, StreamTypes
    <2> QED BY <2>1 DEF AnimFrame, ImageLoads
<1> QED BY <1>1, <1>4, <1>5, <1>6 DEF PaintInv

\* What the page does.
LEMMA PaintPage ==
    ASSUME ConnInv, PaintInv, PageEvent
    PROVE  PaintInv'
<1>1. CASE OnOpen
    <2>1. /\ link = "connecting" /\ wire = <<>> /\ link' = "open"
          /\ wire' = <<Handshake("version")>>
          /\ UNCHANGED <<sent, mixed, rQ, FBU, drawVars>>
        BY <1>1 DEF OnOpen, ConnInv, serverVars
    <2>2. <<Handshake("version")>> \in Seq(Nameless)
        BY HandshakesAre
    <2>3. wire' = wire \o <<Handshake("version")>>
        BY <2>1, <2>2, ConcatEmptySeq
    <2> QED BY <2>1, <2>2, <2>3, PaintGreets
<1>2. CASE Drop \/ ConnectTimeout
    <2>1. rQ \in Seq(Tokens)
        BY DEF PaintInv, StreamTypes
    <2>2. Fail /\ UNCHANGED <<rQ, FBU, sent, mixed, loading, canvas, disorder>>
        BY <1>2 DEF Drop, OnClose, ConnectTimeout, serverVars
    <2> QED BY <2>1, <2>2, PaintFails
<1>3. CASE FailedTimer \/ SendPassword \/ Flush
    <2>1. UNCHANGED <<rQ, wire, link, FBU, sent, mixed, drawVars>>
        BY <1>3 DEF FailedTimer, SendPassword, Flush, serverVars, linkVars, pageVars
    <2> QED BY <2>1, PaintFrame
<1> QED
    BY <1>1, <1>2, <1>3, PaintReceives, PaintTimers, PaintAnimates DEF PageEvent

\* Every step.
LEMMA PaintStep ==
    ASSUME ConnInv, PaintInv, [Next]_vars
    PROVE  PaintInv'
<1>1. CASE UserEvent \/ MouseMove \/ AskTimer \/ CheckEvents \/ UNCHANGED vars
    <2>1. UNCHANGED <<rQ, wire, link, FBU, sent, mixed, drawVars>>
        BY <1>1 DEF UserEvent, MouseMove, AskTimer, CheckEvents, vars, streamVars, serverVars,
                    linkVars, pageVars, Rest
    <2> QED BY <2>1, PaintFrame
<1> QED BY <1>1, PaintPage, PaintServer DEF Next

\* At first.
LEMMA PaintStarts == ASSUME Init PROVE PaintInv
<1>1. /\ rQ = <<>> /\ wire = <<>> /\ FBU = NoUpdate /\ sent = 0 /\ renderQ = <<>>
      /\ loading = {} /\ canvas = 0 /\ disorder = FALSE /\ link = "connecting"
    BY DEF Init, StreamInit
<1>2. /\ FBU \in FBUs /\ FBU.num = 0
    BY <1>1 DEF NoUpdate, FBUs, Encodings, Direct
<1>3. PICK d : d = Shown
    OBVIOUS
<1>4. /\ d \in Displays /\ d.queue = <<>> /\ d.loading = {} /\ d.canvas = 0 /\ ~d.disorder
    <2>1. d = [queue |-> <<>>, loading |-> {}, canvas |-> 0, disorder |-> FALSE]
        BY <1>1, <1>3 DEF Shown
    <2>2. <<>> \in Seq(Nat)
        BY EmptySeq
    <2> QED BY <2>1, <2>2 DEF Displays
<1>5. d \in Ordered(0)
    BY <1>4, EmptySeq DEF Ordered
<1>6. <<>> \in Seq(Tokens) /\ <<>> \o <<>> = <<>> /\ Len(<<>>) = 0
    BY EmptySeq, ConcatEmptySeq
<1>7. StreamTypes
    BY <1>1, <1>2, <1>3, <1>4, <1>6 DEF StreamTypes
<1>8. PICK s : s = Reader(rQ)
    OBVIOUS
<1>9. s \in Readers /\ s.q = rQ /\ s.d = d /\ s.fbu = FBU
    BY <1>1, <1>3, <1>6, <1>7, <1>8, ReaderIs
<1>10. s \in PaintSafe(<<>>, 0)
    <2>1. s.q \o <<>> = <<>> /\ s.d.queue = <<>> /\ s.fbu.num = 0 /\ s.d \in Ordered(0)
        BY <1>1, <1>2, <1>4, <1>5, <1>6, <1>9
    <2>2. InOrder(<<>>, 0, 0) /\ Clean(<<>>, <<>>)
        BY <1>6 DEF InOrder, Clean
    <2> QED BY <1>9, <2>1, <2>2 DEF PaintSafe
<1> QED BY <1>1, <1>7, <1>8, <1>10 DEF PaintInv

\* Always.
LEMMA PaintHolds == Spec => []PaintInv
<1>1. Init => PaintInv
    BY PaintStarts
<1>2. ConnInv /\ PaintInv /\ [Next]_vars => PaintInv'
    BY PaintStep
<1> QED BY <1>1, <1>2, ConnHolds, PTL DEF Spec

\* PaintedInOrder for every server that keeps to the protocol, however its bytes
\* are cut into frames and whenever its images are complete.
THEOREM PaintsInOrder == Spec => []PaintedInOrder
<1>1. PaintInv => PaintedInOrder
    BY DEF PaintInv, PaintedInOrder
<1> QED BY <1>1, PaintHolds, PTL

(***************************************************************************)
(* The grammar of the protocol: where in a message a reader is.            *)
(***************************************************************************)
Spots == {g \in [at : {"message", "count", "length", "text", "range", "colours", "rect",
                       "part", "lost"}, rects : Nat, enc : Encodings, left : Nat] :
            /\ g.at \in {"rect", "part"} => g.rects # 0
            /\ g.at = "part" => g.left # 0}

Spot(at) == [at |-> at, rects |-> 0, enc |-> "RAW", left |-> 0]

Message == Spot("message")

Lost == Spot("lost")

Between(r) == IF r = 0 THEN Message
                       ELSE [at |-> "rect", rects |-> r, enc |-> "RAW", left |-> 0]

Within(r, enc, l) == IF l = 0 THEN Between(r - 1)
                              ELSE [at |-> "part", rects |-> r, enc |-> enc, left |-> l]

\* Where it is after token t.
Onto(a, t) ==
    IF a.at = "message"
      THEN IF t.k = "BELL" THEN Message
           ELSE IF t.k = "FBU" THEN Spot("count")
           ELSE IF t.k = "CUT" THEN Spot("length")
           ELSE IF t.k = "COLOURS" THEN Spot("range") ELSE Lost
    ELSE IF a.at = "rect"
      THEN IF t.k = "rect" /\ (t.v = "last_rect" => a.rects = 1)
             THEN Within(a.rects, t.v, Parts(t.v)) ELSE Lost
    ELSE IF a.at = "part"
      THEN IF t.k = a.enc THEN Within(a.rects, a.enc, a.left - 1) ELSE Lost
    ELSE IF t.k # a.at THEN Lost
    ELSE IF a.at = "count" THEN Between(t.n)
    ELSE IF a.at = "length" THEN Spot("text")
    ELSE IF a.at = "range" THEN Spot("colours")
    ELSE IF a.at = "lost" THEN Lost
    ELSE Message

\* Where it is after a sequence of tokens.
Reading[p \in Spots \X Seq(Tokens)] ==
    IF p[2] = <<>> THEN p[1] ELSE Reading[<<Onto(p[1], Head(p[2])), Tail(p[2])>>]

Read(a, s) == Reading[<<a, s>>]

\* The spots that are named below.
LEMMA SpotsAre ==
    /\ \A at \in {"message", "count", "length", "text", "range", "colours", "lost"} :
          Spot(at) \in Spots /\ Spot(at).at = at
    /\ Message \in Spots /\ Lost \in Spots /\ Message # Lost
    /\ \A r \in Nat : Between(r) \in Spots
    /\ \A r \in Nat \ {0}, enc \in Encodings, l \in Nat : Within(r, enc, l) \in Spots
<1>1. "RAW" \in Encodings
    BY DEF Encodings, Direct
<1>2. \A at \in {"message", "count", "length", "text", "range", "colours", "lost"} :
          Spot(at) \in Spots /\ Spot(at).at = at
    BY <1>1 DEF Spot, Spots
<1>3. Message \in Spots /\ Lost \in Spots
    BY <1>2 DEF Message, Lost
<1>4. Message # Lost
    BY DEF Message, Lost, Spot
<1>5. \A r \in Nat : Between(r) \in Spots
    BY <1>1, <1>3 DEF Between, Spots
<1>6. ASSUME NEW r \in Nat \ {0}, NEW enc \in Encodings, NEW l \in Nat
      PROVE  Within(r, enc, l) \in Spots
    <2>1. CASE l = 0
        BY <1>5, <2>1 DEF Within
    <2>2. CASE l # 0
        BY <2>2 DEF Within, Spots
    <2> QED BY <2>1, <2>2
<1> QED BY <1>2, <1>3, <1>4, <1>5, <1>6

\* A token leads from spot to spot.
LEMMA OntoIs ==
    ASSUME NEW a \in Spots, NEW t \in Tokens
    PROVE  Onto(a, t) \in Spots
<1>1. /\ a.rects \in Nat /\ a.left \in Nat /\ a.enc \in Encodings
      /\ a.at \in {"rect", "part"} => a.rects # 0
      /\ a.at = "part" => a.left - 1 \in Nat
    BY DEF Spots
<1>2. /\ t.n \in Nat
      /\ t.k = "rect" => t.v \in Encodings
    BY DEF Tokens
<1>3. \A at \in {"message", "count", "length", "text", "range", "colours", "lost"} :
          Spot(at) \in Spots
    BY SpotsAre
<1>4. Message \in Spots /\ Lost \in Spots
    BY SpotsAre
<1>5. CASE a.at = "message"
    BY <1>3, <1>4, <1>5 DEF Onto
<1>6. CASE a.at = "rect"
    <2>1. t.k = "rect" => Within(a.rects, t.v, Parts(t.v)) \in Spots
        BY <1>1, <1>2, <1>6, PartsIs, SpotsAre
    <2> QED BY <1>4, <1>6, <2>1 DEF Onto
<1>7. CASE a.at = "part"
    <2>1. Within(a.rects, a.enc, a.left - 1) \in Spots
        BY <1>1, <1>7, SpotsAre
    <2> QED BY <1>4, <1>7, <2>1 DEF Onto
<1>8. CASE a.at \notin {"message", "rect", "part"}
    <2>1. Between(t.n) \in Spots
        BY <1>2, SpotsAre
    <2> QED BY <1>3, <1>4, <1>8, <2>1 DEF Onto
<1> QED BY <1>5, <1>6, <1>7, <1>8

Readings == Spots \X Seq(Tokens)

Finished == {p \in Readings : p[2] = <<>>}

Moved == [p \in Readings |->
            IF p \in Finished THEN p ELSE <<Onto(p[1], Head(p[2])), Tail(p[2])>>]

LengthOf == [p \in Readings |-> Len(p[2])]

SpotOf == [p \in Readings |-> p[1]]

\* A reading ends: every turn takes a token.
LEMMA ReadingShrinks == Shrinks(Readings, Finished, Moved, LengthOf)
<1>1. ASSUME NEW p \in Readings, p \notin Finished
      PROVE  /\ <<Onto(p[1], Head(p[2])), Tail(p[2])>> \in Readings
             /\ Len(Tail(p[2])) < Len(p[2])
    <2>1. p[1] \in Spots /\ p[2] \in Seq(Tokens) /\ p[2] # <<>>
        BY <1>1 DEF Readings, Finished
    <2>2. /\ Head(p[2]) \in Tokens /\ Tail(p[2]) \in Seq(Tokens)
          /\ Len(Tail(p[2])) = Len(p[2]) - 1 /\ Len(p[2]) \in Nat
        BY <2>1, HeadTailProperties, LenProperties
    <2>3. Onto(p[1], Head(p[2])) \in Spots
        BY <2>1, <2>2, OntoIs
    <2>4. <<Onto(p[1], Head(p[2])), Tail(p[2])>> \in Readings
        BY <2>2, <2>3 DEF Readings
    <2>5. \A m, n \in Nat : m = n - 1 => m < n
        OBVIOUS
    <2>6. Len(Tail(p[2])) \in Nat
        BY <2>2, LenProperties
    <2> QED BY <2>2, <2>4, <2>5, <2>6
<1>2. \A p \in Readings : Len(p[2]) \in Nat
    BY LenProperties DEF Readings
<1>3. \A p \in Readings : Moved[p] \in Readings
    BY <1>1 DEF Moved
<1> QED BY <1>1, <1>2, <1>3 DEF Shrinks, Moved, LengthOf

\* Reading as a loop of the general form.
LEMMA ReadingComputes == Computes(Reading, Readings, Finished, Moved, SpotOf)
<1>1. Returns(Readings, Spots, SpotOf)
    BY DEF Returns, SpotOf, Readings
<1>2. PICK f : f = [p \in Readings |-> IF p \in Finished THEN SpotOf[p] ELSE f[Moved[p]]]
    BY <1>1, ReadingShrinks, Loop
<1>3. f = [p \in Readings |-> IF p[2] = <<>> THEN p[1]
                              ELSE f[<<Onto(p[1], Head(p[2])), Tail(p[2])>>]]
    <2>1. f = [p \in Readings |-> f[p]]
        BY <1>2
    <2>2. ASSUME NEW p \in Readings
          PROVE  f[p] = IF p[2] = <<>> THEN p[1]
                        ELSE f[<<Onto(p[1], Head(p[2])), Tail(p[2])>>]
        BY <1>2 DEF Finished, SpotOf, Moved
    <2> QED BY <2>1, <2>2
<1>4. Reading = [p \in Readings |-> IF p[2] = <<>> THEN p[1]
                              ELSE Reading[<<Onto(p[1], Head(p[2])), Tail(p[2])>>]]
    BY <1>3 DEF Reading, Readings
<1>5. ASSUME NEW p \in Readings
      PROVE  Reading[p] = IF p \in Finished THEN SpotOf[p] ELSE Reading[Moved[p]]
    BY <1>4 DEF Finished, SpotOf, Moved
<1> QED BY <1>5 DEF Computes

\* What is read next leads on.
LEMMA ReadNext ==
    ASSUME NEW a \in Spots, NEW s \in Seq(Tokens)
    PROVE  /\ Read(a, s) \in Spots
           /\ s = <<>> => Read(a, s) = a
           /\ s # <<>> => /\ Onto(a, Head(s)) \in Spots /\ Tail(s) \in Seq(Tokens)
                          /\ Read(a, s) = Read(Onto(a, Head(s)), Tail(s))
<1> DEFINE p == <<a, s>>
<1>1. p \in Readings /\ p[1] = a /\ p[2] = s
    BY DEF Readings
<1> HIDE DEF p
<1>2. Reading[p] = IF p \in Finished THEN SpotOf[p] ELSE Reading[Moved[p]]
    BY <1>1, ReadingComputes DEF Computes
<1>3. s = <<>> => Read(a, s) = a
    BY <1>1, <1>2 DEF Read, p, Finished, SpotOf
<1>4. s # <<>> => Read(a, s) = Read(Onto(a, Head(s)), Tail(s))
    BY <1>1, <1>2 DEF Read, p, Finished, Moved
<1>5. s # <<>> => Onto(a, Head(s)) \in Spots /\ Tail(s) \in Seq(Tokens)
    BY HeadTailProperties, OntoIs
<1>6. Read(a, s) \in Spots
    <2>1. Kept(Readings, Readings, Finished, Moved)
        BY ReadingShrinks DEF Kept, Shrinks
    <2>2. PICK t \in Readings : Reading[p] = SpotOf[t]
        BY <1>1, <2>1, ReadingShrinks, ReadingComputes, LoopEnds
    <2> QED BY <2>2 DEF Read, p, SpotOf, Readings
<1> QED BY <1>3, <1>4, <1>5, <1>6

\* Who is lost does not find back.
LEMMA LostForGood ==
    ASSUME NEW s \in Seq(Tokens)
    PROVE  Read(Lost, s) = Lost
<1> DEFINE I == {p \in Readings : p[1] = Lost}
<1>1. Kept(I, Readings, Finished, Moved)
    <2>1. ASSUME NEW p \in I, p \notin Finished PROVE Moved[p] \in I
        <3>1. p \in Readings /\ p[1] = Lost /\ Moved[p] \in Readings
            BY ReadingShrinks DEF Shrinks
        <3>2. Lost.at = "lost"
            BY DEF Lost, Spot
        <3>3. Moved[p][1] = Onto(Lost, Head(p[2]))
            BY <2>1, <3>1 DEF Moved
        <3>4. Onto(Lost, Head(p[2])) = Lost
            BY <3>2 DEF Onto
        <3> QED BY <3>1, <3>3, <3>4
    <2> QED BY <2>1 DEF Kept
<1>2. <<Lost, s>> \in I
    BY SpotsAre DEF Readings
<1> HIDE DEF I
<1>3. PICK t \in I : t \in Finished /\ Reading[<<Lost, s>>] = SpotOf[t]
    BY <1>1, <1>2, ReadingShrinks, ReadingComputes, LoopEnds
<1> QED BY <1>3 DEF I, Read, SpotOf

\* A sequence is read as its parts are, one after the other.
LEMMA ReadConcat ==
    ASSUME NEW a \in Spots, NEW s \in Seq(Tokens), NEW t \in Seq(Tokens)
    PROVE  Read(a, s \o t) = Read(Read(a, s), t)
<1>1. PICK c : c = Read(a, s \o t)
    OBVIOUS
<1> DEFINE I == {p \in Readings : Read(p[1], p[2] \o t) = c}
<1>2. Kept(I, Readings, Finished, Moved)
    <2>1. ASSUME NEW p \in I, p \notin Finished PROVE Moved[p] \in I
        <3>1. PICK b, u : b = p[1] /\ u = p[2]
            OBVIOUS
        <3>2. /\ p \in Readings /\ b \in Spots /\ u \in Seq(Tokens) /\ u # <<>>
              /\ Read(b, u \o t) = c
            BY <2>1, <3>1 DEF Readings, Finished
        <3>3. /\ u \o t \in Seq(Tokens) /\ u \o t # <<>>
              /\ Head(u \o t) = Head(u) /\ Tail(u \o t) = Tail(u) \o t
            BY <3>2, StreamTail
        <3>4. PICK w : w = u \o t
            OBVIOUS
        <3>5. Read(b, w) = Read(Onto(b, Head(w)), Tail(w))
            BY <3>2, <3>3, <3>4, ReadNext
        <3>6. Read(b, u \o t) = Read(Onto(b, Head(u)), Tail(u) \o t)
            BY <3>3, <3>4, <3>5
        <3>7. Moved[p] \in Readings
            BY <3>2, ReadingShrinks DEF Shrinks
        <3>8. Moved[p] = <<Onto(b, Head(u)), Tail(u)>>
            BY <2>1, <3>1, <3>2 DEF Moved
        <3>9. Moved[p][1] = Onto(b, Head(u)) /\ Moved[p][2] = Tail(u)
            BY <3>8
        <3> QED BY <3>2, <3>6, <3>7, <3>9
    <2> QED BY <2>1 DEF Kept
<1>3. <<a, s>> \in I
    BY <1>1 DEF Readings
<1> HIDE DEF I
<1>4. PICK e \in I : e \in Finished /\ Reading[<<a, s>>] = SpotOf[e]
    BY <1>2, <1>3, ReadingShrinks, ReadingComputes, LoopEnds
<1>5. e \in Readings /\ e[2] = <<>> /\ e[1] = Read(a, s) /\ Read(e[1], e[2] \o t) = c
    BY <1>4 DEF I, Read, SpotOf, Finished
<1>6. <<>> \o t = t
    BY ConcatEmptySeq
<1> QED BY <1>1, <1>5, <1>6

\* Sequences that are written out.
LEMMA OneIs ==
    ASSUME NEW X, NEW x \in X
    PROVE  /\ <<x>> \in Seq(X) /\ Len(<<x>>) = 1 /\ <<x>> # <<>> /\ <<x>>[1] = x
           /\ Head(<<x>>) = x /\ Tail(<<x>>) = <<>>
<1>1. <<x>> \in Seq(X) 
    OBVIOUS
<1>2. Len(<<x>>) = 1 /\ <<x>> # <<>> /\ <<x>>[1] = x /\ Head(<<x>>) = x
    OBVIOUS
<1>3. Tail(<<x>>) = <<>>
    OBVIOUS
<1> QED BY <1>1, <1>2, <1>3

\* A pair is two sequences of one token,
LEMMA TwoAre ==
    ASSUME NEW X, NEW x \in X, NEW y \in X
    PROVE  <<x, y>> = <<x>> \o <<y>>
<1>1. PICK p, q, r : p = <<x>> /\ q = <<y>> /\ r = <<x, y>>
    OBVIOUS
<1>2. /\ p \in Seq(X) /\ Len(p) = 1 /\ p[1] = x
      /\ q \in Seq(X) /\ Len(q) = 1 /\ q[1] = y
    BY <1>1
<1>3. r \in Seq(X) /\ Len(r) = 2 /\ r[1] = x /\ r[2] = y
    BY <1>1
<1>4. p \o q \in Seq(X) /\ Len(p \o q) = 2 /\ (p \o q)[1] = x /\ (p \o q)[2] = y
    <2>1. /\ p \o q \in Seq(X) /\ Len(p \o q) = 1 + 1
          /\ \A i \in 1 .. 1 + 1 : (p \o q)[i] = IF i <= 1 THEN p[i] ELSE q[i - 1]
        BY <1>2, ConcatProperties
    <2>2. 1 \in 1 .. 1 + 1 /\ 2 \in 1 .. 1 + 1 /\ 1 <= 1 /\ ~(2 <= 1) /\ 2 - 1 = 1
        OBVIOUS
    <2>3. (p \o q)[1] = p[1] /\ (p \o q)[2] = q[1]
        BY <2>1, <2>2
    <2> QED BY <1>2, <2>1, <2>3
<1>5. \A i \in 1 .. 2 : (p \o q)[i] = r[i]
    BY <1>3, <1>4
<1>6. p \o q = r
    BY <1>3, <1>4, <1>5, SeqEqual
<1> QED BY <1>1, <1>6

\* and a triple is three.
LEMMA ThreeAre ==
    ASSUME NEW X, NEW x \in X, NEW y \in X, NEW z \in X
    PROVE  <<x, y, z>> = <<x>> \o (<<y>> \o <<z>>)
<1>1. <<y, z>> = <<y>> \o <<z>>
    BY TwoAre
<1>2. <<x, y, z>> = <<x>> \o <<y, z>>
    OBVIOUS
<1> QED BY <1>1, <1>2

\* One token is read, and then others.
LEMMA ReadOne ==
    ASSUME NEW a \in Spots, NEW t \in Tokens
    PROVE  /\ Onto(a, t) \in Spots
           /\ Read(a, <<t>>) = Onto(a, t)
           /\ \A s \in Seq(Tokens) : Read(a, <<t>> \o s) = Read(Onto(a, t), s)
<1>1. PICK o, e : o = <<t>> /\ e = <<>>
    OBVIOUS
<1>2. /\ o \in Seq(Tokens) /\ e \in Seq(Tokens) /\ o # e
      /\ Head(o) = t /\ Tail(o) = e
    BY <1>1, OneIs, EmptySeq
<1>3. /\ \A b \in Spots : Read(b, e) = b
      /\ Read(a, o) = Read(Onto(a, Head(o)), Tail(o)) /\ Onto(a, Head(o)) \in Spots
    <2>1. o # <<>>
        BY <1>1, <1>2
    <2>2. \A b \in Spots : Read(b, e) = b
        BY <1>1, <1>2, ReadNext
    <2> QED BY <1>2, <2>1, <2>2, ReadNext
<1>4. Read(a, o) = Onto(a, t) /\ Onto(a, t) \in Spots
    BY <1>2, <1>3
<1>5. \A s \in Seq(Tokens) : Read(a, o \o s) = Read(Read(a, o), s)
    BY <1>2, ReadConcat
<1> QED BY <1>1, <1>4, <1>5

\* Tokens of no rectangle, or of one.
LEMMA TokensAre ==
    /\ \A k \in Greetings, n \in Nat :
          Token(k, "", n) \in Tokens /\ Token(k, "", n).k = k /\ Token(k, "", n).n = n
    /\ \A k \in Greetings : Handshake(k) \in Tokens /\ Handshake(k).k = k
    /\ \A enc \in Encodings, n \in Nat :
          /\ Token("rect", enc, n) \in Tokens /\ Token("rect", enc, n).k = "rect"
          /\ Token("rect", enc, n).v = enc
          /\ Token(enc, enc, n) \in Tokens /\ Token(enc, enc, n).k = enc
<1>1. \A k \in Greetings, n \in Nat :
          Token(k, "", n) \in Tokens /\ Token(k, "", n).k = k /\ Token(k, "", n).n = n
    BY HandshakeIs DEF Greetings, Token, Nameless
<1>2. ASSUME NEW enc \in Encodings, NEW n \in Nat
      PROVE  /\ Token("rect", enc, n) \in Tokens /\ Token("rect", enc, n).k = "rect"
             /\ Token("rect", enc, n).v = enc
             /\ Token(enc, enc, n) \in Tokens /\ Token(enc, enc, n).k = enc
    <2>1. Token("rect", enc, n) \in Tokens
        BY DEF Token, Tokens, Kinds, Encodings, Direct, Queued, Quiet
    <2>2. enc \in Kinds /\ enc # "rect"
        BY DEF Kinds, Encodings, Direct, Queued, Quiet
    <2>3. Token(enc, enc, n) \in Tokens
        BY <2>2 DEF Token, Tokens
    <2> QED BY <2>1, <2>3 DEF Token
<1> QED BY <1>1, <1>2 DEF Handshake

\* A rectangle with its parts, between two of an update.
LEMMA RectRead ==
    ASSUME NEW enc \in Encodings, NEW n \in Nat, NEW r \in Nat \ {0},
           enc = "last_rect" => r = 1
    PROVE  Read(Between(r), RectTokens(enc, n)) = Between(r - 1)
<1>1. PICK h, x : h = Token("rect", enc, n) /\ x = Token(enc, enc, n)
    OBVIOUS
<1>2. PICK p : p = [i \in 1 .. Parts(enc) |-> x]
    OBVIOUS
<1>3. /\ h \in Tokens /\ h.k = "rect" /\ h.v = enc
      /\ x \in Tokens /\ x.k = enc
    BY <1>1, TokensAre
<1>4. RectTokens(enc, n) = <<h>> \o p
    BY <1>1, <1>2 DEF RectTokens
<1>5. Parts(enc) \in {0, 1, 2}
    BY PartsIs
<1>6. p \in Seq(Tokens)
    BY <1>2, <1>3, <1>5
<1>7. Between(r) \in Spots /\ \A l \in Nat : Within(r, enc, l) \in Spots
    BY SpotsAre
<1>8. Onto(Between(r), h) = Within(r, enc, Parts(enc))
    BY <1>3 DEF Onto, Between
<1>9. \A l \in Nat : Onto(Within(r, enc, l + 1), x) = Within(r, enc, l)
    <2> SUFFICES ASSUME NEW l \in Nat PROVE Onto(Within(r, enc, l + 1), x) = Within(r, enc, l)
        OBVIOUS
    <2>1. Within(r, enc, l + 1) = [at |-> "part", rects |-> r, enc |-> enc, left |-> l + 1]
        BY DEF Within
    <2>2. (l + 1) - 1 = l
        OBVIOUS
    <2> QED BY <1>3, <2>1, <2>2 DEF Onto
<1>10. Read(Between(r), <<h>> \o p) = Read(Within(r, enc, Parts(enc)), p)
    BY <1>3, <1>6, <1>7, <1>8, ReadOne
<1>11. Read(Within(r, enc, Parts(enc)), p) = Within(r, enc, 0)
    <2>1. CASE Parts(enc) = 0
        <3>1. p = <<>>
            BY <1>2, <2>1
        <3>2. Within(r, enc, Parts(enc)) \in Spots
            BY <1>5, <1>7
        <3>3. Read(Within(r, enc, Parts(enc)), p) = Within(r, enc, Parts(enc))
            BY <1>6, <3>1, <3>2, ReadNext
        <3> QED BY <2>1, <3>3
    <2>2. CASE Parts(enc) = 1
        <3>1. p = <<x>>
            BY <1>2, <2>2, SeqEqual
        <3>2. Onto(Within(r, enc, 1), x) = Within(r, enc, 0)
            BY <1>9
        <3>3. Within(r, enc, 1) \in Spots
            BY <1>7
        <3>4. Read(Within(r, enc, 1), <<x>>) = Within(r, enc, 0)
            BY <1>3, <3>2, <3>3, ReadOne
        <3> QED BY <2>2, <3>1, <3>4
    <2>3. CASE Parts(enc) = 2
        <3>1. PICK o : o = <<x>>
            OBVIOUS
        <3>2. o \in Seq(Tokens) /\ p = <<x>> \o o
            <4>1. p = <<x, x>>
                BY <1>2, <2>3
            <4> QED BY <1>3, <3>1, <4>1, OneIs, TwoAre
        <3>3. Onto(Within(r, enc, 1), x) = Within(r, enc, 0)
            BY <1>9
        <3>4. Onto(Within(r, enc, 2), x) = Within(r, enc, 1)
            BY <1>9
        <3>5. Read(Within(r, enc, 2), <<x>> \o o) = Read(Within(r, enc, 1), o)
            BY <1>3, <1>7, <3>2, <3>4, ReadOne
        <3>6. Within(r, enc, 1) \in Spots
            BY <1>7
        <3>7. Read(Within(r, enc, 1), <<x>>) = Within(r, enc, 0)
            BY <1>3, <3>3, <3>6, ReadOne
        <3> QED BY <2>3, <3>1, <3>2, <3>5, <3>7
    <2> QED BY <1>5, <2>1, <2>2, <2>3
<1>12. Within(r, enc, 0) = Between(r - 1)
    BY DEF Within
<1> QED BY <1>4, <1>10, <1>11, <1>12

\* The rectangles of an update, all of them.
LEMMA RectsRead ==
    ASSUME sent \in Nat, NEW encs \in Updates
    PROVE  Rects(encs).tokens \in Seq(Tokens)
           /\ Read(Between(Len(encs)), Rects(encs).tokens) = Message
<1>1. encs \in Seq(Encodings) /\ \A i \in DOMAIN encs : encs[i] = "last_rect" => i = Len(encs)
    BY UpdatesAssumption
<1>2. PICK L \in Nat : L = Len(encs)
    BY <1>1, LenProperties
<1>3. DOMAIN encs = 1 .. L /\ \A i \in 1 .. L : encs[i] \in Encodings
    BY <1>1, <1>2, LenProperties, ElementOfSeq
<1>4. PICK f \in [0 .. L -> Sendings] :
        /\ f[0] = Sent0 /\ Rects(encs) = f[L]
        /\ \A i \in 1 .. L : f[i] = After(encs[i], f[i - 1])
    BY <1>1, <1>2, RectsAre
<1> DEFINE P == {i \in Nat : i <= L => Read(Between(L), f[i].tokens) = Between(L - i)}
<1>5. 0 \in P
    <2>1. f[0].tokens = <<>> /\ L - 0 = L
        BY <1>2, <1>4 DEF Sent0
    <2>2. Between(L) \in Spots /\ <<>> \in Seq(Tokens)
        BY SpotsAre, EmptySeq
    <2> QED BY <2>1, <2>2, ReadNext
<1>6. ASSUME NEW i \in Nat, i \in P PROVE i + 1 \in P
    <2> SUFFICES ASSUME i + 1 <= L
                 PROVE  Read(Between(L), f[i + 1].tokens) = Between(L - (i + 1))
        OBVIOUS
    <2>1. /\ i <= L /\ i \in 0 .. L /\ i + 1 \in 1 .. L /\ (i + 1) - 1 = i
          /\ L - i \in Nat \ {0} /\ (L - i) - 1 = L - (i + 1) /\ (i + 1 = L => L - i = 1)
        BY <1>2
    <2>2. PICK b \in Sendings : b = f[i]
        BY <1>4, <2>1
    <2>3. PICK enc \in Encodings : enc = encs[i + 1]
        BY <1>3, <2>1
    <2>4. f[i + 1] = After(enc, b)
        BY <1>4, <2>1, <2>2, <2>3
    <2>5. PICK n \in Nat : n = After(enc, b).last
        BY AfterIs DEF Sendings
    <2>6. f[i + 1].tokens = b.tokens \o RectTokens(enc, n)
        BY <2>4, <2>5, AfterIs
    <2>7. enc = "last_rect" => L - i = 1
        BY <1>1, <1>2, <1>3, <2>1, <2>3
    <2>8. Read(Between(L - i), RectTokens(enc, n)) = Between((L - i) - 1)
        BY <2>1, <2>7, RectRead
    <2>9. b.tokens \in Seq(Tokens) /\ RectTokens(enc, n) \in Seq(Tokens) /\ Between(L) \in Spots
        BY RectTokensIs, SpotsAre DEF Sendings
    <2>10. Read(Between(L), b.tokens) = Between(L - i)
        BY <1>6, <2>1, <2>2
    <2>11. Read(Between(L), b.tokens \o RectTokens(enc, n))
             = Read(Between(L - i), RectTokens(enc, n))
        BY <2>9, <2>10, ReadConcat
    <2> QED BY <2>1, <2>6, <2>8, <2>11
<1>7. L \in P
    <2> HIDE DEF P
    <2> QED BY <1>2, <1>5, <1>6, Induction
<1>8. Read(Between(L), f[L].tokens) = Between(L - L)
    BY <1>2, <1>7
<1>9. Between(L - L) = Message
    BY <1>2 DEF Between
<1>10. f[L].tokens \in Seq(Tokens)
    BY <1>2, <1>4 DEF Sendings
<1> QED BY <1>2, <1>4, <1>8, <1>9, <1>10

\* An update leads from one message to the next,
LEMMA UpdateRead ==
    ASSUME sent \in Nat, NEW encs \in Updates
    PROVE  /\ UpdateTokens(encs) \in Seq(Tokens)
           /\ Read(Message, UpdateTokens(encs)) = Message
<1>1. PICK h, c : h = Handshake("FBU") /\ c = Token("count", "", Len(encs))
    OBVIOUS
<1>2. Len(encs) \in Nat
    BY UpdatesAssumption, LenProperties
<1>3. h \in Tokens /\ h.k = "FBU" /\ c \in Tokens /\ c.k = "count" /\ c.n = Len(encs)
    BY <1>1, <1>2, HandshakesAre, TokensAre
<1>4. PICK t \in Seq(Tokens) : t = Rects(encs).tokens
    BY RectsRead
<1>5. PICK o : o = <<c>>
    OBVIOUS
<1>6. /\ UpdateTokens(encs) = (<<h>> \o o) \o t
      /\ <<h>> \in Seq(Tokens) /\ o \in Seq(Tokens)
    <2>1. <<h, c>> = <<h>> \o <<c>>
        BY <1>3, TwoAre
    <2>2. UpdateTokens(encs) = <<h, c>> \o t
        BY <1>1, <1>4 DEF UpdateTokens
    <2> QED BY <1>3, <1>5, <2>1, <2>2, OneIs
<1>7. <<h>> \o o \in Seq(Tokens) /\ (<<h>> \o o) \o t \in Seq(Tokens)
    BY <1>6, ConcatProperties
<1>8. /\ Message \in Spots /\ Spot("count") \in Spots /\ Spot("count").at = "count"
      /\ Message.at = "message"
    BY SpotsAre DEF Message
<1>9. Onto(Message, h) = Spot("count") /\ Onto(Spot("count"), c) = Between(Len(encs))
    BY <1>3, <1>8 DEF Onto
<1>10. Read(Message, <<h>> \o o) = Between(Len(encs))
    <2>1. Read(Message, <<h>> \o o) = Read(Spot("count"), o)
        BY <1>3, <1>6, <1>8, <1>9, ReadOne
    <2>2. Read(Spot("count"), <<c>>) = Onto(Spot("count"), c)
        BY <1>3, <1>8, ReadOne
    <2> QED BY <1>5, <1>9, <2>1, <2>2
<1>11. PICK b \in Seq(Tokens) : b = <<h>> \o o
    BY <1>7
<1>12. Read(Message, b \o t) = Read(Read(Message, b), t)
    BY <1>4, <1>8, <1>11, ReadConcat
<1>13. Read(Message, (<<h>> \o o) \o t) = Read(Between(Len(encs)), t)
    BY <1>10, <1>11, <1>12
<1> QED BY <1>4, <1>6, <1>7, <1>13, RectsRead

\* and so does every other message.
LEMMA NoticeRead ==
    ASSUME NEW m \in Notices
    PROVE  /\ NoticeTokens(m) \in Seq(Tokens)
           /\ Read(Message, NoticeTokens(m)) = Message
<1>1. m \in {"BELL", "CUT", "COLOURS"}
    BY StreamAssumption
<1>2. \A k \in {"BELL", "CUT", "COLOURS", "length", "text", "range", "colours"} :
        Handshake(k) \in Tokens /\ Handshake(k).k = k
    BY HandshakesAre, TokensAre
<1>3. /\ Message \in Spots /\ Message.at = "message"
      /\ \A at \in {"message", "count", "length", "text", "range", "colours", "lost"} :
            Spot(at) \in Spots /\ Spot(at).at = at
    BY SpotsAre DEF Message
<1>4. NoticeTokens(m) \in Seq(Tokens)
    BY NoticeIs, NamelessSafe
<1>5. CASE m = "BELL"
    <2>1. NoticeTokens(m) = <<Handshake("BELL")>>
        BY <1>5 DEF NoticeTokens
    <2>2. Onto(Message, Handshake("BELL")) = Message
        BY <1>2, <1>3 DEF Onto
    <2>3. Read(Message, <<Handshake("BELL")>>) = Onto(Message, Handshake("BELL"))
        BY <1>2, <1>3, ReadOne
    <2> QED BY <1>4, <2>1, <2>2, <2>3
<1>6. ASSUME NEW x \in Tokens, NEW y \in Tokens, NEW z \in Tokens
      PROVE  Read(Message, <<x, y, z>>) = Onto(Onto(Onto(Message, x), y), z)
    <2>1. PICK o \in Seq(Tokens) : o = <<z>>
        BY OneIs
    <2>2. PICK p \in Seq(Tokens) : p = <<y>> \o o
        BY <2>1, OneIs, ConcatProperties
    <2>3. <<x, y, z>> = <<x>> \o p
        BY <2>1, <2>2, ThreeAre
    <2>4. Onto(Message, x) \in Spots /\ Onto(Onto(Message, x), y) \in Spots
        BY <1>3, OntoIs
    <2>5. Read(Message, <<x>> \o p) = Read(Onto(Message, x), p)
        BY <1>3, ReadOne
    <2>6. Read(Onto(Message, x), <<y>> \o o) = Read(Onto(Onto(Message, x), y), o)
        BY <2>4, ReadOne
    <2>7. Read(Onto(Onto(Message, x), y), <<z>>) = Onto(Onto(Onto(Message, x), y), z)
        BY <2>4, ReadOne
    <2> QED BY <2>1, <2>2, <2>3, <2>5, <2>6, <2>7
<1>7. CASE m = "CUT"
    <2>1. NoticeTokens(m) = <<Handshake("CUT"), Handshake("length"), Handshake("text")>>
        BY <1>7 DEF NoticeTokens
    <2>2. /\ Onto(Message, Handshake("CUT")) = Spot("length")
          /\ Onto(Spot("length"), Handshake("length")) = Spot("text")
          /\ Onto(Spot("text"), Handshake("text")) = Message
        BY <1>2, <1>3 DEF Onto
    <2> QED BY <1>2, <1>4, <1>6, <2>1, <2>2
<1>8. CASE m = "COLOURS"
    <2>1. NoticeTokens(m) = <<Handshake("COLOURS"), Handshake("range"), Handshake("colours")>>
        BY <1>8 DEF NoticeTokens
    <2>2. /\ Onto(Message, Handshake("COLOURS")) = Spot("range")
          /\ Onto(Spot("range"), Handshake("range")) = Spot("colours")
          /\ Onto(Spot("colours"), Handshake("colours")) = Message
        BY <1>2, <1>3 DEF Onto
    <2> QED BY <1>2, <1>4, <1>6, <2>1, <2>2
<1> QED BY <1>1, <1>5, <1>7, <1>8

(***************************************************************************)
(* A reader that is led to the end of a message by what it will read.      *)
(***************************************************************************)
Where(fbu) == IF fbu.rects # 0 /\ fbu.waiting THEN Within(fbu.rects, fbu.enc, fbu.left)
                                              ELSE Between(fbu.rects)

\* It does not end where the code does not wait for what follows.
Firm(q) == q # <<>> => ~Fragile(q[Len(q)])

\* The rectangle that a handler has begun.
Midway(fbu, q) ==
    fbu.rects # 0 /\ fbu.waiting =>
       /\ fbu.left <= Parts(fbu.enc)
       /\ fbu.enc = "last_rect" => fbu.rects = 1
       /\ fbu.enc \in Forgets /\ fbu.left = Parts(fbu.enc) => q # <<>>

Led(rest) == {s \in Readers : /\ ~s.confused
                              /\ Firm(s.q)
                              /\ Read(Where(s.fbu), s.q \o rest) = Message
                              /\ Midway(s.fbu, s.q)}

\* A reader is at a spot.
LEMMA WhereIs == ASSUME NEW fbu \in FBUs PROVE Where(fbu) \in Spots
<1>1. fbu.rects \in Nat /\ fbu.enc \in Encodings /\ fbu.left \in Nat
    BY DEF FBUs
<1> QED BY <1>1, SpotsAre DEF Where

\* What is firm stays so when its first token is read.
LEMMA FirmTail ==
    ASSUME NEW q \in Seq(Tokens), q # <<>>, Firm(q)
    PROVE  Firm(Tail(q)) /\ (Tail(q) = <<>> => ~Fragile(Head(q)))
<1>1. PICK n \in Nat : n = Len(q)
    BY LenProperties
<1>2. PICK t \in Seq(Tokens) : t = Tail(q)
    BY HeadTailProperties
<1>3. /\ n # 0 /\ Len(t) = n - 1 /\ Head(q) = q[1]
      /\ \A i \in 1 .. Len(t) : t[i] = q[i + 1]
    BY <1>1, <1>2, HeadTailProperties, EmptySeq
<1>4. ~Fragile(q[n])
    BY <1>1 DEF Firm
<1>5. CASE t = <<>>
    <2>1. Len(t) = 0
        BY <1>5
    <2>2. n = 1
        BY <1>3, <2>1
    <2> QED BY <1>2, <1>3, <1>4, <1>5, <2>2 DEF Firm
<1>6. CASE t # <<>>
    <2>1. Len(t) # 0 /\ Len(t) \in Nat
        BY <1>6, EmptySeq, LenProperties
    <2>2. n - 1 \in 1 .. Len(t) /\ (n - 1) + 1 = n
        BY <1>3, <2>1
    <2>3. t[Len(t)] = q[n]
        BY <1>3, <2>2
    <2> QED BY <1>2, <1>4, <1>6, <2>3 DEF Firm
<1> QED BY <1>5, <1>6

\* The next token does not lose who is led.
LEMMA ReadsOn ==
    ASSUME NEW a \in Spots, NEW q \in Seq(Tokens), NEW rest \in Seq(Tokens), q # <<>>,
           Read(a, q \o rest) = Message
    PROVE  /\ Onto(a, Head(q)) \in Spots /\ Onto(a, Head(q)) # Lost
           /\ Head(q) \in Tokens /\ Tail(q) \in Seq(Tokens)
           /\ Read(Onto(a, Head(q)), Tail(q) \o rest) = Message
<1>1. PICK w \in Seq(Tokens) : w = q \o rest
    BY ConcatProperties
<1>2. w # <<>> /\ Head(w) = Head(q) /\ Tail(w) = Tail(q) \o rest
    BY <1>1, StreamTail
<1>3. PICK b : b = Onto(a, Head(q))
    OBVIOUS
<1>4. b \in Spots /\ Tail(w) \in Seq(Tokens) /\ Read(a, w) = Read(b, Tail(w))
    BY <1>2, <1>3, ReadNext
<1>5. b # Lost
    BY <1>1, <1>4, LostForGood, SpotsAre
<1>6. Head(q) \in Tokens /\ Tail(q) \in Seq(Tokens)
    BY HeadTailProperties
<1> QED BY <1>1, <1>2, <1>3, <1>4, <1>5, <1>6

\* A turn of the loop.
LEMMA TurnLed ==
    ASSUME NEW rest \in Seq(Tokens), NEW s \in Led(rest), s \notin Stops
    PROVE  Turn(s) \in Led(rest)
<1>1. /\ s \in Readers /\ ~s.confused /\ Firm(s.q)
      /\ Read(Where(s.fbu), s.q \o rest) = Message /\ Midway(s.fbu, s.q)
    BY DEF Led
<1>2. /\ s.q \in Seq(Tokens) /\ s.fbu.rects \in Nat \ {0} /\ s.fbu.enc \in Encodings
      /\ s.fbu.left \in Nat /\ s.fbu \in FBUs
    BY <1>1, ReaderHas, TurnIs DEF FBUs
<1>3. Where(s.fbu) \in Spots
    BY <1>2, WhereIs
<1>4. PICK t \in Readers : t = Turn(s)
    BY <1>1, TurnIs
<1>5. CASE ~s.fbu.waiting
    <2>1. PICK h : h = Head(s.q)
        OBVIOUS
    <2>2. /\ s.q # <<>> /\ h.k = "rect" /\ t.q = Tail(s.q) /\ h.v \in Encodings
          /\ t.fbu = [rects |-> s.fbu.rects, enc |-> h.v, num |-> h.n, left |-> Parts(h.v),
                      waiting |-> TRUE]
          /\ t.confused = s.confused
        BY <1>1, <1>4, <1>5, <2>1, TurnIs, HeaderIs DEF NextIs
    <2>3. /\ t.fbu.rects = s.fbu.rects /\ t.fbu.enc = h.v /\ t.fbu.left = Parts(h.v)
          /\ t.fbu.waiting
        BY <2>2
    <2>4. Where(s.fbu) = [at |-> "rect", rects |-> s.fbu.rects, enc |-> "RAW", left |-> 0]
        BY <1>2, <1>5 DEF Where, Between
    <2>5. Onto(Where(s.fbu), h) =
            IF h.v = "last_rect" => s.fbu.rects = 1
              THEN Within(s.fbu.rects, h.v, Parts(h.v)) ELSE Lost
        BY <2>2, <2>4 DEF Onto
    <2>6. Onto(Where(s.fbu), h) # Lost /\ Read(Onto(Where(s.fbu), h), t.q \o rest) = Message
        BY <1>1, <1>2, <1>3, <2>1, <2>2, ReadsOn
    <2>7. h.v = "last_rect" => s.fbu.rects = 1
        BY <2>5, <2>6
    <2>8. Where(t.fbu) = Onto(Where(s.fbu), h)
        BY <1>2, <2>3, <2>5, <2>7 DEF Where
    <2>9. Firm(t.q) /\ (t.q = <<>> => ~Fragile(h))
        BY <1>1, <1>2, <2>1, <2>2, FirmTail
    <2>10. Midway(t.fbu, t.q)
        <3>1. Parts(h.v) <= Parts(h.v)
            BY <2>2, PartsIs
        <3> QED BY <2>2, <2>3, <2>7, <2>9, <3>1 DEF Midway, Fragile
    <2> QED BY <1>1, <1>4, <2>2, <2>6, <2>8, <2>9, <2>10 DEF Led
<1>6. CASE s.fbu.waiting /\ s.fbu.left = 0
    <2>1. /\ t.q = s.q /\ t.confused = s.confused
          /\ t.fbu = [s.fbu EXCEPT
                        !.rects = IF s.fbu.enc = "last_rect" THEN 0 ELSE s.fbu.rects - 1,
                        !.waiting = FALSE]
        BY <1>1, <1>2, <1>4, <1>6, TurnIs, DoneIs
    <2>2. s.fbu.enc = "last_rect" => s.fbu.rects = 1
        BY <1>1, <1>2, <1>6 DEF Midway
    <2>3. t.fbu.rects = s.fbu.rects - 1 /\ ~t.fbu.waiting
        BY <1>2, <2>1, <2>2 DEF FBUs
    <2>4. Where(s.fbu) = Between(s.fbu.rects - 1)
        BY <1>2, <1>6 DEF Where, Within
    <2>5. Where(t.fbu) = Where(s.fbu)
        BY <2>3, <2>4 DEF Where
    <2>6. Midway(t.fbu, t.q)
        BY <2>3 DEF Midway
    <2> QED BY <1>1, <1>4, <2>1, <2>5, <2>6 DEF Led
<1>7. CASE s.fbu.waiting /\ s.fbu.left # 0
    <2>1. PICK h : h = Head(s.q)
        OBVIOUS
    <2>2. /\ s.q # <<>> /\ h.k = s.fbu.enc /\ t.q = Tail(s.q)
          /\ t.fbu = [s.fbu EXCEPT !.left = s.fbu.left - 1]
          /\ t.confused = s.confused
        BY <1>1, <1>4, <1>7, <2>1, TurnIs, PartIs DEF NextIs
    <2>3. /\ t.fbu.rects = s.fbu.rects /\ t.fbu.enc = s.fbu.enc
          /\ t.fbu.left = s.fbu.left - 1 /\ t.fbu.waiting
        BY <1>2, <1>7, <2>2 DEF FBUs
    <2>4. Where(s.fbu) = [at |-> "part", rects |-> s.fbu.rects, enc |-> s.fbu.enc,
                          left |-> s.fbu.left]
        BY <1>2, <1>7 DEF Where, Within
    <2>5. Onto(Where(s.fbu), h) = Within(s.fbu.rects, s.fbu.enc, s.fbu.left - 1)
        BY <2>2, <2>4 DEF Onto
    <2>6. Read(Onto(Where(s.fbu), h), t.q \o rest) = Message
        BY <1>1, <1>2, <1>3, <2>1, <2>2, ReadsOn
    <2>7. Where(t.fbu) = Onto(Where(s.fbu), h)
        BY <1>2, <2>3, <2>5 DEF Where
    <2>8. Firm(t.q)
        BY <1>1, <1>2, <2>2, FirmTail
    <2>9. t.fbu.left <= Parts(t.fbu.enc) /\ t.fbu.left # Parts(t.fbu.enc)
        <3>1. s.fbu.left <= Parts(s.fbu.enc) /\ Parts(s.fbu.enc) \in Nat
            BY <1>1, <1>2, <1>7, PartsIs DEF Midway
        <3> QED BY <1>2, <2>3, <3>1
    <2>10. Midway(t.fbu, t.q)
        BY <1>1, <1>2, <1>7, <2>3, <2>9 DEF Midway
    <2> QED BY <1>1, <1>4, <2>2, <2>6, <2>7, <2>8, <2>10 DEF Led
<1> QED BY <1>5, <1>6, <1>7

\* The loop ends between two messages or when there is nothing to read.
Rested(rest) == {s \in Led(rest) : s.fbu.rects # 0 => s.q = <<>>}

\* Where the loop stops, it is led and has nothing left of the update to read,
LEMMA EndingLed ==
    ASSUME NEW rest \in Seq(Tokens), NEW t \in Led(rest), t \in Stops
    PROVE  Ending(t) \in Rested(rest)
<1>1. /\ t \in Readers /\ ~t.confused /\ Firm(t.q)
      /\ Read(Where(t.fbu), t.q \o rest) = Message /\ Midway(t.fbu, t.q)
    BY DEF Led
<1>2. /\ t.q \in Seq(Tokens) /\ t.fbu.rects \in Nat /\ t.fbu.enc \in Encodings
      /\ t.fbu.left \in Nat /\ t.fbu \in FBUs /\ t.fbu.waiting \in BOOLEAN
    BY <1>1, ReaderHas DEF FBUs
<1>3. Where(t.fbu) \in Spots
    BY <1>2, WhereIs
<1>4. ASSUME t.fbu.rects # 0, t.q # <<>> PROVE FALSE
    <2>1. PICK h : h = Head(t.q)
        OBVIOUS
    <2>2. Onto(Where(t.fbu), h) # Lost
        BY <1>1, <1>2, <1>3, <1>4, <2>1, ReadsOn
    <2>3. CASE ~t.fbu.waiting
        <3>1. h.k # "rect"
            BY <1>4, <2>1, <2>3 DEF Stops, NextIs
        <3>2. Where(t.fbu).at = "rect"
            BY <1>4, <2>3 DEF Where, Between
        <3> QED BY <2>2, <3>1, <3>2 DEF Onto
    <2>4. CASE t.fbu.waiting
        <3>1. t.fbu.left # 0 /\ h.k # t.fbu.enc
            BY <1>4, <2>1, <2>4 DEF Stops, NextIs
        <3>2. Where(t.fbu).at = "part" /\ Where(t.fbu).enc = t.fbu.enc
            BY <1>4, <2>4, <3>1 DEF Where, Within
        <3> QED BY <2>2, <3>1, <3>2 DEF Onto
    <2> QED BY <1>2, <2>3, <2>4
<1>5. PICK e \in Readers : e = Ending(t)
    BY <1>1, EndingIs
<1>6. /\ e.q = t.q /\ e.fbu.rects = t.fbu.rects /\ e.fbu.enc = t.fbu.enc
      /\ e.fbu.left = t.fbu.left /\ ~e.confused
    BY <1>1, <1>4, <1>5, EndingIs
<1>7. e.fbu.waiting = t.fbu.waiting
    <2>1. CASE t.fbu.rects # 0 /\ t.q = <<>> /\ t.fbu.waiting
        <3>1. Waiting(t)
            BY <1>1, <2>1 DEF Midway, Waiting
        <3> QED BY <1>1, <1>5, <2>1, <3>1, EndingIs
    <2>2. CASE ~(t.fbu.rects # 0 /\ t.q = <<>> /\ t.fbu.waiting)
        BY <1>1, <1>5, <2>2, EndingIs
    <2> QED BY <2>1, <2>2
<1>8. Where(e.fbu) = Where(t.fbu) /\ Midway(e.fbu, e.q)
    BY <1>1, <1>6, <1>7 DEF Where, Midway
<1> QED BY <1>1, <1>4, <1>5, <1>6, <1>8 DEF Rested, Led

\* so the whole loop leads it on.
LEMMA UpdateLed ==
    ASSUME NEW rest \in Seq(Tokens), NEW s \in Led(rest)
    PROVE  FramebufferUpdate[s] \in Rested(rest)
<1> DEFINE I == Led(rest)
<1>1. I \subseteq Readers /\ \A t \in I : t \notin Stops => Turn(t) \in I
    BY TurnLed DEF Led
<1> HIDE DEF I
<1>2. s \in I
    BY DEF I
<1>3. PICK t \in I : t \in Stops /\ FramebufferUpdate[s] = Ending(t)
    BY <1>1, <1>2, UpdateKeeps
<1> QED BY <1>3, EndingLed DEF I

\* normal_msg reads a message or leaves it.
LEMMA NormalLed ==
    ASSUME NEW rest \in Seq(Tokens), NEW s \in Led(rest), s.q # <<>>
    PROVE  NormalMsg(s) \in Rested(rest)
<1>1. /\ s \in Readers /\ ~s.confused /\ Firm(s.q)
      /\ Read(Where(s.fbu), s.q \o rest) = Message /\ Midway(s.fbu, s.q)
    BY DEF Led
<1>2. /\ s.q \in Seq(Tokens) /\ s.fbu.rects \in Nat /\ s.fbu \in FBUs /\ Len(s.q) \in Nat
    BY <1>1, ReaderHas DEF FBUs
<1>3. CASE s.fbu.rects # 0
    <2>1. NormalMsg(s) = FramebufferUpdate[s]
        BY <1>2, <1>3 DEF NormalMsg
    <2> QED BY <2>1, UpdateLed
<1>4. CASE s.fbu.rects = 0
    <2>1. PICK t : t = NormalMsg(s)
        OBVIOUS
    <2>2. PICK h, q : h = Head(s.q) /\ q = Tail(s.q)
        OBVIOUS
    <2>3. Where(s.fbu) = Message
        BY <1>4 DEF Where, Between
    <2>4. /\ Message \in Spots /\ Message.at = "message"
          /\ \A at \in {"message", "count", "length", "text", "range", "colours", "lost"} :
                Spot(at) \in Spots /\ Spot(at).at = at
        BY SpotsAre DEF Message
    <2>5. /\ Onto(Message, h) # Lost /\ h \in Tokens /\ q \in Seq(Tokens)
          /\ Read(Onto(Message, h), q \o rest) = Message /\ Firm(q)
          /\ q = <<>> => ~Fragile(h)
        BY <1>1, <1>2, <2>2, <2>3, <2>4, ReadsOn, FirmTail
    <2>6. h.k \in {"FBU", "BELL", "CUT", "COLOURS"}
        BY <2>4, <2>5 DEF Onto
    <2>7. \A p \in Seq(Tokens) :
             Firm(p) /\ Read(Message, p \o rest) = Message => Skips(s, p) \in Rested(rest)
        <3> SUFFICES ASSUME NEW p \in Seq(Tokens), Firm(p), Read(Message, p \o rest) = Message
                     PROVE  Skips(s, p) \in Rested(rest)
            OBVIOUS
        <3>1. PICK e \in Readers : /\ e = Skips(s, p) /\ e.q = p /\ e.fbu = s.fbu
                                   /\ e.confused = s.confused
            BY <1>1, SkipsIs
        <3>2. Midway(e.fbu, e.q)
            BY <1>4, <3>1 DEF Midway
        <3> QED BY <1>1, <1>4, <2>3, <3>1, <3>2 DEF Rested, Led
    <2>8. CASE h.k = "FBU" /\ Len(s.q) >= 2 /\ t = FramebufferUpdate[Begun(s)]
        <3>1. PICK e \in Readers : /\ e = Begun(s) /\ e.q = Tail(q) /\ e.confused = s.confused
                                   /\ e.fbu.rects = Head(q).n /\ ~e.fbu.waiting
            BY <1>1, <2>2, <2>8, BegunIs
        <3>2. q # <<>>
            BY <1>2, <2>2, <2>8, TwoRead
        <3>3. Onto(Message, h) = Spot("count")
            BY <2>4, <2>8 DEF Onto
        <3>4. /\ Onto(Spot("count"), Head(q)) # Lost
              /\ Read(Onto(Spot("count"), Head(q)), e.q \o rest) = Message
            BY <2>4, <2>5, <3>1, <3>2, <3>3, ReadsOn
        <3>5. Onto(Spot("count"), Head(q)) = Between(Head(q).n)
            BY <2>4, <3>4 DEF Onto
        <3>6. Where(e.fbu) = Between(Head(q).n) /\ Midway(e.fbu, e.q)
            BY <3>1 DEF Where, Midway
        <3>7. Firm(e.q)
            BY <2>5, <3>1, <3>2, FirmTail
        <3>8. e \in Led(rest)
            BY <1>1, <3>1, <3>4, <3>5, <3>6, <3>7 DEF Led
        <3> QED BY <2>1, <2>8, <3>1, <3>8, UpdateLed
    <2>9. CASE h.k = "BELL" /\ t = Skips(s, q)
        <3>1. Onto(Message, h) = Message
            BY <2>4, <2>9 DEF Onto
        <3> QED BY <2>1, <2>5, <2>7, <2>9, <3>1
    <2>10. CASE h.k \in {"CUT", "COLOURS"} /\ Len(s.q) >= 3 /\ t = Skips(s, Tail(Tail(q)))
        <3>1. PICK p, r : p = Tail(q) /\ r = Tail(p)
            OBVIOUS
        <3>2. q # <<>> /\ p # <<>>
            <4>1. Tail(s.q) # <<>>
                BY <1>2, <2>10, TwoRead
            <4>2. Tail(Tail(s.q)) # <<>>
                BY <1>2, <2>10, ThreeRead
            <4> QED BY <2>2, <3>1, <4>1, <4>2
        <3>3. PICK a \in Spots : a = Onto(Message, h) /\ a.at \in {"length", "range"}
            BY <2>4, <2>10 DEF Onto
        <3>4. PICK b : b = Onto(a, Head(q))
            OBVIOUS
        <3>5. /\ b \in Spots /\ b # Lost /\ p \in Seq(Tokens) /\ Firm(p)
              /\ Read(b, p \o rest) = Message
            BY <2>5, <3>1, <3>2, <3>3, <3>4, ReadsOn, FirmTail
        <3>6. b.at \in {"text", "colours"}
            BY <2>4, <3>3, <3>4, <3>5 DEF Onto
        <3>7. PICK c : c = Onto(b, Head(p))
            OBVIOUS
        <3>8. /\ c # Lost /\ r \in Seq(Tokens) /\ Firm(r)
              /\ Read(c, r \o rest) = Message
            BY <3>1, <3>2, <3>5, <3>7, ReadsOn, FirmTail
        <3>9. c = Message
            BY <3>6, <3>7, <3>8 DEF Onto
        <3> QED BY <2>1, <2>7, <2>10, <3>1, <3>8, <3>9
    <2>11. CASE t = Waits(s)
        <3>1. t \in Readers /\ t.q = s.q /\ t.fbu = s.fbu /\ t.confused = s.confused
            BY <1>1, <2>11, WaitsIs
        <3> QED BY <1>1, <1>4, <2>1, <3>1 DEF Rested, Led
    <2>12. CASE h.k = "COLOURS" /\ Len(s.q) = 1
        <3>1. q = <<>>
            BY <1>2, <2>2, <2>5, <2>12, HeadTailProperties, EmptySeq
        <3> QED BY <2>5, <2>12, <3>1 DEF Fragile
    <2> QED BY <1>1, <1>4, <2>1, <2>2, <2>6, <2>8, <2>9, <2>10, <2>11, <2>12, MessageIs
<1> QED BY <1>3, <1>4

(***************************************************************************)
(* The invariant of what is read: page and server agree on where they are. *)
(***************************************************************************)
Stream == rQ \o wire

\* One token comes, or what makes the server send it is on its way.
OneComes ==
    \/ said = <<>> /\ Len(Stream) = 1
    \/ /\ Stream = <<>>
       /\ \/ said = <<"response">>
          \/ said = <<"scheme">> /\ (server.auth = "vnc" \/ server.version = "3.8")

\* The initialisation is to be answered, or was and is followed by messages.
InitComes ==
    \/ /\ Stream = <<>> /\ server.phase # "init"
       /\ \/ said = <<"init">>
          \/ said = <<"scheme", "init">> /\ server.auth = "none" /\ server.version # "3.8"
    \/ /\ said = <<>> /\ server.phase = "init"
       /\ Stream # <<>> /\ Read(Message, Tail(Stream)) = Message

Agreed ==
    /\ server.phase = "init" => rfb_state \in {"ServerInitialisation", "normal"} /\ said = <<>>
    /\ rfb_state # "normal" => FBU.rects = 0
    /\ prompt => /\ rfb_state \in {"password", "Authentication", "SecurityResult"}
                 /\ server.auth = "vnc"
    /\ rfb_state = "connect" => Stream = <<>> /\ said = <<>>
    /\ rfb_state = "ProtocolVersion" => said = <<>> /\ Len(Stream) = 1
    /\ rfb_state = "Security" =>
         \/ said = <<"version">> /\ Stream = <<>>
         \/ said = <<>> /\ Len(Stream) = IF server.version = "3.3" /\ server.auth = "vnc"
                                         THEN 2 ELSE 1
    /\ rfb_state \in {"Authentication", "password"} => server.auth = "vnc"
    /\ rfb_state \in {"Authentication", "password", "SecurityResult"} => OneComes
    /\ rfb_state = "ServerInitialisation" => InitComes
    /\ rfb_state = "normal" => /\ said = <<>> /\ server.phase = "init"
                               /\ Read(Where(FBU), Stream) = Message

\* As long as the form is submitted once, the page waits for a challenge when
\* one comes: with the security scheme, after it, or in answer to it.
Challenged ==
    /\ rfb_state = "Security" /\ Len(Stream) = 2 => Head(Tail(Stream)).k = "challenge"
    /\ rfb_state \in {"Authentication", "password"} /\ ~again =>
          said # <<"response">> /\ (Stream # <<>> => Head(Stream).k = "challenge")

\* The handler of the current rectangle is called again with what it waits for.
Remembered(fbu) ==
    fbu.rects # 0 /\ fbu.waiting =>
       /\ fbu.left <= Parts(fbu.enc)
       /\ fbu.enc = "last_rect" => fbu.rects = 1
       /\ ~(fbu.enc \in Forgets /\ fbu.left = Parts(fbu.enc))

ReadInv ==
    ~torn => /\ confused => again
             /\ ~confused /\ link # "closed" =>
                   Agreed /\ Challenged /\ Firm(rQ) /\ Remembered(FBU)

\* What leaves the connection, the handshake and the tokens alone.
LEMMA ReadFrame ==
    ASSUME ReadInv, UNCHANGED <<server, wire, link, said, torn, rfb_state, rQ, FBU, prompt,
                                confused, again>>
    PROVE  ReadInv'
<1>1. UNCHANGED Stream
    BY DEF Stream
<1>2. Agreed /\ Challenged => Agreed' /\ Challenged'
    BY <1>1 DEF Agreed, OneComes, InitComes, Challenged
<1> QED BY <1>1, <1>2 DEF ReadInv

\* The connection ends: nothing is read any more.
LEMMA ReadFails ==
    ASSUME ReadInv, Fail, torn => torn', confused' => again'
    PROVE  ReadInv'
BY DEF ReadInv, Fail

\* The first token of what is to come.
LEMMA StreamIs ==
    ASSUME StreamTypes, NEW q \in Seq(Tokens), NEW rest \in Seq(Tokens), q \o rest = Stream
    PROVE  /\ Stream \in Seq(Tokens) /\ Len(Stream) \in Nat
           /\ Stream # <<>> => /\ Len(Stream) # 0 /\ Tail(Stream) \in Seq(Tokens)
                               /\ Len(Tail(Stream)) = Len(Stream) - 1
           /\ Stream = <<>> => Len(Stream) = 0
           /\ q # <<>> => Stream # <<>> /\ Tail(q) \in Seq(Tokens) /\ Tail(q) \o rest = Tail(Stream)
<1>1. Stream \in Seq(Tokens)
    BY ConcatProperties
<1>2. q # <<>> => Stream # <<>> /\ Tail(q) \in Seq(Tokens) /\ Tail(q) \o rest = Tail(Stream)
    BY StreamTail, HeadTailProperties
<1>3. Stream # <<>> => /\ Tail(Stream) \in Seq(Tokens) /\ Len(Tail(Stream)) = Len(Stream) - 1
    BY <1>1, HeadTailProperties
<1>4. Len(Stream) \in Nat /\ (Stream # <<>> => Len(Stream) # 0)
      /\ (Stream = <<>> => Len(Stream) = 0)
    BY <1>1, LenProperties, EmptySeq
<1> QED BY <1>1, <1>2, <1>3, <1>4

\* The answers of the server.
LEMMA Answers ==
    ASSUME ConnInv
    PROVE  /\ \A m : Reply(m) \in Seq(Tokens)
           /\ Len(Reply("version")) =
                 IF server.version = "3.3" /\ server.auth = "vnc" THEN 2 ELSE 1
           /\ Len(Reply("version")) = 2 => Head(Tail(Reply("version"))).k = "challenge"
           /\ server.auth = "vnc" \/ server.version = "3.8" => Len(Reply("scheme")) = 1
           /\ server.auth = "vnc" => Head(Reply("scheme")).k = "challenge"
           /\ server.auth = "none" /\ server.version # "3.8" => Reply("scheme") = <<>>
           /\ Len(Reply("response")) = 1 /\ Len(Reply("init")) = 1
           /\ <<Handshake("refused")>> \in Seq(Tokens) /\ Len(<<Handshake("refused")>>) = 1
<1>1. server.auth \in {"none", "vnc"}
    BY DEF ConnInv
<1>2. \A m : Reply(m) \in Seq(Tokens)
    BY ReplyIs, NamelessSafe
<1>3. \A k \in Greetings : <<Handshake(k)>> \in Seq(Tokens) /\ Len(<<Handshake(k)>>) = 1
    BY TokensAre, OneIs
<1>4. Len(<<Handshake("scheme")>> \o <<Handshake("challenge")>>) = 2
    <2>1. PICK p, q \in Seq(Tokens) : /\ p = <<Handshake("scheme")>> /\ Len(p) = 1
                                      /\ q = <<Handshake("challenge")>> /\ Len(q) = 1
        BY <1>3, HandshakesAre
    <2>2. Len(p \o q) = 1 + 1
        BY <2>1, ConcatProperties
    <2> QED BY <2>1, <2>2
<1>5. Len(<<Handshake("scheme")>> \o <<>>) = 1
    <2>1. PICK p \in Seq(Tokens) : p = <<Handshake("scheme")>> /\ Len(p) = 1
        BY <1>3, HandshakesAre
    <2>2. p \o <<>> = p
        BY ConcatEmptySeq
    <2> QED BY <2>1, <2>2
<1>6. Len(Reply("version")) = IF server.version = "3.3" /\ server.auth = "vnc" THEN 2 ELSE 1
    <2>1. CASE server.version = "3.3"
        <3>1. CASE server.auth = "vnc"
            <4>1. Reply("version") = <<Handshake("scheme")>> \o <<Handshake("challenge")>>
                BY <2>1, <3>1 DEF Reply
            <4> QED BY <1>4, <2>1, <3>1, <4>1
        <3>2. CASE server.auth # "vnc"
            <4>1. Reply("version") = <<Handshake("scheme")>> \o <<>>
                BY <2>1, <3>2 DEF Reply
            <4> QED BY <1>5, <2>1, <3>2, <4>1
        <3> QED BY <3>1, <3>2
    <2>2. CASE server.version # "3.3"
        <3>1. Reply("version") = <<Handshake("types")>>
            BY <2>2 DEF Reply
        <3> QED BY <1>3, <2>2, <3>1, HandshakesAre
    <2> QED BY <2>1, <2>2
<1>7. server.auth = "vnc" => Reply("scheme") = <<Handshake("challenge")>>
    BY DEF Reply
<1>12. \A k \in {"scheme", "challenge"} : Handshake(k) \in Tokens /\ Handshake(k).k = k
    BY TokensAre, HandshakesAre
<1>13. server.auth = "vnc" => Head(Reply("scheme")).k = "challenge"
    <2>1. PICK t : t = Handshake("challenge")
        OBVIOUS
    <2>2. t \in Tokens /\ t.k = "challenge"
        BY <1>12, <2>1
    <2>3. Head(<<t>>) = t
        BY <2>2, OneIs
    <2> QED BY <1>7, <2>1, <2>2, <2>3
<1>14. Len(Reply("version")) = 2 => Head(Tail(Reply("version"))).k = "challenge"
    <2> SUFFICES ASSUME server.version = "3.3", server.auth = "vnc"
                 PROVE  Head(Tail(Reply("version"))).k = "challenge"
        BY <1>6
    <2>1. PICK a, b, p, q : /\ a = Handshake("scheme") /\ p = <<a>>
                            /\ b = Handshake("challenge") /\ q = <<b>>
        OBVIOUS
    <2>2. Reply("version") = p \o q
        BY <2>1 DEF Reply
    <2>3. /\ p \in Seq(Tokens) /\ q \in Seq(Tokens) /\ p # <<>>
          /\ Tail(p) = <<>> /\ Head(q).k = "challenge"
        <3>1. a \in Tokens /\ b \in Tokens /\ b.k = "challenge"
            BY <1>12, <2>1
        <3> QED BY <2>1, <3>1, OneIs
    <2>4. Tail(p \o q) = Tail(p) \o q
        BY <2>3, StreamTail
    <2>5. <<>> \o q = q
        BY <2>3, ConcatEmptySeq
    <2> QED BY <2>2, <2>3, <2>4, <2>5
<1>8. server.auth = "none" /\ server.version = "3.8" => Reply("scheme") = <<Handshake("result")>>
    BY DEF Reply
<1>9. server.auth = "none" /\ server.version # "3.8" => Reply("scheme") = <<>>
    BY DEF Reply
<1>10. Reply("response") = <<Handshake("result")>> /\ Reply("init") = <<Handshake("serverinit")>>
    BY DEF Reply
<1>11. \A k \in {"challenge", "result", "serverinit", "refused"} :
          <<Handshake(k)>> \in Seq(Tokens) /\ Len(<<Handshake(k)>>) = 1
    BY <1>3, HandshakesAre
<1> QED BY <1>1, <1>2, <1>6, <1>7, <1>8, <1>9, <1>10, <1>11, <1>13, <1>14

\* The server reads what the page said.
LEMMA ReadServer ==
    ASSUME ConnInv, PaintInv, ReadInv, ServerReads
    PROVE  ReadInv'
<1> SUFFICES ASSUME ~torn', ~confused'
             PROVE  Agreed' /\ Challenged' /\ Firm(rQ)' /\ Remembered(FBU)'
    BY DEF ReadInv, ServerReads, pageVars
<1>1. /\ link = "open" /\ said # <<>> /\ said' = Tail(said) /\ ~torn
      /\ server' = IF Head(said) = "init" THEN Served ELSE [server EXCEPT !.phase = Head(said)]
      /\ UNCHANGED <<link, rfb_state, rQ, FBU, prompt, confused, again>>
    BY DEF ServerReads, pageVars
<1>2. PICK m : m = Head(said)
    OBVIOUS
<1>3. PICK tokens : /\ wire' = wire \o tokens
                    /\ tokens = Reply(m) \/ (m = "response" /\ tokens = <<Handshake("refused")>>)
    BY <1>1, <1>2 DEF ServerReads, Send
<1>4. tokens \in Seq(Tokens)
    BY <1>3, Answers
<1>5. Agreed /\ Challenged /\ Firm(rQ) /\ Remembered(FBU)
    BY <1>1 DEF ReadInv
<1>6. Stream = <<>> => Stream' = tokens
    <2>1. ASSUME Stream = <<>> PROVE rQ = <<>> /\ wire = <<>>
        BY <2>1, ConcatSimplifications DEF Stream, PaintInv, StreamTypes
    <2>2. <<>> \o tokens = tokens
        BY <1>4, ConcatEmptySeq
    <2> QED BY <1>1, <1>3, <2>1, <2>2 DEF Stream
<1>7. /\ m # "init" => /\ server'.phase = m /\ server'.version = server.version
                       /\ server'.auth = server.auth
      /\ m = "init" => server' = Served /\ server'.phase = "init"
    BY <1>1, <1>2 DEF ConnInv, Served
<1>8. Agreed'
    <2>1. CASE rfb_state = "Security"
        <3>1. said = <<"version">> /\ Stream = <<>> /\ ~prompt /\ FBU.rects = 0
            BY <1>1, <1>5, <2>1 DEF Agreed
        <3>2. m = "version" /\ said' = <<>>
            BY <1>1, <1>2, <3>1
        <3>3. Len(Stream') = IF server.version = "3.3" /\ server.auth = "vnc" THEN 2 ELSE 1
            BY <1>3, <1>6, <3>1, <3>2, Answers
        <3> QED BY <1>1, <1>7, <2>1, <3>1, <3>2, <3>3 DEF Agreed
    <2>2. CASE rfb_state \in {"password", "Authentication", "SecurityResult"}
        <3>1. /\ Stream = <<>> /\ FBU.rects = 0
              /\ \/ said = <<"response">>
                 \/ said = <<"scheme">> /\ (server.auth = "vnc" \/ server.version = "3.8")
              /\ rfb_state \in {"password", "Authentication"} => server.auth = "vnc"
              /\ prompt => server.auth = "vnc"
            BY <1>1, <1>5, <2>2 DEF Agreed, OneComes
        <3>2. m \in {"response", "scheme"} /\ said' = <<>>
            <4>1. CASE said = <<"response">>
                BY <1>1, <1>2, <4>1
            <4>2. CASE said = <<"scheme">>
                BY <1>1, <1>2, <4>2
            <4> QED BY <3>1, <4>1, <4>2
        <3>3. m = "scheme" => server.auth = "vnc" \/ server.version = "3.8"
            BY <1>2, <3>1
        <3>4. Len(Stream') = 1
            BY <1>3, <1>6, <3>1, <3>2, <3>3, Answers
        <3> QED BY <1>1, <1>7, <2>2, <3>1, <3>2, <3>4 DEF Agreed, OneComes
    <2>3. CASE rfb_state = "ServerInitialisation"
        <3>1. /\ Stream = <<>> /\ FBU.rects = 0 /\ ~prompt
              /\ \/ said = <<"init">>
                 \/ said = <<"scheme", "init">> /\ server.auth = "none" /\ server.version # "3.8"
            BY <1>1, <1>5, <2>3 DEF Agreed, InitComes
        <3>2. CASE said = <<"init">>
            <4>1. m = "init" /\ said' = <<>>
                BY <1>1, <1>2, <3>2
            <4>2. Stream' \in Seq(Tokens) /\ Len(Stream') = 1
                BY <1>3, <1>4, <1>6, <3>1, <4>1, Answers
            <4>3. Stream' # <<>> /\ Tail(Stream') = <<>>
                <5>1. PICK s \in Seq(Tokens) : s = Stream'
                    BY <4>2
                <5>2. s # <<>> /\ Tail(s) \in Seq(Tokens) /\ Len(Tail(s)) = 0
                    BY <4>2, <5>1, EmptySeq, HeadTailProperties
                <5> QED BY <5>1, <5>2, EmptySeq
            <4>4. Read(Message, Tail(Stream')) = Message
                <5>1. PICK e \in Seq(Tokens) : e = <<>>
                    BY EmptySeq
                <5>2. Read(Message, e) = Message
                    BY <5>1, SpotsAre, ReadNext
                <5> QED BY <4>3, <5>1, <5>2
            <4> QED BY <1>1, <1>7, <2>3, <3>1, <4>1, <4>3, <4>4 DEF Agreed, InitComes
        <3>3. CASE said = <<"scheme", "init">> /\ server.auth = "none" /\ server.version # "3.8"
            <4>1. m = "scheme" /\ said' = <<"init">>
                BY <1>1, <1>2, <3>3
            <4>2. Stream' = <<>>
                BY <1>3, <1>6, <3>1, <3>3, <4>1, Answers
            <4> QED BY <1>1, <1>7, <2>3, <3>1, <4>1, <4>2 DEF Agreed, InitComes
        <3> QED BY <3>1, <3>2, <3>3
    <2>4. rfb_state \in {"Security", "password", "Authentication", "SecurityResult",
                         "ServerInitialisation"}
        <3>1. rfb_state \notin {"connect", "ProtocolVersion", "normal"}
            BY <1>1, <1>5 DEF Agreed
        <3>2. rfb_state \notin Unconnected /\ rfb_state \in Phases
            BY <1>1 DEF ConnInv
        <3> QED BY <3>1, <3>2 DEF Phases, InitStates, Unconnected
    <2> QED BY <2>1, <2>2, <2>3, <2>4
<1>9. Challenged'
    <2>1. CASE rfb_state = "Security"
        <3>1. said = <<"version">> /\ Stream = <<>>
            BY <1>1, <1>5, <2>1 DEF Agreed
        <3>2. m = "version" /\ Stream' = Reply(m)
            BY <1>1, <1>2, <1>3, <1>6, <3>1
        <3>3. Len(Stream') = 2 => Head(Tail(Stream')).k = "challenge"
            BY <3>2, Answers
        <3> QED BY <1>1, <2>1, <3>3 DEF Challenged
    <2>2. CASE rfb_state \in {"Authentication", "password"}
        <3> SUFFICES ASSUME ~again
                     PROVE  said' # <<"response">> /\ Head(Stream').k = "challenge"
            BY <1>1, <2>2 DEF Challenged
        <3>1. Stream = <<>> /\ said = <<"scheme">> /\ server.auth = "vnc"
            BY <1>1, <1>5, <2>2 DEF Agreed, OneComes, Challenged
        <3>2. m = "scheme" /\ said' = <<>> /\ Stream' = Reply(m)
            BY <1>1, <1>2, <1>3, <1>6, <3>1
        <3> QED BY <3>1, <3>2, Answers
    <2> QED BY <1>1, <2>1, <2>2 DEF Challenged
<1> QED BY <1>1, <1>5, <1>8, <1>9

\* The server sends messages that are whole.
LEMMA ReadSends ==
    ASSUME PaintInv, ReadInv, Ready, NEW tokens \in Seq(Tokens), Send(tokens),
           Read(Message, tokens) = Message,
           UNCHANGED <<server, link, said, torn, rfb_state, rQ, FBU, prompt, confused, again>>
    PROVE  ReadInv'
<1> SUFFICES ASSUME ~torn, ~confused, link # "closed"
             PROVE  Agreed' /\ Challenged' /\ Firm(rQ) /\ Remembered(FBU)
    BY DEF ReadInv
<1>1. /\ Agreed /\ Firm(rQ) /\ Remembered(FBU)
      /\ server.phase = "init" /\ wire' = wire \o tokens
    BY DEF ReadInv, Ready, Send
<1>2. rQ \in Seq(Tokens) /\ wire \in Seq(Tokens) /\ FBU \in FBUs
    BY DEF PaintInv, StreamTypes
<1>3. PICK s \in Seq(Tokens) : s = Stream
    BY <1>2, ConcatProperties DEF Stream
<1>4. Stream' = s \o tokens
    <2>1. Join(Join(rQ, wire), tokens) = Join(rQ, Join(wire, tokens))
        BY <1>2, JoinAssociative
    <2> QED BY <1>1, <1>3, <2>1 DEF Join, Stream
<1>5. /\ rfb_state \in {"ServerInitialisation", "normal"} /\ said = <<>>
      /\ rfb_state # "normal" => FBU.rects = 0
      /\ ~prompt
      /\ rfb_state = "ServerInitialisation" => s # <<>> /\ Read(Message, Tail(s)) = Message
      /\ rfb_state = "normal" => Read(Where(FBU), s) = Message
    BY <1>1, <1>3 DEF Agreed, InitComes
<1>6. Challenged'
    BY <1>5 DEF Challenged
<1>7. CASE rfb_state = "ServerInitialisation"
    <2>1. PICK t \in Seq(Tokens) : t = Tail(s)
        BY <1>5, <1>7, HeadTailProperties
    <2>2. s \o tokens # <<>> /\ Tail(s \o tokens) = t \o tokens
        BY <1>5, <1>7, <2>1, StreamTail
    <2>3. Read(Message, t \o tokens) = Read(Read(Message, t), tokens)
        BY <2>1, ReadConcat, SpotsAre
    <2>4. Read(Message, Tail(s \o tokens)) = Message
        BY <1>5, <1>7, <2>1, <2>2, <2>3
    <2> QED BY <1>1, <1>4, <1>5, <1>6, <1>7, <2>2, <2>4 DEF Agreed, InitComes
<1>8. CASE rfb_state = "normal"
    <2>1. Where(FBU) \in Spots
        BY <1>2, WhereIs
    <2>2. Read(Where(FBU), s \o tokens) = Read(Read(Where(FBU), s), tokens)
        BY <2>1, ReadConcat
    <2>3. Read(Where(FBU), s \o tokens) = Message
        BY <1>5, <1>8, <2>2
    <2> QED BY <1>1, <1>4, <1>5, <1>6, <1>8, <2>3 DEF Agreed
<1> QED BY <1>5, <1>7, <1>8

\* normal_msg.
LEMMA ReadNormal ==
    ASSUME ConnInv, PaintInv, ReadInv, rfb_state = "normal", ~torn, ~confused,
           NEW q \in Seq(Tokens), NEW rest \in Seq(Tokens), q # <<>>, Firm(q),
           q \o rest = Stream, NEW running, Normal(q, running), wire' = rest,
           UNCHANGED server
    PROVE  ReadInv'
<1>1. PICK m : m = Reader(q)
    OBVIOUS
<1>2. StreamTypes /\ link # "closed"
    BY DEF PaintInv, ConnInv, Unconnected
<1>3. /\ Agreed /\ Remembered(FBU) /\ ~prompt
      /\ said = <<>> /\ server.phase = "init" /\ Read(Where(FBU), Stream) = Message
    BY <1>2 DEF ReadInv, Agreed, ConnInv
<1>4. m \in Readers /\ m.q = q /\ m.fbu = FBU /\ ~m.confused
    BY <1>1, <1>2, ReaderIs
<1>5. m \in Led(rest)
    <2>1. Midway(FBU, q)
        BY <1>3 DEF Remembered, Midway
    <2> QED BY <1>3, <1>4, <2>1 DEF Led
<1>6. PICK s : s = NormalMsg(m)
    OBVIOUS
<1>7. s \in Rested(rest)
    BY <1>4, <1>5, <1>6, NormalLed
<1>8. /\ s \in Readers /\ ~s.confused /\ Firm(s.q) /\ Midway(s.fbu, s.q)
      /\ Read(Where(s.fbu), s.q \o rest) = Message
      /\ s.fbu.rects # 0 => s.q = <<>>
    BY <1>7 DEF Rested, Led
<1>9. /\ rQ' = s.q /\ FBU' = s.fbu /\ confused' = s.confused
      /\ UNCHANGED <<link, said, rfb_state, prompt>>
    BY <1>1, <1>6 DEF Normal
<1>10. Remembered(s.fbu)
    BY <1>8 DEF Remembered, Midway
<1>11. Stream' = s.q \o rest
    BY <1>9 DEF Stream
<1>12. Agreed'
    BY <1>3, <1>8, <1>9, <1>11 DEF Agreed
<1>13. Challenged'
    BY <1>9 DEF Challenged
<1> QED BY <1>8, <1>9, <1>10, <1>12, <1>13 DEF ReadInv

\* What the authentication comes to.
LEMMA AuthenticationGoes ==
    ASSUME ConnInv, NEW q, NEW says
    PROVE  \/ /\ server.auth = "none" /\ server.version = "3.8"
              /\ Authentication(q, says) = Goes("SecurityResult", q, says)
           \/ /\ server.auth = "none" /\ server.version # "3.8"
              /\ Authentication(q, says) = Goes("ServerInitialisation", q, says \o <<"init">>)
           \/ /\ server.auth = "vnc" /\ ~password
              /\ Authentication(q, says) = Goes("password", q, says)
           \/ /\ server.auth = "vnc" /\ password
              /\ Authentication(q, says) = Goes("Authentication", q, says)
           \/ /\ server.auth = "vnc" /\ password /\ q # <<>>
              /\ Authentication(q, says) = Goes("SecurityResult", Tail(q), says \o <<"response">>)
<1>1. server.auth \in {"none", "vnc"} /\ password \in BOOLEAN
    BY DEF ConnInv
<1> QED BY <1>1 DEF Authentication, ClientInitialisation

\* What init_msg leaves of the tokens does not end where it should not.
LEMMA TakesFirm ==
    ASSUME NEW q \in Seq(Tokens), NEW r, Firm(q), Takes(q, r)
    PROVE  r \in Seq(Tokens) /\ Firm(r)
<1>1. \A p \in Seq(Tokens) : p # <<>> /\ Firm(p) => Tail(p) \in Seq(Tokens) /\ Firm(Tail(p))
    BY FirmTail, HeadTailProperties
<1> QED BY <1>1 DEF Takes

\* What the handshake has come to when init_msg returns.
Comes(r, rest) ==
    /\ rfb_state' = r.state /\ r.state # "failed"
    /\ Stream' = r.q \o rest /\ said' = said \o r.says
    /\ prompt' = CASE r.state = "password" -> TRUE
                   [] r.state \in {"Authentication", "SecurityResult"} -> prompt
                   [] OTHER -> FALSE
    /\ UNCHANGED <<server, FBU, again>>

\* What the page says in the handshake.
Say == {"version", "scheme", "response", "init"}

\* Sequences of what the page says.
LEMMA Words ==
    /\ \A s \in Seq(Say) : <<>> \o s = s /\ s \o <<>> = s
    /\ \A w \in Say : <<w>> \in Seq(Say)
    /\ <<>> \in Seq(Say) /\ <<"init">> \in Seq(Say) /\ <<"response">> \in Seq(Say)
    /\ <<"scheme">> \in Seq(Say) /\ <<"version">> \in Seq(Say)
    /\ <<"scheme">> \o <<"init">> = <<"scheme", "init">>
    /\ <<"scheme", "init">> \in Seq(Say)
<1>1. \A w \in Say : <<w>> \in Seq(Say)
    BY OneIs
<1>2. \A s \in Seq(Say) : <<>> \o s = s /\ s \o <<>> = s
    BY ConcatEmptySeq
<1>3. PICK v, w, x, y : v = "init" /\ w = "response" /\ x = "scheme" /\ y = "version"
    OBVIOUS
<1>4. v \in Say /\ w \in Say /\ x \in Say /\ y \in Say
    BY <1>3 DEF Say
<1>5. /\ <<v>> \in Seq(Say) /\ <<w>> \in Seq(Say) /\ <<x>> \in Seq(Say) /\ <<y>> \in Seq(Say)
    BY <1>1, <1>4
<1>6. <<x, v>> = <<x>> \o <<v>>
    BY <1>4, TwoAre
<1>7. <<x>> \o <<v>> \in Seq(Say)
    BY <1>5, ConcatProperties
<1> QED BY <1>1, <1>2, <1>3, <1>5, <1>6, <1>7, EmptySeq

\* What the page has said in the handshake.
LEMMA SaidIs ==
    ASSUME Agreed, rfb_state \in InitStates
    PROVE  said \in Seq(Say)
<1>1. said \in {<<>>, <<"version">>, <<"response">>, <<"scheme">>, <<"init">>, <<"scheme", "init">>}
    BY DEF Agreed, OneComes, InitComes, InitStates
<1> QED BY <1>1, Words

\* The message is not there yet, or the password is not.
LEMMA AgreedStays ==
    ASSUME Agreed, NEW r, NEW rest, Comes(r, rest), rfb_state \in InitStates,
           r.state = rfb_state, r.q \o rest = Stream, r.says = <<>>
    PROVE  Agreed'
<1>1. Stream' = Stream /\ said' = said /\ rfb_state' = rfb_state
    <2>1. said \in Seq(Say)
        BY SaidIs
    <2> QED BY <2>1, Words DEF Comes
<1>2. UNCHANGED <<server, FBU>>
    BY DEF Comes
<1>3. prompt' => /\ rfb_state \in {"password", "Authentication", "SecurityResult"}
                 /\ server.auth = "vnc"
    <2>1. CASE rfb_state = "password"
        BY <2>1 DEF Agreed
    <2>2. CASE rfb_state \in {"Authentication", "SecurityResult"}
        <3>1. prompt' = prompt
            BY <2>2 DEF Comes
        <3> QED BY <2>2, <3>1 DEF Agreed
    <2>3. CASE rfb_state \notin {"password", "Authentication", "SecurityResult"}
        BY <2>3 DEF Comes
    <2> QED BY <2>1, <2>2, <2>3
<1> QED BY <1>1, <1>2, <1>3 DEF Agreed, OneComes, InitComes

\* The version is answered.
LEMMA AgreedVersion ==
    ASSUME Agreed, StreamTypes, rfb_state = "ProtocolVersion",
           NEW q \in Seq(Tokens), NEW rest \in Seq(Tokens), q \o rest = Stream, q # <<>>,
           NEW r, Comes(r, rest), r = Goes("Security", Tail(q), <<"version">>)
    PROVE  Agreed'
<1>1. said = <<>> /\ Len(Stream) = 1 /\ FBU.rects = 0 /\ server.phase # "init"
    BY DEF Agreed
<1>2. /\ rfb_state' = "Security" /\ Stream' = Tail(q) \o rest /\ said' = said \o <<"version">>
      /\ ~prompt' /\ UNCHANGED <<server, FBU>>
    <2>1. r.state = "Security" /\ r.q = Tail(q) /\ r.says = <<"version">>
        BY DEF Goes
    <2> QED BY <2>1 DEF Comes
<1>3. said' = <<"version">>
    BY <1>1, <1>2, Words
<1>4. Stream' \in Seq(Tokens) /\ Len(Stream') = 0
    BY <1>1, <1>2, StreamIs
<1>5. Stream' = <<>>
    BY <1>4, EmptySeq
<1> QED BY <1>1, <1>2, <1>3, <1>5 DEF Agreed

\* The result is read.
LEMMA AgreedResult ==
    ASSUME Agreed, StreamTypes, rfb_state = "SecurityResult",
           NEW q \in Seq(Tokens), NEW rest \in Seq(Tokens), q \o rest = Stream, q # <<>>,
           NEW r, Comes(r, rest), r = Goes("ServerInitialisation", Tail(q), <<>> \o <<"init">>)
    PROVE  Agreed'
<1>1. Stream # <<>>
    BY StreamIs
<1>2. said = <<>> /\ Len(Stream) = 1 /\ FBU.rects = 0 /\ server.phase # "init"
    BY <1>1 DEF Agreed, OneComes
<1>3. /\ rfb_state' = "ServerInitialisation" /\ Stream' = Tail(q) \o rest
      /\ said' = said \o (<<>> \o <<"init">>)
      /\ ~prompt' /\ UNCHANGED <<server, FBU>>
    <2>1. r.state = "ServerInitialisation" /\ r.q = Tail(q) /\ r.says = <<>> \o <<"init">>
        BY DEF Goes
    <2> QED BY <2>1 DEF Comes
<1>4. said' = <<"init">>
    BY <1>2, <1>3, Words
<1>5. Stream' \in Seq(Tokens) /\ Len(Stream') = 0
    BY <1>2, <1>3, StreamIs
<1>6. Stream' = <<>>
    BY <1>5, EmptySeq
<1> QED BY <1>2, <1>3, <1>4, <1>6 DEF Agreed, InitComes

\* The handshake is over.
LEMMA AgreedNormal ==
    ASSUME Agreed, StreamTypes, rfb_state = "ServerInitialisation",
           NEW q \in Seq(Tokens), NEW rest \in Seq(Tokens), q \o rest = Stream, q # <<>>,
           NEW r, Comes(r, rest), r = Goes("normal", Tail(q), <<>>)
    PROVE  Agreed'
<1>1. Stream # <<>> /\ Tail(q) \o rest = Tail(Stream)
    BY StreamIs
<1>2. /\ said = <<>> /\ server.phase = "init" /\ FBU.rects = 0
      /\ Read(Message, Tail(Stream)) = Message
    BY <1>1 DEF Agreed, InitComes
<1>3. /\ rfb_state' = "normal" /\ Stream' = Tail(Stream) /\ said' = said \o <<>>
      /\ ~prompt' /\ UNCHANGED <<server, FBU>>
    <2>1. r.state = "normal" /\ r.q = Tail(q) /\ r.says = <<>>
        BY DEF Goes
    <2> QED BY <1>1, <2>1 DEF Comes
<1>4. said' = <<>>
    BY <1>2, <1>3, Words
<1>5. Where(FBU) = Message
    BY <1>2 DEF Where, Between
<1> QED BY <1>2, <1>3, <1>4, <1>5 DEF Agreed

\* The server waits for the security type and perhaps the password.
LEMMA AgreedSecurity ==
    ASSUME ConnInv, Agreed, StreamTypes, rfb_state = "Security",
           NEW q \in Seq(Tokens), NEW rest \in Seq(Tokens), q \o rest = Stream, q # <<>>,
           NEW r, Comes(r, rest),
           r = Authentication(Tail(q), IF server.version = "3.3" THEN <<>> ELSE <<"scheme">>)
    PROVE  Agreed'
<1>1. PICK p, u, says : /\ p = Tail(q) /\ u = Tail(q) \o rest
                        /\ says = IF server.version = "3.3" THEN <<>> ELSE <<"scheme">>
    OBVIOUS
<1>2. /\ Stream # <<>> /\ p \in Seq(Tokens) /\ u = Tail(Stream) /\ u \in Seq(Tokens)
      /\ Len(u) = Len(Stream) - 1 /\ Len(Stream) \in Nat
    BY <1>1, StreamIs
<1>3. /\ said = <<>> /\ ~prompt /\ FBU.rects = 0 /\ server.phase # "init"
      /\ Len(Stream) = IF server.version = "3.3" /\ server.auth = "vnc" THEN 2 ELSE 1
    BY <1>2 DEF Agreed
<1>4. /\ server.version = "3.3" /\ server.auth = "vnc" => Len(u) = 1
      /\ ~(server.version = "3.3" /\ server.auth = "vnc") => u = <<>>
    BY <1>2, <1>3, EmptySeq
<1>5. /\ \A w \in Seq(Say) : <<>> \o w = w
      /\ says \in Seq(Say) /\ <<"init">> \in Seq(Say) /\ <<"response">> \in Seq(Say)
      /\ says \o <<"init">> = IF server.version = "3.3" THEN <<"init">> ELSE <<"scheme", "init">>
    <2>1. CASE server.version = "3.3"
        <3>1. says = <<>>
            BY <1>1, <2>1
        <3> QED BY <2>1, <3>1, Words
    <2>2. CASE server.version # "3.3"
        <3>1. says = <<"scheme">>
            BY <1>1, <2>2
        <3> QED BY <2>2, <3>1, Words
    <2> QED BY <2>1, <2>2
<1>6. UNCHANGED <<server, FBU>> /\ rfb_state' = r.state
    BY DEF Comes
<1>7. CASE /\ server.auth = "none" /\ server.version = "3.8"
           /\ r = Goes("SecurityResult", p, says)
    <2>1. r.state = "SecurityResult" /\ r.q = p /\ r.says = says
        BY <1>7 DEF Goes
    <2>2. said' = says /\ Stream' = u /\ ~prompt'
        BY <1>1, <1>3, <1>5, <2>1 DEF Comes
    <2> QED BY <1>1, <1>3, <1>4, <1>6, <1>7, <2>1, <2>2 DEF Agreed, OneComes
<1>8. CASE /\ server.auth = "none" /\ server.version # "3.8"
           /\ r = Goes("ServerInitialisation", p, says \o <<"init">>)
    <2>1. r.state = "ServerInitialisation" /\ r.q = p /\ r.says = says \o <<"init">>
        BY <1>8 DEF Goes
    <2>2. Stream' = u /\ ~prompt' /\ said' = <<>> \o (says \o <<"init">>)
        BY <1>1, <1>3, <2>1 DEF Comes
    <2>3. said' = IF server.version = "3.3" THEN <<"init">> ELSE <<"scheme", "init">>
        <3>1. says \o <<"init">> \in Seq(Say)
            BY <1>5, ConcatProperties
        <3> QED BY <1>5, <2>2, <3>1
    <2> QED BY <1>3, <1>4, <1>6, <1>8, <2>1, <2>2, <2>3 DEF Agreed, InitComes
<1>9. CASE /\ server.auth = "vnc"
           /\ r = Goes("password", p, says) \/ r = Goes("Authentication", p, says)
    <2>1. r.state \in {"password", "Authentication"} /\ r.q = p /\ r.says = says
        BY <1>9 DEF Goes
    <2>2. said' = says /\ Stream' = u
        BY <1>1, <1>3, <1>5, <2>1 DEF Comes
    <2>3. OneComes'
        BY <1>1, <1>4, <1>6, <1>9, <2>2 DEF OneComes
    <2> QED BY <1>3, <1>6, <1>9, <2>1, <2>3 DEF Agreed
<1>10. CASE /\ server.auth = "vnc" /\ p # <<>>
            /\ r = Goes("SecurityResult", Tail(p), says \o <<"response">>)
    <2>1. /\ r.state = "SecurityResult" /\ r.q = Tail(p) /\ r.says = says \o <<"response">>
        BY <1>10 DEF Goes
    <2>2. u # <<>> /\ Tail(p) \o rest = Tail(u)
        <3>1. u = p \o rest
            BY <1>1
        <3>2. p \in Seq(Tokens) /\ p # <<>>
            BY <1>2, <1>10
        <3>3. p \o rest # <<>> /\ Tail(p \o rest) = Tail(p) \o rest
            BY <3>2, StreamTail
        <3> QED BY <3>1, <3>3
    <2>3. server.version = "3.3" /\ Len(u) = 1 /\ says = <<>>
        BY <1>1, <1>4, <1>10, <2>2
    <2>4. Tail(u) \in Seq(Tokens) /\ Len(Tail(u)) = 0
        BY <1>2, <2>2, <2>3, HeadTailProperties
    <2>5. Stream' = <<>>
        BY <2>1, <2>2, <2>4, EmptySeq DEF Comes
    <2>6. said' = <<>> \o (<<>> \o <<"response">>) /\ ~prompt'
        BY <1>3, <2>1, <2>3 DEF Comes
    <2>7. said' = <<"response">>
        BY <1>5, <2>6
    <2> QED BY <1>3, <1>6, <2>1, <2>5, <2>6, <2>7 DEF Agreed, OneComes
<1>11. r = Authentication(p, says)
    BY <1>1
<1> QED BY <1>7, <1>8, <1>9, <1>10, <1>11, AuthenticationGoes

\* The password is asked for, or known and the challenge answered.
LEMMA AgreedAuthentication ==
    ASSUME ConnInv, Agreed, StreamTypes, rfb_state = "Authentication",
           NEW q \in Seq(Tokens), NEW rest \in Seq(Tokens), q \o rest = Stream,
           NEW r, Comes(r, rest), r = Authentication(q, <<>>)
    PROVE  Agreed'
<1>1. /\ server.auth = "vnc" /\ OneComes /\ FBU.rects = 0 /\ server.phase # "init"
    BY DEF Agreed
<1>2. UNCHANGED <<server, FBU>> /\ rfb_state' = r.state
    BY DEF Comes
<1>3. /\ \A w \in Seq(Say) : <<>> \o w = w /\ w \o <<>> = w
      /\ <<"response">> \in Seq(Say)
    BY Words
<1>4. said \in Seq(Say)
    BY SaidIs DEF InitStates
<1>5. CASE r = Goes("password", q, <<>>) \/ r = Goes("Authentication", q, <<>>)
    <2>1. r.state \in {"password", "Authentication"} /\ r.q = q /\ r.says = <<>>
        BY <1>5 DEF Goes
    <2>2. said' = said /\ Stream' = Stream
        BY <1>3, <1>4, <2>1 DEF Comes
    <2>3. OneComes'
        BY <1>1, <1>2, <2>2 DEF OneComes
    <2> QED BY <1>1, <1>2, <2>1, <2>3 DEF Agreed
<1>6. CASE q # <<>> /\ r = Goes("SecurityResult", Tail(q), <<>> \o <<"response">>)
    <2>1. r.state = "SecurityResult" /\ r.q = Tail(q) /\ r.says = <<>> \o <<"response">>
        BY <1>6 DEF Goes
    <2>2. Stream # <<>> /\ Tail(q) \o rest = Tail(Stream)
        BY <1>6, StreamIs
    <2>3. said = <<>> /\ Len(Stream) = 1
        BY <1>1, <2>2 DEF OneComes
    <2>4. Stream' \in Seq(Tokens) /\ Len(Stream') = 0
        BY <2>1, <2>2, <2>3, StreamIs DEF Comes
    <2>5. Stream' = <<>>
        BY <2>4, EmptySeq
    <2>6. said' = <<>> \o (<<>> \o <<"response">>)
        BY <2>1, <2>3 DEF Comes
    <2>7. said' = <<"response">>
        BY <1>3, <2>6
    <2> QED BY <1>1, <1>2, <2>1, <2>5, <2>7 DEF Agreed, OneComes
<1> QED BY <1>1, <1>5, <1>6, AuthenticationGoes

\* init_msg.
LEMMA AgreedInit ==
    ASSUME ConnInv, Agreed, StreamTypes, rfb_state \in InitStates,
           NEW q \in Seq(Tokens), NEW rest \in Seq(Tokens), q \o rest = Stream,
           NEW r, r = InitMsg(q), Comes(r, rest)
    PROVE  Agreed'
<1>1. r.state # "failed"
    BY DEF Comes
<1>2. CASE r.state = rfb_state /\ r.q = q /\ r.says = <<>>
    BY <1>2, AgreedStays
<1>3. CASE rfb_state = "Authentication"
    <2>1. r = Authentication(q, <<>>)
        BY <1>3 DEF InitMsg
    <2> QED BY <1>3, <2>1, AgreedAuthentication
<1>4. CASE rfb_state = "password" \/ (q = <<>> /\ rfb_state # "Authentication")
    <2>1. r = Goes(rfb_state, q, <<>>)
        BY <1>4 DEF InitMsg, InitStates
    <2> QED BY <1>2, <2>1 DEF Goes
<1>5. CASE rfb_state = "ProtocolVersion" /\ q # <<>>
    <2>1. r = Goes("Security", Tail(q), <<"version">>)
        BY <1>5 DEF InitMsg
    <2> QED BY <1>5, <2>1, AgreedVersion
<1>6. CASE rfb_state = "Security" /\ q # <<>>
    <2>1. r = Authentication(Tail(q), IF server.version = "3.3" THEN <<>> ELSE <<"scheme">>)
        BY <1>6 DEF InitMsg
    <2> QED BY <1>6, <2>1, AgreedSecurity
<1>7. CASE rfb_state = "SecurityResult" /\ q # <<>>
    <2>1. \/ r = Goes("failed", q, <<>>)
          \/ r = ClientInitialisation(Tail(q), <<>>)
        BY <1>7 DEF InitMsg
    <2>2. r = Goes("ServerInitialisation", Tail(q), <<>> \o <<"init">>)
        BY <1>1, <2>1 DEF Goes, ClientInitialisation
    <2> QED BY <1>7, <2>2, AgreedResult
<1>8. CASE rfb_state = "ServerInitialisation" /\ q # <<>>
    <2>1. r = Goes("normal", Tail(q), <<>>)
        BY <1>8 DEF InitMsg
    <2> QED BY <1>8, <2>1, AgreedNormal
<1> QED BY <1>3, <1>4, <1>5, <1>6, <1>7, <1>8 DEF InitStates

\* As long as the form is submitted once, what is waited for is a challenge.
LEMMA ChallengedInit ==
    ASSUME ConnInv, Agreed, Challenged, StreamTypes, rfb_state \in InitStates,
           NEW q \in Seq(Tokens), NEW rest \in Seq(Tokens), q \o rest = Stream,
           NEW r, r = InitMsg(q), Comes(r, rest), Agreed'
    PROVE  Challenged'
<1>1. rfb_state' = r.state /\ Stream' = r.q \o rest /\ said' = said \o r.says /\ again' = again
    BY DEF Comes
<1>2. CASE r.q = q /\ r.says = <<>> /\ r.state \in {"Security", "Authentication", "password"}
           /\ (r.state = rfb_state \/ rfb_state = "Authentication")
           /\ (r.state = "Security" => rfb_state = "Security")
    <2>1. said' = said
        <3>1. said \in Seq(Say)
            BY SaidIs
        <3> QED BY <1>1, <1>2, <3>1, Words
    <2>2. Stream' = Stream
        BY <1>1, <1>2
    <2> QED BY <1>1, <1>2, <2>1, <2>2 DEF Challenged
<1>3. CASE r.state \notin {"Security", "Authentication", "password"}
    BY <1>1, <1>3 DEF Challenged
<1>4. CASE rfb_state = "password" \/ (q = <<>> /\ rfb_state # "Authentication")
    <2>1. r = Goes(rfb_state, q, <<>>)
        BY <1>4 DEF InitMsg, InitStates
    <2>2. r.state = rfb_state /\ r.q = q /\ r.says = <<>>
        BY <2>1 DEF Goes
    <2> QED BY <1>2, <1>3, <2>2
<1>5. CASE rfb_state = "Authentication"
    <2>1. r = Authentication(q, <<>>) /\ server.auth = "vnc"
        BY <1>5 DEF InitMsg, Agreed
    <2>2. \/ r = Goes("password", q, <<>>)
          \/ r = Goes("Authentication", q, <<>>)
          \/ r = Goes("SecurityResult", Tail(q), <<>> \o <<"response">>)
        BY <2>1, AuthenticationGoes
    <2>3. \/ r.state \in {"password", "Authentication"} /\ r.q = q /\ r.says = <<>>
          \/ r.state = "SecurityResult"
        BY <2>2 DEF Goes
    <2> QED BY <1>2, <1>3, <1>5, <2>3
<1>6. CASE rfb_state = "ProtocolVersion" /\ q # <<>>
    <2>1. r = Goes("Security", Tail(q), <<"version">>)
        BY <1>6 DEF InitMsg
    <2>2. r.state = "Security" /\ r.says = <<"version">> /\ said = <<>>
        BY <1>6, <2>1 DEF Goes, Agreed
    <2>3. said' = <<"version">>
        BY <1>1, <2>2, Words
    <2>4. Stream' = <<>>
        BY <1>1, <2>2, <2>3 DEF Agreed
    <2>5. Len(Stream') = 0
        BY <2>4, EmptySeq
    <2> QED BY <1>1, <2>2, <2>5 DEF Challenged
<1>7. CASE rfb_state = "Security" /\ q # <<>>
    <2>1. PICK p, says : /\ p = Tail(q)
                         /\ says = IF server.version = "3.3" THEN <<>> ELSE <<"scheme">>
        OBVIOUS
    <2>2. r = Authentication(p, says)
        BY <1>7, <2>1 DEF InitMsg
    <2>3. \/ r.state \in {"password", "Authentication"} /\ r.q = p /\ r.says = says
          \/ r.state \in {"SecurityResult", "ServerInitialisation"}
        BY <2>2, AuthenticationGoes DEF Goes
    <2>4. CASE r.state \in {"password", "Authentication"} /\ r.q = p /\ r.says = says
        <3>1. Stream # <<>> /\ Stream' = Tail(Stream) /\ Len(Tail(Stream)) = Len(Stream) - 1
              /\ Tail(Stream) \in Seq(Tokens) /\ Len(Stream) \in Nat
            <4>1. Stream # <<>> /\ Tail(q) \o rest = Tail(Stream)
                BY <1>7, StreamIs
            <4>2. Stream' = Tail(q) \o rest
                BY <1>1, <2>1, <2>4
            <4>3. Tail(Stream) \in Seq(Tokens) /\ Len(Tail(Stream)) = Len(Stream) - 1
                  /\ Len(Stream) \in Nat
                BY <4>1, StreamIs
            <4> QED BY <4>1, <4>2, <4>3
        <3>2. said = <<>> /\ (Len(Stream) = 1 \/ Len(Stream) = 2)
            BY <1>7, <3>1 DEF Agreed
        <3>3. said' # <<"response">>
            <4>1. said' = says
                BY <1>1, <2>1, <2>4, <3>2, Words
            <4>2. <<"scheme">> # <<"response">> /\ <<>> # <<"response">>
                OBVIOUS
            <4> QED BY <2>1, <4>1, <4>2
        <3>4. Stream' # <<>> => Head(Stream').k = "challenge"
            <4>1. Len(Stream) = 1 => Stream' = <<>>
                BY <3>1, EmptySeq
            <4>2. Len(Stream) = 2 => Head(Tail(Stream)).k = "challenge"
                BY <1>7 DEF Challenged
            <4> QED BY <3>1, <3>2, <4>1, <4>2
        <3> QED BY <1>1, <2>4, <3>3, <3>4 DEF Challenged
    <2> QED BY <1>3, <2>3, <2>4
<1>8. CASE rfb_state \in {"SecurityResult", "ServerInitialisation"} /\ q # <<>>
    <2>1. r.state \in {"failed", "ServerInitialisation", "normal"}
        BY <1>8 DEF InitMsg, Goes, ClientInitialisation
    <2> QED BY <1>3, <2>1
<1> QED BY <1>4, <1>5, <1>6, <1>7, <1>8 DEF InitStates

\* Only a result can be taken for a challenge, and only by a second one.
LEMMA MistakesAgain ==
    ASSUME Challenged, StreamTypes,
           NEW q \in Seq(Tokens), NEW rest \in Seq(Tokens), q \o rest = Stream, Mistakes(q)
    PROVE  again
<1>1. rfb_state = "Authentication" /\ q # <<>> /\ Head(q).k = "refused"
    BY DEF Mistakes
<1>2. Stream # <<>> /\ Head(Stream) = Head(q)
    BY <1>1, StreamTail
<1> QED BY <1>1, <1>2 DEF Challenged

\* init_msg, for the whole of the invariant.
LEMMA ReadInitialised ==
    ASSUME ConnInv, PaintInv, ReadInv, rfb_state \in InitStates, ~torn, ~confused,
           NEW q \in Seq(Tokens), NEW rest \in Seq(Tokens), Firm(q), q \o rest = Stream,
           Initialised(InitMsg(q)),
           InitMsg(q).state # "failed" => wire' = rest,
           confused' = (confused \/ Mistakes(q)), UNCHANGED <<server, FBU, again>>
    PROVE  ReadInv'
<1>1. PICK r : r = InitMsg(q)
    OBVIOUS
<1>2. CASE r.state = "failed"
    <2>1. Fail
        BY <1>1, <1>2 DEF Initialised
    <2>2. ~confused'
        <3> SUFFICES ASSUME rfb_state = "Authentication", server.auth = "vnc" PROVE FALSE
            BY DEF Mistakes
        <3>1. r = Authentication(q, <<>>)
            BY <1>1 DEF InitMsg
        <3>2. r.state \in {"password", "Authentication", "SecurityResult"}
            BY <3>1, AuthenticationGoes DEF Goes
        <3> QED BY <1>2, <3>2
    <2> QED BY <2>1, <2>2, ReadFails
<1>3. CASE r.state # "failed"
    <2>1. /\ rfb_state' = r.state /\ rQ' = r.q /\ wire' = rest /\ said' = said \o r.says
          /\ prompt' = CASE r.state = "password" -> TRUE
                         [] r.state \in {"Authentication", "SecurityResult"} -> prompt
                         [] OTHER -> FALSE
          /\ link' = link
        BY <1>1, <1>3 DEF Initialised
    <2>2. link # "closed" /\ StreamTypes
        BY DEF ConnInv, InitStates, Unconnected, PaintInv
    <2>3. Agreed /\ Challenged /\ Remembered(FBU)
        BY <2>2 DEF ReadInv
    <2>4. Comes(r, rest)
        BY <1>3, <2>1 DEF Comes, Stream
    <2>5. Agreed'
        BY <1>1, <2>2, <2>3, <2>4, AgreedInit
    <2>6. Firm(rQ')
        BY <1>1, <2>1, InitMsgTakes, TakesFirm
    <2>7. Challenged'
        BY <1>1, <2>2, <2>3, <2>4, <2>5, ChallengedInit
    <2>8. confused' => again'
        BY <2>2, <2>3, MistakesAgain
    <2> QED BY <2>3, <2>5, <2>6, <2>7, <2>8 DEF ReadInv
<1> QED BY <1>2, <1>3

\* A frame arrives.
LEMMA ReadReceives ==
    ASSUME ConnInv, PaintInv, ReadInv, Receive
    PROVE  ReadInv'
<1>1. PICK n \in 1 .. Len(wire) : RecvMessage(n)
    BY DEF Receive
<1>2. link = "open"
    BY <1>1, EmptySeq DEF ConnInv
<1>3. torn' = (torn \/ Fragile(wire[n])) /\ ~confused /\ UNCHANGED <<server, again>>
    BY <1>1 DEF RecvMessage, serverVars
<1>4. rQ \in Seq(Tokens) /\ wire \in Seq(Tokens)
    BY DEF PaintInv, StreamTypes
<1>5. PICK q, rest : q = rQ \o SubSeq(wire, 1, n) /\ rest = SubSeq(wire, n + 1, Len(wire))
    OBVIOUS
<1>6. /\ q \in Seq(Tokens) /\ q # <<>> /\ rest \in Seq(Tokens) /\ q \o rest = Stream
      /\ q[Len(q)] = wire[n]
    <2>1. Cut(rQ, wire, n, q, rest)
        BY <1>5 DEF Cut
    <2> QED BY <1>4, <2>1, CutIs DEF Stream
<1>7. CASE torn'
    BY <1>7 DEF ReadInv
<1>8. CASE ~torn'
    <2>1. ~torn /\ Firm(q)
        BY <1>3, <1>6, <1>8 DEF Firm
    <2>2. CASE rfb_state = "normal"
        <3>1. Normal(q, timers) /\ wire' = rest
            BY <1>1, <1>5, <2>2 DEF RecvMessage
        <3> QED BY <1>3, <1>6, <2>1, <2>2, <3>1, ReadNormal
    <2>3. CASE rfb_state # "normal"
        <3>1. /\ Initialised(InitMsg(q)) /\ (InitMsg(q).state # "failed" => wire' = rest)
              /\ confused' = (confused \/ Mistakes(q)) /\ UNCHANGED FBU
            BY <1>1, <1>5, <2>3 DEF RecvMessage
        <3>2. rfb_state \in InitStates
            BY <1>2, <2>3 DEF ConnInv, Phases
        <3> QED BY <1>3, <1>6, <2>1, <3>1, <3>2, ReadInitialised
    <2> QED BY <2>2, <2>3
<1> QED BY <1>7, <1>8

\* What was received is handled later.
LEMMA ReadTimers ==
    ASSUME ConnInv, PaintInv, ReadInv, ~confused, MsgTimer \/ InitTimer
    PROVE  ReadInv'
<1>1. rQ \in Seq(Tokens) /\ wire \in Seq(Tokens)
    BY DEF PaintInv, StreamTypes
<1>2. UNCHANGED <<server, torn, again>>
    BY DEF MsgTimer, InitTimer, serverVars
<1>3. CASE torn
    BY <1>2, <1>3 DEF ReadInv
<1>4. CASE ~torn /\ MsgTimer
    <2>1. rfb_state = "normal" /\ wire' = wire
        BY <1>4 DEF MsgTimer
    <2>2. Firm(rQ)
        BY <1>4, <2>1 DEF ReadInv, ConnInv, Unconnected
    <2>3. CASE rQ # <<>>
        <3>1. Normal(rQ, timers \ {"msg"})
            BY <1>4, <2>3 DEF MsgTimer
        <3>2. rQ \o wire = Stream
            BY DEF Stream
        <3> QED BY <1>1, <1>2, <1>4, <2>1, <2>2, <2>3, <3>1, <3>2, ReadNormal
    <2>4. CASE rQ = <<>>
        <3>1. UNCHANGED <<server, wire, link, said, torn, rfb_state, rQ, FBU, prompt,
                        confused, again>>
            BY <1>2, <1>4, <2>4 DEF MsgTimer
        <3> QED BY <3>1, ReadFrame
    <2> QED BY <2>3, <2>4
<1>5. CASE ~torn /\ InitTimer
    <2>1. UNCHANGED FBU
        BY <1>5 DEF InitTimer
    <2>2. CASE rfb_state \in InitStates
        <3>1. Initialised(InitMsg(rQ)) /\ (InitMsg(rQ).state # "failed" => wire' = wire)
              /\ confused' = (confused \/ Mistakes(rQ))
            BY <1>5, <2>2 DEF InitTimer
        <3>2. Firm(rQ)
            BY <1>5, <2>2 DEF ReadInv, ConnInv, InitStates, Unconnected
        <3>3. rQ \o wire = Stream
            BY DEF Stream
        <3> QED BY <1>1, <1>2, <1>5, <2>1, <2>2, <3>1, <3>2, <3>3, ReadInitialised
    <2>3. CASE rfb_state \notin InitStates
        <3>1. UNCHANGED <<server, wire, link, said, torn, rfb_state, rQ, FBU, prompt,
                        confused, again>>
            BY <1>2, <1>5, <2>1, <2>3 DEF InitTimer
        <3> QED BY <3>1, ReadFrame
    <2> QED BY <2>2, <2>3
<1> QED BY <1>3, <1>4, <1>5

\* The server greets the page.
LEMMA ReadOpens ==
    ASSUME ConnInv, PaintInv, ReadInv, OnOpen
    PROVE  ReadInv'
<1>1. /\ link = "connecting" /\ rfb_state' = "ProtocolVersion"
      /\ wire' = <<Handshake("version")>>
      /\ UNCHANGED <<server, said, torn, rQ, FBU, prompt, confused, again>>
    BY DEF OnOpen, serverVars
<1>2. rfb_state = "connect"
    BY <1>1 DEF ConnInv
<1> SUFFICES ASSUME ~torn, ~confused
             PROVE  Agreed' /\ Challenged' /\ Firm(rQ) /\ Remembered(FBU)
    BY <1>1 DEF ReadInv
<1>3. Agreed /\ Firm(rQ) /\ Remembered(FBU)
    BY <1>1 DEF ReadInv
<1>4. Stream = <<>> /\ said = <<>> /\ ~prompt /\ FBU.rects = 0 /\ server.phase # "init"
    BY <1>2, <1>3 DEF Agreed
<1>5. Len(Stream') = 1
    <2>1. PICK p : p = <<Handshake("version")>>
        OBVIOUS
    <2>5. p \in Seq(Tokens) /\ Len(p) = 1
        BY <2>1, TokensAre, OneIs, HandshakesAre
    <2>2. rQ \in Seq(Tokens) /\ wire \in Seq(Tokens)
        BY DEF PaintInv, StreamTypes
    <2>3. rQ = <<>>
        BY <1>4, <2>2, ConcatSimplifications DEF Stream
    <2>4. <<>> \o p = p
        BY <2>5, ConcatEmptySeq
    <2> QED BY <1>1, <2>1, <2>3, <2>4, <2>5 DEF Stream
<1>6. Challenged'
    BY <1>1 DEF Challenged
<1> QED BY <1>1, <1>3, <1>4, <1>5, <1>6 DEF Agreed

\* The form is submitted, perhaps again.
LEMMA ReadPassword ==
    ASSUME ReadInv, SendPassword
    PROVE  ReadInv'
<1>1. /\ prompt /\ rfb_state' = "Authentication"
      /\ UNCHANGED <<server, wire, link, said, torn, rQ, FBU, prompt, confused>>
      /\ again' = (again \/ rfb_state # "password")
    BY DEF SendPassword, serverVars, linkVars
<1>2. UNCHANGED Stream
    BY <1>1 DEF Stream
<1>3. Agreed => Agreed'
    BY <1>1, <1>2 DEF Agreed, OneComes
<1>4. Challenged => Challenged'
    BY <1>1, <1>2 DEF Challenged
<1> QED BY <1>1, <1>3, <1>4 DEF ReadInv

\* The events of the page, of the server and of the user.
LEMMA ReadPage ==
    ASSUME ConnInv, PaintInv, ReadInv, ~confused, PageEvent
    PROVE  ReadInv'
<1>1. CASE Drop \/ ConnectTimeout
    <2>1. Fail /\ UNCHANGED <<torn, confused, again>>
        BY <1>1 DEF Drop, OnClose, ConnectTimeout
    <2> QED BY <2>1, ReadFails
<1>2. CASE FailedTimer
    <2>1. link = "closed" /\ UNCHANGED <<link, torn, confused, again>>
        BY <1>2 DEF FailedTimer, linkVars, ConnInv
    <2> QED BY <2>1 DEF ReadInv
<1>3. CASE Flush \/ AnimFrame \/ \E n \in loading : ImageLoads(n)
    <2>1. UNCHANGED <<server, wire, link, said, torn, rfb_state, rQ, FBU, prompt,
                    confused, again>>
        BY <1>3 DEF Flush, AnimFrame, ImageLoads, serverVars, linkVars, pageVars
    <2> QED BY <2>1, ReadFrame
<1> QED
    BY <1>1, <1>2, <1>3, ReadOpens, ReadReceives, ReadTimers, ReadPassword DEF PageEvent

\* The server draws, updates and notifies.
LEMMA ReadServerEvent ==
    ASSUME ConnInv, PaintInv, ReadInv, ServerEvent
    PROVE  ReadInv'
<1>1. sent \in Nat
    BY DEF PaintInv, StreamTypes
<1>2. CASE Draw
    <2>1. UNCHANGED <<server, wire, link, said, torn, rfb_state, rQ, FBU, prompt,
                    confused, again>>
        BY <1>2 DEF Draw, linkVars, pageVars
    <2> QED BY <2>1, ReadFrame
<1>3. CASE ServerUpdates
    <2>1. PICK encs \in Updates : Send(UpdateTokens(encs))
        BY <1>3 DEF ServerUpdates
    <2>2. PICK tokens \in Seq(Tokens) : tokens = UpdateTokens(encs) /\ Read(Message, tokens) = Message
        BY <1>1, UpdateRead
    <2>3. /\ Ready
          /\ UNCHANGED <<server, link, said, torn, rfb_state, rQ, FBU, prompt,
                    confused, again>>
        BY <1>3 DEF ServerUpdates, pageVars
    <2> QED BY <2>1, <2>2, <2>3, ReadSends
<1>4. ASSUME NEW m \in Notices, Notice(m) PROVE ReadInv'
    <2>1. PICK tokens \in Seq(Tokens) : tokens = NoticeTokens(m) /\ Read(Message, tokens) = Message
        BY NoticeRead
    <2>2. /\ Ready /\ Send(tokens)
          /\ UNCHANGED <<server, link, said, torn, rfb_state, rQ, FBU, prompt,
                    confused, again>>
        BY <1>4, <2>1 DEF Notice, pageVars
    <2> QED BY <2>1, <2>2, ReadSends
<1> QED BY <1>2, <1>3, <1>4, ReadServer DEF ServerEvent

\* Every step.
LEMMA ReadStep ==
    ASSUME ConnInv, PaintInv, ReadInv, [Next]_vars
    PROVE  ReadInv'
<1>1. CASE UserEvent \/ MouseMove \/ AskTimer \/ CheckEvents \/ UNCHANGED vars
    <2>1. UNCHANGED <<server, wire, link, said, torn, rfb_state, rQ, FBU, prompt,
                    confused, again>>
        BY <1>1 DEF UserEvent, MouseMove, AskTimer, CheckEvents, vars, streamVars, serverVars,
                    linkVars, pageVars, Rest
    <2> QED BY <2>1, ReadFrame
<1> QED BY <1>1, ReadPage, ReadServerEvent DEF Next

\* The start.
LEMMA ReadStarts == ASSUME Init PROVE ReadInv
<1>1. /\ rQ = <<>> /\ wire = <<>> /\ FBU = NoUpdate /\ said = <<>> /\ ~prompt
      /\ rfb_state = "connect" /\ server.phase = "accept" /\ ~confused
    BY DEF Init, StreamInit
<1>2. Stream = <<>>
    BY <1>1 DEF Stream
<1>3. FBU.rects = 0
    BY <1>1 DEF NoUpdate
<1>4. Firm(rQ) /\ Remembered(FBU)
    BY <1>1, <1>3 DEF Firm, Remembered
<1> QED BY <1>1, <1>2, <1>3, <1>4 DEF ReadInv, Agreed, Challenged

\* So what is read is what the server sent.
LEMMA ReadHolds == Spec => []ReadInv
<1>1. Init => ReadInv
    BY ReadStarts
<1>2. ConnInv /\ PaintInv /\ ReadInv /\ [Next]_vars => ReadInv'
    BY ReadStep
<1> QED BY <1>1, <1>2, ConnHolds, PaintHolds, PTL DEF Spec

\* NothingMisread for every server that keeps to the protocol, however its
\* bytes are cut into frames: only a frame that ends where rfb.js does not wait
\* for what follows, or a password form submitted again, makes the page take
\* bytes for something else.
THEOREM NothingIsMisread == Spec => []NothingMisread
<1>1. ReadInv => NothingMisread
    BY DEF ReadInv, NothingMisread
<1> QED BY <1>1, ReadHolds, PTL

=============================================================================

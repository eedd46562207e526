--------------------------- MODULE AccountsProofs ---------------------------
(***************************************************************************)
(* Proofs about machines and the accounts of their owners, for any number  *)
(* of forms, hosts, deletions and failures: no domain is deleted for       *)
(* somebody else's machine, and a machine that is listed has its domain.   *)
(* Both rest on the hostname: as long as no guest is destroyed too early,  *)
(* the row of a form keeps its hostname from all others, but for those     *)
(* that were validated at the same time.                                   *)
(***************************************************************************)
EXTENDS Accounts, TLAPS

USE DEF historyVars, NoJob

Runs == Requests \X Nat

CPCs == {"none", "saved", "lost", "queued", "list", "define", "find", "volume",
         "assign", "row", "given", "rescue", "performed", "raised", "done"}

\* Where a deletion works on the domain of its target ...
Working == {"stop", "find", "lookup", "kill", "undefine"}

\* ... and where the cleanup has one row of its list in hand.
Holding == Working \union {"row"}

DPCs == Holding \union {"none", "queued", "next", "performed", "done", "failed"}

\* Where a create job relies on the domain.
BuiltAt == {"volume", "assign", "row"}

Kinds == {"crash", "deleteCrash", "fault", "silent", "start", "early", "any"}

\* No guest was destroyed too early.
OnTime == Never({"early"})

BudgetOk ==
    /\ budget \in [Kinds -> Nat]
    /\ \A k \in Kinds : budget[k] <= Bounds[k]

Types ==
    /\ newm \in [Requests -> {"none", "valid", "pending", "finished", "error", "destroyed"}]
    /\ meta \subseteq Runs
    /\ domain \in [Hosts -> Runs \union {None}]
    /\ tries \in [Requests -> Nat]
    /\ cpc \in [Requests -> CPCs]
    /\ dpc \in [Deletions -> DPCs]
    /\ target \in [Deletions -> Runs \union {None}]

\* What a deletion is for was asked to be deleted.
AskedFor ==
    \A d \in Deletions :
        dpc[d] \in Holding \/ (d # cleanup /\ dpc[d] # "none") =>
            target[d] \in Runs /\ target[d][1] \in asked

\* Nobody else writes rows during the transaction of the cleanup.
Transaction ==
    /\ dpc[cleanup] # "none" => Rows = todo \union cleared
    /\ dpc[cleanup] \in Holding => target[cleanup] \in todo

Claims(r) == newm[r] = "valid" \/ Saved(r)

OneForm ==
    \A r, s \in Requests :
        r # s /\ Saved(r) /\ Claims(s) /\ HostOf[r] = HostOf[s] => r \in rivals /\ s \in rivals

HasForm == \A r \in Requests : cpc[r] \notin NoJob => Saved(r)

DomainHasForm ==
    \A h \in Hosts : Exists(h) => /\ domain[h] \in Runs
                                  /\ HostOf[domain[h][1]] = h
                                  /\ Saved(domain[h][1])

RowHasForm == \A id \in meta : Saved(id[1])

TargetHasForm == \A d \in Deletions : dpc[d] \in Working => Saved(target[d][1])

\* The forms that no more is claimed of.
Excused == asked \union rivals

USE DEF Excused

Built == \A r \in Requests : cpc[r] \in BuiltAt => r \in Excused \/ Exists(HostOf[r])

RowBuilt == \A id \in meta : id[1] \in Excused \/ Exists(Host(id))

Owned ==
    /\ OneForm /\ HasForm /\ DomainHasForm /\ RowHasForm /\ TargetHasForm
    /\ Built /\ RowBuilt

Inv == BudgetOk /\ Types /\ AskedFor /\ Transaction /\ (OnTime => Owned)

BudgetKept == BudgetOk' /\ (OnTime' => OnTime)

-----------------------------------------------------------------------------
LEMMA BoundsOk ==
  Bounds \in [Kinds -> Nat] /\ \A k \in Kinds : Bounds[k] <= Bounds[k]
  BY MachinesAssumption DEF Bounds, Kinds

LEMMA InitInv == AccountsInit => Inv
  <1> SUFFICES ASSUME AccountsInit
               PROVE  Inv
    OBVIOUS
  <1>1. BudgetOk
    BY BoundsOk DEF AccountsInit, Init, BudgetOk
  <1>2. Types /\ AskedFor
    BY DEF AccountsInit, Init, Types, AskedFor, Holding, Working, CPCs, DPCs
  <1>3. Transaction
    BY AccountsAssumption DEF AccountsInit, Init, Transaction, Holding, Working
  <1>4. OneForm /\ HasForm /\ DomainHasForm /\ RowHasForm /\ TargetHasForm
        /\ Built /\ RowBuilt
    BY DEF AccountsInit, Init, OneForm, HasForm, DomainHasForm, RowHasForm,
           TargetHasForm, Built, RowBuilt, Claims, Saved, Exists, Working, BuiltAt
  <1> QED
    BY <1>1, <1>2, <1>3, <1>4 DEF Inv, Owned

\* What happened once has happened: what never happened yet, never had before.
LEMMA Spent ==
  ASSUME BudgetOk, NEW kind \in Kinds \ {"any"}, Spend(kind), NEW kinds \in SUBSET Kinds
  PROVE  BudgetOk' /\ (Never(kinds)' => Never(kinds) /\ kind \notin kinds)
  <1>1. /\ budget' \in [Kinds -> Nat] /\ budget'[kind] < budget[kind]
        /\ \A k \in Kinds : budget'[k] <= budget[k]
    BY DEF BudgetOk, Spend, Kinds
  <1>2. Bounds \in [Kinds -> Nat] /\ Bounds' = Bounds
    BY BoundsOk DEF Bounds
  <1>3. BudgetOk'
    BY <1>1, <1>2 DEF BudgetOk
  <1>4. ASSUME Never(kinds)' PROVE Never(kinds) /\ kind \notin kinds
    BY <1>1, <1>2, <1>4 DEF Never, BudgetOk
  <1> QED
    BY <1>3, <1>4

\* Failures, crashes and starts do not count as destroyed too early.
LEMMA SpendOther ==
  ASSUME BudgetOk, NEW kind \in {"crash", "deleteCrash", "fault", "silent", "start"},
         Spend(kind)
  PROVE  BudgetKept
  BY Spent DEF BudgetKept, OnTime, Kinds

LEMMA SpendNone ==
  ASSUME BudgetOk, UNCHANGED budget
  PROVE  BudgetKept
  BY DEF BudgetKept, BudgetOk, OnTime, Never, Bounds

\* An update keeps the claims of all forms as they are.
FormsKept == \A s \in Requests : (Saved(s)' <=> Saved(s)) /\ (Claims(s)' <=> Claims(s))

LEMMA UpdateKeeps ==
  ASSUME Types, NEW r \in Requests, Saved(r),
         newm' = newm \/ \E s \in {"finished", "error"} : Update(r, s)
  PROVE  FormsKept /\ newm' \in [Requests -> {"none", "valid", "pending", "finished",
                                              "error", "destroyed"}]
  <1>1. CASE newm' = newm
    BY <1>1 DEF FormsKept, Saved, Claims, Types
  <1>2. CASE \E s \in {"finished", "error"} : Update(r, s)
    <2>1. PICK s \in {"finished", "error"} : newm' = [newm EXCEPT ![r] = s]
      BY <1>2 DEF Update, Saved
    <2> QED
      BY <2>1 DEF FormsKept, Saved, Claims, Types
  <1> QED
    BY <1>1, <1>2

\* Updates of any form, also one that is gone, keep the type.
LEMMA UpdateType ==
  ASSUME Types, NEW r \in Requests,
         newm' = newm \/ \E s \in {"finished", "error"} : Update(r, s)
  PROVE  newm' \in [Requests -> {"none", "valid", "pending", "finished",
                                 "error", "destroyed"}]
  BY DEF Update, Types

\* Steps that leave what the invariant is about.
LEMMA FrameStep ==
  ASSUME Inv, BudgetKept,
         UNCHANGED <<newm, meta, domain, tries, cpc, dpc, target, asked, rivals, todo, cleared>>
  PROVE  Inv'
  <1>1. Types' /\ AskedFor' /\ Transaction'
    BY DEF Inv, Types, AskedFor, Transaction, Rows
  <1>2. Owned => Owned'
    BY DEF Owned, OneForm, HasForm, DomainHasForm, RowHasForm, TargetHasForm, Built,
           RowBuilt, Claims, Saved, Exists, Host
  <1> QED
    BY <1>1, <1>2 DEF Inv, BudgetKept

-----------------------------------------------------------------------------
\* The forms: a hostname is asked for only when nobody else has saved it, and
\* who is validated with whom becomes its rival when the first is saved.
LEMMA ValidateStep ==
  ASSUME Inv, NEW r \in Requests, Validate(r), UNCHANGED accountVars
  PROVE  Inv'
  <1>1. /\ newm[r] = "none" /\ newm' = [newm EXCEPT ![r] = "valid"]
        /\ UNCHANGED <<meta, domain, tries, cpc, dpc, target, asked, rivals, todo, cleared, budget>>
    BY DEF Validate, domainVars, createVars, deleteVars, accountVars, cleanVars
  <1>2. Types' /\ AskedFor' /\ Transaction'
    BY <1>1 DEF Inv, Types, AskedFor, Transaction, Rows
  <1>3. \A s \in Requests : Saved(s)' <=> Saved(s)
    BY <1>1 DEF Inv, Types, Saved
  <1>4. ASSUME OnTime, Owned PROVE Owned'
    <2>1. ~Saved(r) /\ \A s \in Requests \ {r} : Saved(s) => HostOf[s] # HostOf[r]
      BY <1>1 DEF Validate, HostnameUnique, OnlyOne, Saved
    <2>2. \A s \in Requests \ {r} : Claims(s)' => Claims(s)
      BY <1>1 DEF Claims, Inv, Types, Saved
    <2>3. OneForm'
      BY <1>1, <1>3, <1>4, <2>1, <2>2 DEF Owned, OneForm
    <2>4. HasForm' /\ RowHasForm'
      BY <1>1, <1>3, <1>4 DEF Owned, HasForm, RowHasForm, Inv, Types, Runs
    <2>5. DomainHasForm'
      BY <1>1, <1>3, <1>4 DEF Owned, DomainHasForm, Exists, Runs
    <2>6. TargetHasForm'
      <3>1. \A d \in Deletions : dpc[d] \in Working => target[d][1] \in Requests
        BY DEF Inv, AskedFor, Holding, Working, Runs
      <3> QED
        BY <1>1, <1>3, <1>4, <3>1 DEF Owned, TargetHasForm
    <2>7. Built' /\ RowBuilt'
      BY <1>1, <1>4 DEF Owned, Built, RowBuilt, Exists, Host
    <2> QED
      BY <2>3, <2>4, <2>5, <2>6, <2>7 DEF Owned
  <1>5. BudgetKept
    BY <1>1, SpendNone DEF Inv
  <1> QED
    BY <1>2, <1>4, <1>5 DEF Inv, BudgetKept

LEMMA SaveStep ==
  ASSUME Inv, NEW r \in Requests, Save(r), UNCHANGED accountVars
  PROVE  Inv'
  <1>1. /\ newm[r] = "valid" /\ newm' = [newm EXCEPT ![r] = "pending"]
        /\ cpc' = [cpc EXCEPT ![r] = "saved"]
        /\ UNCHANGED <<meta, domain, tries, dpc, target, asked, todo, cleared, budget>>
        /\ rivals \subseteq rivals'
        /\ \A s \in Requests \ {r} :
              newm[s] = "valid" /\ HostOf[s] = HostOf[r] => {r, s} \subseteq rivals'
    BY DEF Save, Create, domainVars, deleteVars, accountVars, cleanVars
  <1>2. Types' /\ AskedFor' /\ Transaction'
    BY <1>1 DEF Inv, Types, AskedFor, Transaction, Rows, CPCs
  <1>3. \A s \in Requests : Saved(s) => Saved(s)'
    BY <1>1 DEF Inv, Types, Saved
  <1>4. \A s \in Requests : Claims(s)' <=> Claims(s)
    BY <1>1 DEF Inv, Types, Saved, Claims
  <1>5. ASSUME Owned PROVE Owned'
    <2>1. OneForm'
      <3>1. SUFFICES ASSUME NEW s \in Requests, NEW t \in Requests, s # t,
                            Saved(s)', Claims(t)', HostOf[s] = HostOf[t]
                     PROVE  s \in rivals' /\ t \in rivals'
        BY DEF OneForm
      <3>2. /\ Claims(s) /\ Claims(t) /\ (s # r => Saved(s))
            /\ Saved(s) \/ newm[s] = "valid"
            /\ Saved(t) \/ newm[t] = "valid"
        BY <1>1, <1>4, <3>1 DEF Inv, Types, Saved, Claims
      <3>3. CASE s # r
        BY <1>1, <1>5, <3>1, <3>2, <3>3 DEF Owned, OneForm
      <3>4. CASE s = r /\ Saved(t)
        BY <1>1, <1>5, <3>1, <3>2, <3>4 DEF Owned, OneForm
      <3>5. CASE s = r /\ newm[t] = "valid"
        BY <1>1, <3>1, <3>5
      <3> QED
        BY <3>2, <3>3, <3>4, <3>5
    <2>2. HasForm' /\ RowHasForm'
      BY <1>1, <1>3, <1>5 DEF Owned, HasForm, RowHasForm, Inv, Types, Runs, Saved
    <2>3. DomainHasForm'
      BY <1>1, <1>3, <1>5 DEF Owned, DomainHasForm, Exists, Runs
    <2>4. TargetHasForm'
      <3>1. \A d \in Deletions : dpc[d] \in Working => target[d][1] \in Requests
        BY DEF Inv, AskedFor, Holding, Working, Runs
      <3> QED
        BY <1>1, <1>3, <1>5, <3>1 DEF Owned, TargetHasForm
    <2>5. Built' /\ RowBuilt'
      BY <1>1, <1>5 DEF Owned, Built, RowBuilt, Exists, Host, BuiltAt, Inv, Types
    <2> QED
      BY <2>1, <2>2, <2>3, <2>4, <2>5 DEF Owned
  <1>6. BudgetKept
    BY <1>1, SpendNone DEF Inv
  <1> QED
    BY <1>2, <1>5, <1>6 DEF Inv, BudgetKept

LEMMA FormRefusedStep ==
  ASSUME Inv, NEW r \in Requests, FormRefused(r), UNCHANGED accountVars
  PROVE  Inv'
  <1>1. /\ newm[r] = "valid" /\ newm' = [newm EXCEPT ![r] = "none"]
        /\ UNCHANGED <<meta, domain, tries, cpc, dpc, target, asked, rivals, todo, cleared,
                       budget>>
    BY DEF FormRefused, domainVars, createVars, deleteVars, accountVars, cleanVars
  <1>2. Types' /\ AskedFor' /\ Transaction'
    BY <1>1 DEF Inv, Types, AskedFor, Transaction, Rows
  <1>3. \A s \in Requests : (Saved(s)' <=> Saved(s)) /\ (Claims(s)' => Claims(s))
    BY <1>1 DEF Inv, Types, Saved, Claims
  <1>4. ASSUME Owned PROVE Owned'
    <2>1. OneForm' /\ HasForm' /\ RowHasForm' /\ DomainHasForm'
      BY <1>1, <1>3, <1>4
         DEF Owned, OneForm, HasForm, RowHasForm, DomainHasForm, Exists, Inv, Types, Runs
    <2>2. \A d \in Deletions : dpc[d] \in Working => target[d][1] \in Requests
      BY DEF Inv, AskedFor, Holding, Working, Runs
    <2>3. TargetHasForm' /\ Built' /\ RowBuilt'
      BY <1>1, <1>3, <1>4, <2>2 DEF Owned, TargetHasForm, Built, RowBuilt, Exists, Host
    <2> QED
      BY <2>1, <2>3 DEF Owned
  <1> QED
    BY <1>1, <1>2, <1>4, SpendNone DEF Inv, BudgetKept

-----------------------------------------------------------------------------
\* What holds of the forms and targets goes on to hold where forms are kept.
LEMMA KeptForms ==
  ASSUME Types, AskedFor, Owned, FormsKept, UNCHANGED <<meta, domain, dpc, target, rivals>>
  PROVE  OneForm' /\ DomainHasForm' /\ RowHasForm' /\ TargetHasForm'
  <1>1. OneForm'
    BY DEF Owned, OneForm, FormsKept
  <1>2. DomainHasForm'
    BY DEF Owned, DomainHasForm, FormsKept, Exists, Runs
  <1>3. RowHasForm'
    BY DEF Owned, RowHasForm, FormsKept, Types, Runs
  <1>4. \A d \in Deletions : dpc[d] \in Working => target[d][1] \in Requests
    BY DEF AskedFor, Holding, Working, Runs
  <1>5. TargetHasForm'
    BY <1>4 DEF Owned, TargetHasForm, FormsKept
  <1> QED
    BY <1>1, <1>2, <1>3, <1>5

\* A create job goes on without a new domain or a new row.
LEMMA CreateMove ==
  ASSUME Inv, BudgetKept, NEW r \in Requests, NEW q \in CPCs,
         cpc[r] \notin NoJob, cpc' = [cpc EXCEPT ![r] = q],
         newm' = newm \/ \E s \in {"finished", "error"} : Update(r, s),
         q \in BuiltAt => cpc[r] \in BuiltAt \/ Exists(HostOf[r]),
         tries' \in [Requests -> Nat],
         UNCHANGED <<meta, domain, dpc, target, asked, rivals, todo, cleared>>
  PROVE  Inv'
  <1>1. Types' /\ AskedFor' /\ Transaction'
    BY UpdateType DEF Inv, Types, AskedFor, Transaction, Rows
  <1>2. ASSUME Owned PROVE Owned'
    <2>1. Saved(r)
      BY <1>2 DEF Owned, HasForm
    <2>2. FormsKept
      BY <2>1, UpdateKeeps DEF Inv
    <2>3. OneForm' /\ DomainHasForm' /\ RowHasForm' /\ TargetHasForm'
      BY <1>2, <2>2, KeptForms DEF Inv
    <2>4. HasForm'
      BY <1>2, <2>1, <2>2 DEF Owned, HasForm, FormsKept, Inv, Types
    <2>5. Built' /\ RowBuilt'
      BY <1>2 DEF Owned, Built, RowBuilt, Exists, Host, Inv, Types
    <2> QED
      BY <2>3, <2>4, <2>5 DEF Owned
  <1> QED
    BY <1>1, <1>2 DEF Inv, BudgetKept

\* It defines the domain of its hostname.
LEMMA DefineStep ==
  ASSUME Inv, BudgetKept, NEW r \in Requests, cpc[r] = "define",
         cpc' = [cpc EXCEPT ![r] = "find"],
         domain' = [domain EXCEPT ![HostOf[r]] = Id(r)],
         UNCHANGED <<newm, tries, meta, dpc, target, asked, rivals, todo, cleared>>
  PROVE  Inv'
  <1>1. HostOf[r] \in Hosts /\ Id(r) \in Runs /\ Id(r)[1] = r
    BY MachinesAssumption DEF Inv, Types, Id, Runs
  <1>2. Types' /\ AskedFor' /\ Transaction'
    BY <1>1 DEF Inv, Types, AskedFor, Transaction, Rows, CPCs
  <1>3. ASSUME Owned PROVE Owned'
    <2>1. Saved(r)
      BY <1>3 DEF Owned, HasForm
    <2>2. OneForm' /\ HasForm' /\ RowHasForm' /\ TargetHasForm'
      BY <1>3, <2>1 DEF Owned, OneForm, HasForm, RowHasForm, TargetHasForm, Claims,
                        Saved, Inv, Types
    <2>3. DomainHasForm'
      BY <1>1, <1>3, <2>1 DEF Owned, DomainHasForm, Exists, Saved, Inv, Types
    <2>4. \A h \in Hosts : Exists(h) => Exists(h)' \/ (h = HostOf[r] /\ Id(r) = None)
      BY <1>1 DEF Exists, Inv, Types
    <2>5. CASE Id(r) # None
      <3>1. \A id \in meta : Host(id) \in Hosts
        BY MachinesAssumption DEF Inv, Types, Host, Runs
      <3>2. RowBuilt'
        BY <1>3, <2>4, <2>5, <3>1 DEF Owned, RowBuilt, Host
      <3>3. Built'
        BY <1>3, <2>4, <2>5, MachinesAssumption DEF Owned, Built, BuiltAt, Inv, Types
      <3> QED
        BY <2>2, <2>3, <3>2, <3>3 DEF Owned
    <2> QED
      BY <2>5, <1>1, MachinesAssumption DEF Runs
  <1> QED
    BY <1>2, <1>3 DEF Inv, BudgetKept

\* It saves the row of the machine it has made.
LEMMA SaveRowStep ==
  ASSUME Inv, BudgetKept, NEW r \in Requests, cpc[r] = "row",
         cpc' = [cpc EXCEPT ![r] = "given"],
         meta' = meta \union {Id(r)}, InTransaction => UNCHANGED meta,
         UNCHANGED <<newm, tries, domain, dpc, target, asked, rivals, todo, cleared>>
  PROVE  Inv'
  <1>1. Id(r) \in Runs /\ Id(r)[1] = r /\ Host(Id(r)) = HostOf[r]
    BY DEF Inv, Types, Id, Runs, Host
  <1>2. Types' /\ AskedFor'
    BY <1>1 DEF Inv, Types, AskedFor, CPCs
  <1>3. Transaction'
    <2>1. CASE InTransaction
      BY <2>1 DEF Inv, Transaction, Rows, InTransaction
    <2>2. CASE ~InTransaction
      BY <2>2 DEF Inv, Transaction, Rows, InTransaction, Holding, Working
    <2> QED
      BY <2>1, <2>2
  <1>4. ASSUME Owned PROVE Owned'
    <2>1. Saved(r) /\ (r \in Excused \/ Exists(HostOf[r]))
      BY <1>4 DEF Owned, HasForm, Built, BuiltAt
    <2>2. OneForm' /\ HasForm' /\ DomainHasForm' /\ TargetHasForm'
      BY <1>4, <2>1 DEF Owned, OneForm, HasForm, DomainHasForm, TargetHasForm, Claims,
                        Saved, Exists, Inv, Types
    <2>3. RowHasForm' /\ RowBuilt'
      BY <1>1, <1>4, <2>1 DEF Owned, RowHasForm, RowBuilt, Saved, Exists, Host
    <2>4. Built'
      BY <1>4 DEF Owned, Built, BuiltAt, Exists, Inv, Types
    <2> QED
      BY <2>2, <2>3, <2>4 DEF Owned
  <1> QED
    BY <1>2, <1>3, <1>4 DEF Inv, BudgetKept

\* Every step of a create job is one of these, the ones that go wrong as well.
Mistake(r) == CreateFault(r) \/ CreateSilent(r) \/ CreateCrash(r) \/ CreateRefused(r)

Job(r) == CreateJob(r) \/ Mistake(r) \/ Enqueue(r) \/ WebDies(r)

LEMMA CreateStep ==
  ASSUME Inv, NEW r \in Requests, Job(r), UNCHANGED accountVars,
         InTransaction => UNCHANGED meta
  PROVE  Inv'
  <1>0. /\ UNCHANGED <<dpc, target, asked, rivals, todo, cleared>>
        /\ InTransaction => UNCHANGED meta
    BY DEF Job, Mistake, CreateJob, Begin, List, Define, Find, AddVolume, AssignVolume,
           SaveRow, SetFinished, Rescue, JobEnds, CreateFault, CreateSilent, CreateCrash,
           CreateRefused, Enqueue, WebDies, deleteVars, rowVars, accountVars, cleanVars
  <1>1. CASE Begin(r)
    <2>1. PICK q \in {"raised", "list"} :
            /\ cpc[r] = "queued" /\ cpc' = [cpc EXCEPT ![r] = q]
            /\ tries' = [tries EXCEPT ![r] = @ + 1]
            /\ UNCHANGED <<newm, meta, domain, budget>>
      BY <1>1 DEF Begin, Create, rowVars, domainVars
    <2>2. tries' \in [Requests -> Nat]
      BY <2>1 DEF Inv, Types
    <2> QED
      BY <1>0, <2>1, <2>2, SpendNone, CreateMove DEF Inv, CPCs, BuiltAt
  <1>2. CASE List(r)
    <2>1. PICK q \in {"rescue", "define"} :
            /\ cpc[r] = "list" /\ cpc' = [cpc EXCEPT ![r] = q]
            /\ newm' = newm \/ \E s \in {"finished", "error"} : Update(r, s)
            /\ UNCHANGED <<meta, domain, tries, budget>>
      BY <1>2 DEF List, Create, rowVars, domainVars
    <2> QED
      BY <1>0, <2>1, SpendNone, CreateMove DEF Inv, Types, CPCs, BuiltAt
  <1>3. CASE Define(r)
    <2>1. CASE Exists(HostOf[r])
      <3>1. /\ cpc[r] = "define" /\ cpc' = [cpc EXCEPT ![r] = "rescue"]
            /\ newm' = newm \/ \E s \in {"finished", "error"} : Update(r, s)
            /\ UNCHANGED <<meta, domain, tries, budget>>
        BY <1>3, <2>1 DEF Define, Create, rowVars
      <3> QED
        BY <1>0, <3>1, SpendNone, CreateMove DEF Inv, Types, CPCs, BuiltAt
    <2>2. CASE ~Exists(HostOf[r])
      BY <1>0, <1>3, <2>2, SpendNone, DefineStep DEF Inv, Define, Create, rowVars
    <2> QED
      BY <2>1, <2>2
  <1>4. CASE Find(r)
    <2>1. PICK q \in {"rescue", "volume"} :
            /\ cpc[r] = "find" /\ cpc' = [cpc EXCEPT ![r] = q]
            /\ q = "volume" => Exists(HostOf[r])
            /\ newm' = newm \/ \E s \in {"finished", "error"} : Update(r, s)
            /\ UNCHANGED <<meta, domain, tries, budget>>
      BY <1>4 DEF Find, Create, rowVars, domainVars
    <2> QED
      BY <1>0, <2>1, SpendNone, CreateMove DEF Inv, Types, CPCs, BuiltAt
  <1>5. CASE AddVolume(r)
    <2>1. PICK q \in {"rescue", "assign"} :
            /\ cpc[r] = "volume" /\ cpc' = [cpc EXCEPT ![r] = q]
            /\ newm' = newm \/ \E s \in {"finished", "error"} : Update(r, s)
            /\ UNCHANGED <<meta, domain, tries, budget>>
      BY <1>5 DEF AddVolume, Create, rowVars, domainVars
    <2> QED
      BY <1>0, <2>1, SpendNone, CreateMove DEF Inv, Types, CPCs, BuiltAt
  <1>6. CASE AssignVolume(r)
    <2>1. /\ cpc[r] = "assign" /\ cpc' = [cpc EXCEPT ![r] = "row"]
          /\ UNCHANGED <<newm, meta, domain, tries, budget>>
      BY <1>6 DEF AssignVolume, Create, rowVars, domainVars
    <2> QED
      BY <1>0, <2>1, SpendNone, CreateMove DEF Inv, Types, CPCs, BuiltAt
  <1>7. CASE SaveRow(r)
    <2>1. CASE HasRow(HostOf[r])
      <3>1. /\ cpc[r] = "row" /\ cpc' = [cpc EXCEPT ![r] = "rescue"]
            /\ newm' = newm \/ \E s \in {"finished", "error"} : Update(r, s)
            /\ UNCHANGED <<meta, domain, tries, budget>>
        BY <1>7, <2>1 DEF SaveRow, Create, domainVars
      <3> QED
        BY <1>0, <3>1, SpendNone, CreateMove DEF Inv, Types, CPCs, BuiltAt
    <2>2. CASE ~HasRow(HostOf[r])
      BY <1>0, <1>7, <2>2, SpendNone, SaveRowStep DEF Inv, SaveRow, Create, domainVars
    <2> QED
      BY <2>1, <2>2
  <1>8. CASE SetFinished(r)
    <2>1. PICK q \in {"rescue", "performed"} :
            /\ cpc[r] = "given" /\ cpc' = [cpc EXCEPT ![r] = q]
            /\ newm' = newm \/ \E s \in {"finished", "error"} : Update(r, s)
            /\ UNCHANGED <<meta, domain, tries, budget>>
      BY <1>8 DEF SetFinished, Create, SetFailed, domainVars
    <2> QED
      BY <1>0, <2>1, SpendNone, CreateMove DEF Inv, Types, CPCs, BuiltAt
  <1>9. CASE JobEnds(r)
    <2>1. /\ cpc[r] \in {"performed", "raised"} /\ cpc' = [cpc EXCEPT ![r] = "done"]
          /\ UNCHANGED <<newm, meta, domain, tries, budget>>
      BY <1>9 DEF JobEnds, Create, rowVars, domainVars
    <2> QED
      BY <1>0, <2>1, SpendNone, CreateMove DEF Inv, Types, CPCs, BuiltAt
  <1>10. CASE CreateFault(r)
    <2>1. /\ cpc[r] \notin NoJob /\ cpc' = [cpc EXCEPT ![r] = "rescue"]
          /\ newm' = newm \/ \E s \in {"finished", "error"} : Update(r, s)
          /\ Spend("fault") /\ UNCHANGED <<meta, domain, tries>>
      BY <1>10 DEF CreateFault, Create, rowVars, domainVars
    <2>2. BudgetKept
      BY <2>1, SpendOther DEF Inv
    <2> QED
      BY <1>0, <2>1, <2>2, CreateMove DEF Inv, Types, CPCs, BuiltAt
  <1>11. CASE CreateSilent(r)
    <2>1. PICK q \in Silently(cpc[r]) :
            /\ cpc[r] \in {"list", "define", "find", "volume", "assign"}
            /\ cpc' = [cpc EXCEPT ![r] = q]
            /\ newm' = newm \/ \E s \in {"finished", "error"} : Update(r, s)
            /\ Spend("silent") /\ UNCHANGED <<meta, domain, tries>>
      BY <1>11 DEF CreateSilent, Create, rowVars, domainVars
    <2>2. q \in CPCs /\ (q \in BuiltAt => cpc[r] \in BuiltAt)
      BY <2>1 DEF Silently, CPCs, BuiltAt
    <2>3. BudgetKept
      BY <2>1, SpendOther DEF Inv
    <2> QED
      BY <1>0, <2>1, <2>2, <2>3, CreateMove DEF Inv, Types
  <1>12. CASE CreateCrash(r)
    <2>1. /\ cpc[r] \notin NoJob /\ cpc' = [cpc EXCEPT ![r] = "queued"]
          /\ Spend("crash") /\ UNCHANGED <<newm, meta, domain, tries>>
      BY <1>12 DEF CreateCrash, Create, rowVars, domainVars
    <2>2. BudgetKept
      BY <2>1, SpendOther DEF Inv
    <2> QED
      BY <1>0, <2>1, <2>2, CreateMove DEF Inv, Types, CPCs, BuiltAt
  <1>13. CASE Rescue(r)
    <2>1. /\ cpc[r] = "rescue" /\ cpc' = [cpc EXCEPT ![r] = "raised"]
          /\ newm' = newm \/ \E s \in {"finished", "error"} : Update(r, s)
          /\ UNCHANGED <<meta, domain, tries, budget>>
      BY <1>13 DEF Rescue, Create, SetFailed, domainVars
    <2> QED
      BY <1>0, <2>1, SpendNone, CreateMove DEF Inv, Types, CPCs, BuiltAt
  <1>14. CASE CreateRefused(r)
    <2>1. PICK q \in {"rescue", "raised"} :
            /\ cpc[r] \notin NoJob /\ cpc' = [cpc EXCEPT ![r] = q]
            /\ Spend("fault") /\ UNCHANGED <<newm, meta, domain, tries>>
      BY <1>14 DEF CreateRefused, Create, rowVars, domainVars
    <2>2. BudgetKept
      BY <2>1, SpendOther DEF Inv
    <2> QED
      BY <1>0, <2>1, <2>2, CreateMove DEF Inv, Types, CPCs, BuiltAt
  <1>15. CASE Enqueue(r) \/ WebDies(r)
    <2>1. PICK q \in {"queued", "lost"} :
            /\ cpc[r] = "saved" /\ cpc' = [cpc EXCEPT ![r] = q]
            /\ UNCHANGED budget \/ Spend("crash")
            /\ UNCHANGED <<newm, meta, domain, tries>>
      BY <1>15 DEF Enqueue, WebDies, Create, rowVars, domainVars
    <2>2. BudgetKept
      BY <2>1, SpendOther, SpendNone DEF Inv
    <2> QED
      BY <1>0, <2>1, <2>2, CreateMove DEF Inv, Types, CPCs, BuiltAt
  <1> QED
    BY <1>1, <1>2, <1>3, <1>4, <1>5, <1>6, <1>7, <1>8, <1>9, <1>10, <1>11, <1>12, <1>13,
       <1>14, <1>15 DEF Job, Mistake, CreateJob

-----------------------------------------------------------------------------
\* A machine is asked to be deleted.
LEMMA AskStep ==
  ASSUME Inv, NEW d \in Deletions \ {cleanup}, RequestDelete(d), UNCHANGED accountVars
  PROVE  Inv'
  <1>1. PICK id \in meta :
          /\ dpc[d] = "none" /\ dpc' = [dpc EXCEPT ![d] = "queued"]
          /\ target' = [target EXCEPT ![d] = id]
          /\ asked' = asked \union {id[1]}
          /\ UNCHANGED <<rivals, newm, meta, domain, cpc, tries, todo, cleared, budget>>
    BY DEF RequestDelete, Delete, rowVars, domainVars, createVars, accountVars,
           cleanVars
  <1>2. Types' /\ Transaction'
    BY <1>1, AccountsAssumption DEF Inv, Types, Transaction, DPCs, Rows
  <1>3. AskedFor'
    BY <1>1 DEF Inv, Types, AskedFor, Holding, Working
  <1>4. ASSUME Owned PROVE Owned'
    <2>1. OneForm' /\ HasForm' /\ DomainHasForm' /\ RowHasForm'
      BY <1>1, <1>4 DEF Owned, OneForm, HasForm, DomainHasForm, RowHasForm, Claims,
                        Saved, Exists
    <2>2. TargetHasForm' /\ Built' /\ RowBuilt'
      BY <1>1, <1>4 DEF Owned, TargetHasForm, Built, RowBuilt, Saved, Exists, Host,
                        Working, Inv, Types
    <2> QED
      BY <2>1, <2>2 DEF Owned
  <1> QED
    BY <1>1, <1>2, <1>3, <1>4, SpendNone DEF Inv, BudgetKept

\* A deletion goes on, and may remove the domain of its target.
LEMMA DeleteMove ==
  ASSUME Inv, BudgetKept, NEW d \in Deletions, NEW q \in DPCs,
         dpc[d] # "none", q # "none", dpc' = [dpc EXCEPT ![d] = q],
         q \in Holding => d # cleanup \/ dpc[d] \in Holding,
         q \in Working => target[d] \in meta \/ dpc[d] \in Working,
         domain' = domain \/ /\ dpc[d] \in Working
                             /\ domain' = [domain EXCEPT ![TargetHost(d)] = None],
         UNCHANGED <<newm, meta, cpc, tries, target, asked, rivals, todo, cleared>>
  PROVE  Inv'
  <1>1. Types' /\ AskedFor' /\ Transaction'
    <2>1. Types'
      BY DEF Inv, Types
    <2>2. AskedFor' /\ Transaction'
      BY DEF Inv, Types, AskedFor, Transaction, Rows
    <2> QED
      BY <2>1, <2>2
  <1>2. ASSUME Owned PROVE Owned'
    <2>1. OneForm' /\ HasForm' /\ RowHasForm'
      BY <1>2 DEF Owned, OneForm, HasForm, RowHasForm, Claims, Saved
    <2>2. TargetHasForm'
      BY <1>2 DEF Owned, TargetHasForm, RowHasForm, Saved, Inv, Types
    <2>3. CASE domain' = domain
      <3>1. DomainHasForm' /\ Built' /\ RowBuilt'
        BY <1>2, <2>3 DEF Owned, DomainHasForm, Built, RowBuilt, Saved, Exists, Host
      <3> QED
        BY <2>1, <2>2, <3>1 DEF Owned
    <2>4. CASE /\ dpc[d] \in Working
               /\ domain' = [domain EXCEPT ![TargetHost(d)] = None]
      <3>1. /\ target[d] \in Runs /\ target[d][1] \in asked /\ Saved(target[d][1])
            /\ target[d][1] \in Requests /\ TargetHost(d) = HostOf[target[d][1]]
        BY <1>2, <2>4 DEF Owned, TargetHasForm, Inv, AskedFor, Holding, Runs, TargetHost,
                          Host
      <3>2. \A h \in Hosts : Exists(h)' => Exists(h) /\ domain'[h] = domain[h]
        BY <2>4 DEF Inv, Types, Exists
      <3>3. \A h \in Hosts : Exists(h) => Exists(h)' \/ h = TargetHost(d)
        BY <2>4 DEF Inv, Types, Exists
      <3>4. DomainHasForm'
        BY <1>2, <3>2 DEF Owned, DomainHasForm, Saved
      <3>5. \A r \in Requests : Saved(r) /\ HostOf[r] = TargetHost(d) => r \in Excused
        BY <1>2, <3>1 DEF Owned, OneForm, Claims
      <3>6. \A r \in Requests : HostOf[r] \in Hosts
        BY MachinesAssumption
      <3>7. Built'
        <4>1. SUFFICES ASSUME NEW r \in Requests, cpc[r] \in BuiltAt, r \notin Excused
                       PROVE  Exists(HostOf[r])'
          BY DEF Built
        <4>2. Saved(r) /\ Exists(HostOf[r])
          BY <1>2, <4>1 DEF Owned, HasForm, Built, BuiltAt
        <4> QED
          BY <3>3, <3>5, <3>6, <4>1, <4>2
      <3>8. RowBuilt'
        <4>1. SUFFICES ASSUME NEW id \in meta, id[1] \notin Excused
                       PROVE  Exists(Host(id))'
          BY DEF RowBuilt
        <4>2. Saved(id[1]) /\ Exists(Host(id)) /\ id[1] \in Requests /\ Host(id) = HostOf[id[1]]
          BY <1>2, <4>1 DEF Owned, RowHasForm, RowBuilt, Host, Inv, Types, Runs
        <4>3. Exists(HostOf[id[1]])'
          BY <3>3, <3>5, <3>6, <4>1, <4>2
        <4> QED
          BY <4>3 DEF Host, Exists
      <3> QED
        BY <2>1, <2>2, <3>4, <3>7, <3>8 DEF Owned
    <2> QED
      BY <2>3, <2>4
  <1> QED
    BY <1>1, <1>2 DEF Inv, BudgetKept

\* A job destroys its row.
LEMMA DestroyRowStep ==
  ASSUME Inv, NEW d \in Deletions \ {cleanup}, DestroyRow(d), UNCHANGED accountVars,
         ~InTransaction
  PROVE  Inv'
  <1>1. /\ dpc[d] = "row" /\ dpc' = [dpc EXCEPT ![d] = "performed"]
        /\ meta' = meta \ {target[d]}
        /\ UNCHANGED <<newm, domain, cpc, tries, target, asked, rivals, todo, cleared, budget>>
    BY DEF DestroyRow, Delete, domainVars, createVars, accountVars, cleanVars
  <1>2. Types' /\ AskedFor'
    BY <1>1 DEF Inv, Types, AskedFor, DPCs, Holding, Working
  <1>3. Transaction'
    BY <1>1 DEF Inv, Transaction, InTransaction, Holding, Working, Types
  <1>4. ASSUME Owned PROVE Owned'
    <2>1. OneForm' /\ HasForm' /\ DomainHasForm' /\ RowHasForm'
      BY <1>1, <1>4 DEF Owned, OneForm, HasForm, DomainHasForm, RowHasForm, Claims,
                        Saved, Exists
    <2>2. TargetHasForm' /\ Built' /\ RowBuilt'
      BY <1>1, <1>4 DEF Owned, TargetHasForm, Built, RowBuilt, Saved, Exists, Host,
                        Working, Inv, Types
    <2> QED
      BY <2>1, <2>2 DEF Owned
  <1> QED
    BY <1>1, <1>2, <1>3, <1>4, SpendNone DEF Inv, BudgetKept

\* The calls of the hook, and what goes wrong in them.
HookStep(d) == ForceStop(d) \/ FindMachine(d) \/ Lookup(d) \/ Kill(d) \/ Undefine(d)

Mishap(d) == DeleteFault(d) \/ DeleteSilent(d) \/ DeleteCrash(d)

\* Where these lead, and what they leave.
HookShape(d, q) ==
    /\ dpc[d] \in Working /\ dpc' = [dpc EXCEPT ![d] = q]
    /\ q \in {"find", "lookup", "kill", "undefine", "row", "queued", "failed"}
    /\ \/ domain' = domain
       \/ domain' = [domain EXCEPT ![TargetHost(d)] = None]
    /\ UNCHANGED <<newm, meta, cpc, tries, target, asked, rivals, budget>>

LEMMA HookShapes ==
  ASSUME NEW d \in Deletions, HookStep(d)
  PROVE  \E q \in DPCs : HookShape(d, q)
  <1>1. CASE ForceStop(d)
    BY <1>1 DEF ForceStop, StopDomain, Remove, Delete, HookShape, Working, DPCs, Holding,
                rowVars, createVars
  <1>2. CASE FindMachine(d)
    <2>1. HookShape(d, IF Exists(TargetHost(d)) THEN "lookup" ELSE "row")
      BY <1>2 DEF FindMachine, Delete, HookShape, Working, rowVars, createVars, domainVars
    <2> QED
      BY <2>1 DEF DPCs, Holding, Working
  <1>3. CASE Lookup(d)
    <2>1. HookShape(d, IF Exists(TargetHost(d)) THEN "kill" ELSE "row")
      BY <1>3 DEF Lookup, Delete, HookShape, Working, rowVars, createVars, domainVars
    <2> QED
      BY <2>1 DEF DPCs, Holding, Working
  <1>4. CASE Kill(d)
    <2>1. \E q \in {"undefine", "queued", "failed"} : HookShape(d, q)
      BY <1>4 DEF Kill, StopDomain, Remove, Retry, Delete, HookShape, Working,
                  rowVars, createVars, domainVars
    <2> QED
      BY <2>1 DEF DPCs, Holding, Working
  <1>5. CASE Undefine(d)
    <2>1. \E q \in {"row", "queued", "failed"} : HookShape(d, q)
      BY <1>5 DEF Undefine, UndefineDomain, Remove, Retry, Delete, HookShape, Working,
                  rowVars, createVars, domainVars
    <2> QED
      BY <2>1 DEF DPCs, Holding, Working
  <1> QED
    BY <1>1, <1>2, <1>3, <1>4, <1>5 DEF HookStep

LEMMA HookKeeps ==
  ASSUME Inv, NEW d \in Deletions, HookStep(d), UNCHANGED accountVars
  PROVE  Inv'
  <1>1. PICK q \in DPCs : HookShape(d, q)
    BY HookShapes
  <1>2. /\ dpc[d] # "none" /\ q # "none"
        /\ dpc[d] \in Holding /\ (q \in Working => dpc[d] \in Working)
        /\ UNCHANGED <<todo, cleared>>
    BY <1>1 DEF HookShape, Working, Holding, accountVars, cleanVars
  <1>3. BudgetKept
    BY <1>1, SpendNone DEF HookShape, Inv
  <1> QED
    BY <1>1, <1>2, <1>3, DeleteMove DEF HookShape

LEMMA MishapKeeps ==
  ASSUME Inv, NEW d \in Deletions, Mishap(d), UNCHANGED accountVars
  PROVE  Inv'
  <1>1. BudgetKept
    BY SpendOther DEF Mishap, DeleteFault, DeleteSilent, DeleteCrash, Inv
  <1>2. UNCHANGED <<newm, meta, domain, cpc, tries, target, asked, rivals, todo, cleared>>
    BY DEF Mishap, DeleteFault, DeleteSilent, DeleteCrash, rowVars, domainVars,
           createVars, accountVars, cleanVars
  <1>3. CASE \/ DeleteFault(d) \/ DeleteSilent(d)
    <2>1. \E q \in {"find", "queued", "failed", "row"} :
            /\ dpc[d] \in Holding /\ dpc' = [dpc EXCEPT ![d] = q]
            /\ q = "find" => dpc[d] = "stop"
      BY <1>3 DEF DeleteFault, DeleteSilent, Retry, Delete, Holding, Working
    <2>2. PICK q \in {"find", "queued", "failed", "row"} :
            /\ dpc[d] \in Holding /\ dpc' = [dpc EXCEPT ![d] = q]
            /\ q = "find" => dpc[d] = "stop"
      BY <2>1
    <2>3. /\ q \in DPCs /\ q # "none" /\ dpc[d] # "none"
          /\ q \in Working => dpc[d] \in Working
      BY <2>2 DEF DPCs, Holding, Working
    <2> QED
      BY <1>1, <1>2, <2>2, <2>3, DeleteMove
  <1>4. CASE DeleteCrash(d)
    <2>1. dpc[d] # "none" /\ dpc' = [dpc EXCEPT ![d] = "queued"]
      BY <1>4 DEF DeleteCrash, Delete
    <2>2. "queued" \in DPCs /\ "queued" \notin Holding /\ "queued" \notin Working
      BY DEF DPCs, Holding, Working
    <2> QED
      BY <1>1, <1>2, <2>1, <2>2, DeleteMove
  <1> QED
    BY <1>3, <1>4 DEF Mishap

LEMMA DeleteStep ==
  ASSUME Inv, NEW d \in Deletions \ {cleanup}, Deletes(d)
  PROVE  Inv'
  <1>0. DeleteJob(d) /\ UNCHANGED accountVars /\ UNCHANGED <<todo, cleared>>
    BY DEF Deletes, Reads, Writes, Others, accountVars, cleanVars
  <1>1. CASE FindRow(d)
    <2>1. PICK q \in {"stop", "queued", "failed"} :
            /\ dpc[d] = "queued" /\ dpc' = [dpc EXCEPT ![d] = q]
            /\ q = "stop" => target[d] \in meta
            /\ UNCHANGED <<newm, meta, domain, cpc, tries, target, asked, rivals, budget>>
      BY <1>1 DEF FindRow, Retry, Delete, rowVars, domainVars, createVars
    <2>2. q \in DPCs /\ q # "none" /\ (q \in Working => q = "stop")
      BY <2>1 DEF DPCs, Holding, Working
    <2> QED
      BY <1>0, <2>1, <2>2, SpendNone, DeleteMove DEF Inv
  <1>2. CASE HookStep(d)
    BY <1>0, <1>2, HookKeeps
  <1>3. CASE DestroyRow(d)
    <2>1. ~InTransaction
      BY <1>3 DEF DestroyRow, Delete, Deletes, AtHook, Writes
    <2> QED
      BY <1>0, <1>3, <2>1, DestroyRowStep
  <1>4. CASE DeleteEnds(d)
    <2>1. /\ dpc[d] = "performed" /\ dpc' = [dpc EXCEPT ![d] = "done"]
          /\ UNCHANGED <<newm, meta, domain, cpc, tries, target, asked, rivals, budget>>
      BY <1>4 DEF DeleteEnds, Delete, rowVars, domainVars, createVars
    <2>2. "done" \in DPCs /\ "done" \notin Working /\ "done" \notin Holding
      BY DEF DPCs, Holding, Working
    <2> QED
      BY <1>0, <2>1, <2>2, SpendNone, DeleteMove DEF Inv
  <1> QED
    BY <1>0, <1>1, <1>2, <1>3, <1>4 DEF DeleteJob, HookStep

-----------------------------------------------------------------------------
\* The cleanup.
LEMMA BeginsStep ==
  ASSUME Inv, Begins
  PROVE  Inv'
  <1>1. /\ dpc[cleanup] = "none" /\ dpc' = [dpc EXCEPT ![cleanup] = "next"]
        /\ todo' = Rows /\ cleared' = {}
        /\ UNCHANGED <<newm, meta, domain, cpc, tries, target, asked, rivals, budget>>
    BY DEF Begins, Proceed, Delete, domainVars, createVars
  <1>2. Types' /\ AskedFor' /\ Transaction'
    BY <1>1, AccountsAssumption
       DEF Inv, Types, AskedFor, Transaction, DPCs, Holding, Working, Rows
  <1>3. Owned => Owned'
    BY <1>1, AccountsAssumption
       DEF Owned, OneForm, HasForm, DomainHasForm, RowHasForm, TargetHasForm, Built,
           RowBuilt, Claims, Saved, Exists, Host, Working, Inv, Types
  <1> QED
    BY <1>1, <1>2, <1>3, SpendNone DEF Inv, BudgetKept

LEMMA NextRowStep ==
  ASSUME Inv, NextRow
  PROVE  Inv'
  <1>1. PICK id \in todo :
          /\ dpc[cleanup] = "next" /\ dpc' = [dpc EXCEPT ![cleanup] = "stop"]
          /\ target' = [target EXCEPT ![cleanup] = id]
          /\ asked' = asked \union {id[1]}
          /\ UNCHANGED <<rivals, newm, meta, domain, cpc, tries, todo, cleared, budget>>
    BY DEF NextRow, Proceed, Delete, domainVars, createVars, accountVars, cleanVars
  <1>2. id \in meta /\ id \in Runs
    BY <1>1 DEF Inv, Transaction, Rows, Types
  <1>3. Types' /\ AskedFor' /\ Transaction'
    BY <1>1, <1>2, AccountsAssumption
       DEF Inv, Types, AskedFor, Transaction, DPCs, Holding, Working, Rows
  <1>4. ASSUME Owned PROVE Owned'
    <2>1. OneForm' /\ HasForm' /\ DomainHasForm' /\ RowHasForm'
      BY <1>1, <1>4 DEF Owned, OneForm, HasForm, DomainHasForm, RowHasForm, Claims,
                        Saved, Exists
    <2>2. TargetHasForm' /\ Built' /\ RowBuilt'
      BY <1>1, <1>2, <1>4, AccountsAssumption
         DEF Owned, RowHasForm, TargetHasForm, Built, RowBuilt, Saved, Exists, Host,
             Working, Inv, Types
    <2> QED
      BY <2>1, <2>2 DEF Owned
  <1> QED
    BY <1>1, <1>3, <1>4, SpendNone DEF Inv, BudgetKept

LEMMA RowDoneStep ==
  ASSUME Inv, RowDone
  PROVE  Inv'
  <1>1. /\ dpc[cleanup] = "row" /\ dpc' = [dpc EXCEPT ![cleanup] = "next"]
        /\ todo' = todo \ {target[cleanup]}
        /\ cleared' = cleared \union {target[cleanup]}
        /\ UNCHANGED <<newm, meta, domain, cpc, tries, target, asked, rivals, budget>>
    BY DEF RowDone, Proceed, Delete, domainVars, createVars
  <1>2. target[cleanup] \in todo
    BY <1>1 DEF Inv, Transaction, Holding
  <1>3. Types' /\ AskedFor' /\ Transaction'
    BY <1>1, <1>2, AccountsAssumption
       DEF Inv, Types, AskedFor, Transaction, DPCs, Holding, Working, Rows
  <1>4. Owned => Owned'
    BY <1>1, AccountsAssumption
       DEF Owned, OneForm, HasForm, DomainHasForm, RowHasForm, TargetHasForm, Built,
           RowBuilt, Claims, Saved, Exists, Host, Working, Inv, Types
  <1> QED
    BY <1>1, <1>3, <1>4, SpendNone DEF Inv, BudgetKept

\* A guest who is not destroyed too early leaves nothing that depends on his
\* forms.
LEMMA CommitStep ==
  ASSUME Inv, Commit
  PROVE  Inv'
  <1>1. /\ todo = {}
        /\ dpc[cleanup] = "next" /\ dpc' = [dpc EXCEPT ![cleanup] = "none"]
        /\ meta' = meta \ cleared
        /\ newm' = [r \in Requests |->
                      IF r \in Guest /\ Saved(r) THEN "destroyed" ELSE newm[r]]
        /\ UNCHANGED <<domain, cpc, tries, target, asked, rivals>>
    BY DEF Commit, Delete, domainVars, createVars
  <1>2. Types' /\ AskedFor' /\ Transaction'
    <2>1. Types'
      BY <1>1 DEF Inv, Types, DPCs
    <2>2. AskedFor' /\ Transaction'
      BY <1>1, AccountsAssumption DEF Inv, Types, AskedFor, Transaction, Holding, Working
    <2> QED
      BY <2>1, <2>2
  <1>3. BudgetKept /\ (OnTime' => ~TooEarly)
    <2>1. CASE TooEarly
      <3>1. Spend("early")
        BY <2>1 DEF Commit
      <3> QED
        BY <3>1, Spent DEF Inv, BudgetKept, OnTime, Kinds
    <2>2. CASE ~TooEarly
      BY <2>2, SpendNone DEF Commit, Inv
    <2> QED
      BY <2>1, <2>2
  <1>4. ASSUME Owned, ~TooEarly PROVE Owned'
    <2>1. \A r \in Requests : (Claims(r)' => Claims(r)) /\ (Saved(r)' => Saved(r))
      <3>1. \A r \in Requests :
              newm'[r] = newm[r] \/ (Saved(r) /\ newm'[r] = "destroyed")
        BY <1>1
      <3> QED
        BY <3>1 DEF Claims, Saved
    <2>2. \A r \in Requests \ Guest : Saved(r) => Saved(r)'
      BY <1>1 DEF Saved
    <2>3. \A r \in Guest : cpc[r] \in NoJob
      BY <1>4 DEF TooEarly, UnderWay
    <2>4. OneForm'
      BY <1>1, <1>4, <2>1 DEF Owned, OneForm
    <2>5. HasForm'
      BY <1>1, <1>4, <2>2, <2>3 DEF Owned, HasForm
    <2>6. DomainHasForm'
      <3>1. SUFFICES ASSUME NEW h \in Hosts, Exists(h)
                     PROVE  /\ domain[h] \in Runs /\ HostOf[domain[h][1]] = h
                            /\ Saved(domain[h][1])'
        BY <1>1 DEF DomainHasForm, Exists
      <3>2. /\ domain[h] \in Runs /\ HostOf[domain[h][1]] = h /\ Saved(domain[h][1])
            /\ domain[h][1] \in Requests
        BY <1>4, <3>1 DEF Owned, DomainHasForm, Runs
      <3>3. domain[h][1] \notin Guest
        BY <1>4, <3>1, <3>2 DEF TooEarly
      <3> QED
        BY <1>1, <2>2, <3>2, <3>3 DEF Saved
    <2>7. RowHasForm'
      <3>1. cleared = Rows
        BY <1>1 DEF Inv, Transaction
      <3> QED
        BY <1>1, <1>4, <2>2, <3>1 DEF Owned, RowHasForm, Rows, Inv, Types, Runs
    <2>8. TargetHasForm'
      <3>1. SUFFICES ASSUME NEW d \in Deletions, dpc'[d] \in Working
                     PROVE  Saved(target[d][1])'
        BY <1>1 DEF TargetHasForm
      <3>2. d # cleanup /\ dpc[d] \in Working
        BY <1>1, <3>1 DEF Working, Inv, Types
      <3>3. Saved(target[d][1]) /\ target[d][1] \in Requests
        BY <1>4, <3>2 DEF Owned, TargetHasForm, Inv, AskedFor, Holding, Runs
      <3>4. target[d][1] \notin Guest
        BY <1>4, <3>2 DEF TooEarly, UnderWay, Working, AtHook
      <3> QED
        BY <1>1, <2>2, <3>3, <3>4 DEF Saved
    <2>9. Built' /\ RowBuilt'
      BY <1>1, <1>4 DEF Owned, Built, RowBuilt, Exists, Host
    <2> QED
      BY <2>4, <2>5, <2>6, <2>7, <2>8, <2>9 DEF Owned
  <1> QED
    BY <1>2, <1>3, <1>4 DEF Inv, BudgetKept

LEMMA RollBackStep ==
  ASSUME Inv, RollBack
  PROVE  Inv'
  <1>1. /\ dpc[cleanup] \in {"queued", "failed"}
        /\ dpc' = [dpc EXCEPT ![cleanup] = "none"]
        /\ UNCHANGED <<newm, meta, domain, cpc, tries, target, asked, rivals, budget>>
    BY DEF RollBack, rowVars, domainVars, createVars
  <1>2. Types' /\ AskedFor' /\ Transaction'
    BY <1>1, AccountsAssumption
       DEF Inv, Types, AskedFor, Transaction, DPCs, Holding, Working, Rows
  <1>3. Owned => Owned'
    BY <1>1, AccountsAssumption
       DEF Owned, OneForm, HasForm, DomainHasForm, RowHasForm, TargetHasForm, Built,
           RowBuilt, Claims, Saved, Exists, Host, Working, Inv, Types
  <1> QED
    BY <1>1, <1>2, <1>3, SpendNone DEF Inv, BudgetKept

\* What nobody relies on may change: who is signed in, which domains run.
LEMMA AsideStep ==
  ASSUME Inv,
         \/ SignOut \/ UNCHANGED allVars
         \/ \E h \in Hosts : Use(h) /\ UNCHANGED accountVars
  PROVE  Inv'
  <1>1. UNCHANGED <<newm, meta, domain, tries, cpc, dpc, target, asked, rivals, todo, cleared>>
    BY DEF SignOut, Use, Start, Pause, Resume, allVars, vars, rowVars, domainVars,
           createVars, deleteVars, accountVars, cleanVars
  <1>2. BudgetKept
    BY SpendOther, SpendNone DEF SignOut, Use, Start, Pause, Resume, allVars, vars, Inv
  <1> QED
    BY <1>1, <1>2, FrameStep

LEMMA CleanUpStep ==
  ASSUME Inv, CleanUp
  PROVE  Inv'
  BY BeginsStep, NextRowStep, HookKeeps, RowDoneStep, CommitStep, RollBackStep,
     AccountsAssumption DEF CleanUp, Hook, HookStep

\* A create job that writes a row is outside of the transaction.
LEMMA CreatesStep ==
  ASSUME Inv, NEW r \in Requests, Creates(r)
  PROVE  Inv'
  <1>1. CreateJob(r) /\ UNCHANGED accountVars
    BY DEF Creates, Reads, Writes, Others
  <1>2. InTransaction => UNCHANGED meta
    BY DEF Creates, AtBackend, Writes, CreateJob, Begin, List, Define, Find, AddVolume,
           AssignVolume, SaveRow, SetFinished, Rescue, JobEnds, rowVars, Create
  <1> QED
    BY <1>1, <1>2, CreateStep DEF Job

LEMMA FormsStep ==
  ASSUME Inv, Forms
  PROVE  Inv'
  <1>1. PICK r \in Requests :
          Validate(r) \/ Save(r) \/ FormRefused(r) \/ Enqueue(r) \/ WebDies(r)
    BY DEF Forms
  <1>2. UNCHANGED accountVars
    BY DEF Forms, Reads, Writes, Others
  <1>3. CASE Enqueue(r) \/ WebDies(r)
    <2>1. UNCHANGED meta
      BY <1>3 DEF Enqueue, WebDies, rowVars
    <2> QED
      BY <1>2, <1>3, <2>1, CreateStep DEF Job
  <1> QED
    BY <1>1, <1>2, <1>3, ValidateStep, SaveStep, FormRefusedStep

LEMMA GoesWrongStep ==
  ASSUME Inv, GoesWrong
  PROVE  Inv'
  <1>1. UNCHANGED accountVars
    BY DEF GoesWrong, Others
  <1>2. ASSUME NEW r \in Requests, Mistake(r) PROVE Inv'
    <2>1. UNCHANGED meta
      BY <1>2 DEF Mistake, CreateFault, CreateSilent, CreateCrash, CreateRefused, rowVars
    <2> QED
      BY <1>1, <1>2, <2>1, CreateStep DEF Job
  <1> QED
    BY <1>1, <1>2, MishapKeeps DEF GoesWrong, Mistake, Mishap

LEMMA AccountsStep ==
  ASSUME Inv, [AccountsNext]_allVars
  PROVE  Inv'
  <1>1. CASE Uses
    BY <1>1, AsideStep DEF Uses, Reads, Others
  <1>2. CASE AsksToDelete
    BY <1>2, AskStep DEF AsksToDelete, Writes, Others
  <1>3. CASE SignOut \/ UNCHANGED allVars
    BY <1>3, AsideStep
  <1> QED
    BY <1>1, <1>2, <1>3, FormsStep, CreatesStep, DeleteStep, GoesWrongStep, CleanUpStep
       DEF AccountsNext

LEMMA InvAlways ==
  AccountsSpec => []Inv
  <1>1. AccountsInit => Inv
    BY InitInv
  <1>2. Inv /\ [AccountsNext]_allVars => Inv'
    BY AccountsStep
  <1> QED
    BY <1>1, <1>2, PTL DEF AccountsSpec

\* A machine that is listed, and that nobody has asked to delete, has the
\* domain its form made, whatever fails or crashes; unless its form has rivals.
THEOREM ListedHasDomain == AccountsSpec => []RowHasDomain
  <1>1. Inv => RowHasDomain
    <2>1. SUFFICES ASSUME Inv, OnTime, NEW id \in meta, id[1] \notin asked \union rivals
                   PROVE  Exists(Host(id)) /\ domain[Host(id)][1] = id[1]
      BY DEF RowHasDomain, OnTime
    <2>2. /\ id[1] \in Requests /\ Saved(id[1])
          /\ Host(id) = HostOf[id[1]] /\ Host(id) \in Hosts /\ Exists(Host(id))
      BY <2>1, MachinesAssumption
         DEF Inv, Types, Runs, Owned, RowHasForm, RowBuilt, Host
    <2>3. /\ domain[Host(id)][1] \in Requests /\ Saved(domain[Host(id)][1])
          /\ HostOf[domain[Host(id)][1]] = Host(id)
      BY <2>1, <2>2 DEF Inv, Owned, DomainHasForm, Runs
    <2> QED
      BY <2>1, <2>2, <2>3 DEF Inv, Owned, OneForm, Claims
  <1> QED
    BY <1>1, InvAlways, PTL

\* Nobody's machine is deleted for somebody else's: only a deletion for a
\* machine of the same form removes a domain.
LEMMA OwnStep ==
  ASSUME Inv, OnTime, AccountsNext, NEW h \in Hosts, Exists(h), domain'[h] = None,
         domain[h][1] \notin rivals
  PROVE  \E d \in Deletions : /\ dpc[d] \in {"stop", "kill", "undefine"}
                              /\ target[d][1] = domain[h][1]
  <1>0. domain' # domain
    BY DEF Exists
  <1>1. PICK d \in Deletions : ForceStop(d) \/ Kill(d) \/ Undefine(d)
    <2>1. CASE \E r \in Requests : Job(r)
      <3>1. PICK r \in Requests : Define(r)
        BY <1>0, <2>1 DEF Job, Mistake, CreateJob, Begin, List, Find, AddVolume, AssignVolume,
             SaveRow, SetFinished, Rescue, JobEnds, CreateFault, CreateSilent, CreateCrash,
             CreateRefused, Enqueue, WebDies, domainVars
      <3>2. domain' = [domain EXCEPT ![HostOf[r]] = Id(r)] /\ ~Exists(HostOf[r])
        BY <1>0, <3>1 DEF Define
      <3>3. domain'[h] = domain[h]
        BY <3>2 DEF Inv, Types
      <3> QED
        BY <3>3 DEF Exists
    <2>2. CASE ~\E r \in Requests : Job(r)
      BY <1>0, <2>2, AccountsAssumption
         DEF AccountsNext, Forms, Validate, Save, FormRefused, AsksToDelete, RequestDelete,
             Uses, Use, Start, Pause, Resume, Creates, Job, Mistake, Deletes, DeleteJob,
             GoesWrong, DeleteFault,
             DeleteSilent, DeleteCrash, SignOut, vars, CleanUp, Begins, NextRow, Proceed,
             Hook, RowDone, Commit, RollBack, FindRow, FindMachine, Lookup, DestroyRow,
             DeleteEnds, domainVars
    <2> QED
      BY <2>1, <2>2
  <1>2. dpc[d] \in {"stop", "kill", "undefine"}
    BY <1>1 DEF ForceStop, Kill, Undefine, Delete
  <1>3. h = TargetHost(d)
    BY <1>0, <1>1 DEF ForceStop, Kill, Undefine, StopDomain, UndefineDomain, Remove,
                      domainVars, Exists, Inv, Types
  <1>4. /\ target[d][1] \in Requests /\ Saved(target[d][1]) /\ h = HostOf[target[d][1]]
    BY <1>2, <1>3 DEF Inv, Owned, TargetHasForm, AskedFor, Holding, Working, Runs,
                      TargetHost, Host
  <1>5. /\ domain[h][1] \in Requests /\ Saved(domain[h][1]) /\ h = HostOf[domain[h][1]]
    BY DEF Inv, Owned, DomainHasForm, Runs
  <1>6. target[d][1] = domain[h][1]
    BY <1>4, <1>5 DEF Inv, Owned, OneForm, Claims
  <1> QED
    BY <1>2, <1>6

THEOREM OwnDeleted == AccountsSpec => DeletesOwnMachine
  <1> DEFINE Own ==
        \A h \in Hosts :
             /\ Exists(h) /\ domain'[h] = None
             /\ Never({"early"}) /\ domain[h][1] \notin rivals
          => \E d \in Deletions : /\ dpc[d] \in {"stop", "kill", "undefine"}
                                  /\ target[d][1] = domain[h][1]
  <1>1. Inv /\ [AccountsNext]_allVars => [Own]_vars
    <2>1. ASSUME Inv, AccountsNext PROVE Own
      BY <2>1, OwnStep DEF OnTime
    <2>2. UNCHANGED allVars => UNCHANGED vars
      BY DEF allVars
    <2> QED
      BY <2>1, <2>2
  <1>2. DeletesOwnMachine <=> [][Own]_vars
    BY DEF DeletesOwnMachine
  <1> HIDE DEF Own
  <1> QED
    BY <1>1, <1>2, InvAlways, PTL DEF AccountsSpec

-----------------------------------------------------------------------------
(***************************************************************************)
(* What runs is there, and what a deletion is about to undefine is not     *)
(* running: it was stopped, unless somebody started or suspended it.       *)
(***************************************************************************)
Active ==
    /\ handle \in [Deletions -> Runs \union {None}]
    /\ running \subseteq Hosts /\ \A h \in running : Exists(h)
    /\ transient \subseteq running

Stopped ==
    \A d \in Deletions : dpc[d] = "undefine" /\ Valid(d) =>
        TargetHost(d) \notin running \/ handle[d] \in spared

StopInv == Active /\ Stopped

LEMMA InitStop == AccountsInit => StopInv
  BY DEF AccountsInit, Init, StopInv, Active, Stopped

\* Steps that stop nothing and start nothing; a new domain does not run.
LEMMA StopFrame ==
  ASSUME Inv, StopInv, handle' \in [Deletions -> Runs \union {None}],
         \A d \in Deletions : dpc'[d] = "undefine" =>
            dpc[d] = "undefine" /\ target'[d] = target[d] /\ handle'[d] = handle[d],
         \/ domain' = domain
         \/ \E r \in Requests :
              ~Exists(HostOf[r]) /\ domain' = [domain EXCEPT ![HostOf[r]] = Id(r)],
         spared \subseteq spared', UNCHANGED <<running, transient>>
  PROVE  StopInv'
  <1>1. \A h \in running : domain'[h] = domain[h]
    BY DEF StopInv, Active, Exists, Inv, Types
  <1>2. Active'
    BY <1>1 DEF StopInv, Active, Exists
  <1>3. Stopped'
    <2>1. SUFFICES ASSUME NEW d \in Deletions, dpc'[d] = "undefine", Valid(d)',
                          TargetHost(d)' \in running
                   PROVE  handle'[d] \in spared'
      BY DEF Stopped
    <2>2. TargetHost(d)' = TargetHost(d) /\ Valid(d)
      BY <1>1, <2>1 DEF TargetHost, Host, Valid
    <2> QED
      BY <2>1, <2>2 DEF StopInv, Stopped
  <1> QED
    BY <1>2, <1>3 DEF StopInv

\* The steps of a hook.
LEMMA StopHook ==
  ASSUME Inv, StopInv, NEW d \in Deletions, HookStep(d)
  PROVE  StopInv'
  <1>1. /\ target[d] \in Runs /\ TargetHost(d) \in Hosts
        /\ \A e \in Deletions : TargetHost(e)' = TargetHost(e)
        /\ \A e \in Deletions \ {d} : dpc'[e] = dpc[e]
        /\ spared \subseteq spared'
    <2>1. /\ target[d] \in Runs /\ UNCHANGED target
          /\ \A e \in Deletions \ {d} : dpc'[e] = dpc[e]
      BY HookShapes DEF HookShape, Inv, AskedFor, Holding, Types
    <2>2. spared \subseteq spared'
      BY DEF HookStep, ForceStop, FindMachine, Lookup, Kill, Undefine
    <2> QED
      BY <2>1, <2>2, MachinesAssumption DEF TargetHost, Host, Runs
  <1>2. CASE FindMachine(d)
    <2>1. /\ dpc'[d] # "undefine"
          /\ UNCHANGED <<handle, domain, running, transient, target>>
      BY <1>2 DEF FindMachine, Delete, domainVars, Inv, Types
    <2> QED
      BY <1>1, <2>1, StopFrame DEF StopInv, Active
  <1>3. CASE Lookup(d)
    <2>1. /\ dpc'[d] # "undefine"
          /\ handle' = [handle EXCEPT ![d] = domain[TargetHost(d)]]
          /\ UNCHANGED <<domain, running, transient, target>>
      BY <1>3 DEF Lookup, Delete, domainVars, Inv, Types
    <2>2. domain[TargetHost(d)] \in Runs \union {None}
      BY <1>1 DEF Inv, Types
    <2>3. handle' \in [Deletions -> Runs \union {None}]
      BY <2>1, <2>2 DEF StopInv, Active
    <2>4. \A e \in Deletions \ {d} : handle'[e] = handle[e]
      BY <2>1 DEF StopInv, Active
    <2> QED
      BY <1>1, <2>1, <2>3, <2>4, StopFrame
  <1>4. CASE StopDomain(TargetHost(d)) /\ UNCHANGED handle
    <2>1. /\ running' = running \ {TargetHost(d)}
          /\ transient' \subseteq running'
          /\ \A h \in Hosts \ {TargetHost(d)} : domain'[h] = domain[h]
          /\ \/ domain' = domain
             \/ domain' = [domain EXCEPT ![TargetHost(d)] = None]
      BY <1>4 DEF StopDomain, Remove, StopInv, Active, Inv, Types
    <2>2. \A h \in running' : domain'[h] = domain[h]
      BY <2>1 DEF StopInv, Active
    <2>3. Active'
      BY <1>4, <2>1, <2>2 DEF StopInv, Active, Exists
    <2>4. Stopped'
      <3>1. SUFFICES ASSUME NEW e \in Deletions, dpc'[e] = "undefine", Valid(e)',
                            TargetHost(e) \in running'
                     PROVE  handle'[e] \in spared'
        BY <1>1 DEF Stopped
      <3>2. e # d \/ TargetHost(e) = TargetHost(d)
        OBVIOUS
      <3>3. e # d /\ dpc[e] = "undefine" /\ TargetHost(e) \in running
        BY <1>1, <2>1, <3>1, <3>2
      <3>4. Valid(e)
        BY <1>1, <1>4, <2>2, <3>1 DEF Valid
      <3> QED
        BY <1>1, <1>4, <3>3, <3>4 DEF StopInv, Stopped
    <2> QED
      BY <2>3, <2>4 DEF StopInv
  <1>5. CASE /\ dpc'[d] = "undefine" => handle[d] \in spared'
             /\ UNCHANGED <<handle, domain, running, transient>>
    <2>1. Active'
      BY <1>5 DEF StopInv, Active, Exists
    <2>2. Stopped'
      BY <1>1, <1>5 DEF StopInv, Stopped, Valid
    <2> QED
      BY <2>1, <2>2 DEF StopInv
  <1>6. CASE Undefine(d)
    <2>1. dpc'[d] # "undefine" /\ UNCHANGED handle
      BY <1>6 DEF Undefine, Retry, Delete, Inv, Types
    <2>2. CASE UNCHANGED domainVars
      BY <1>5, <2>1, <2>2 DEF domainVars
    <2>3. CASE UndefineDomain(TargetHost(d)) /\ TargetHost(d) \in running
      <3>1. /\ UNCHANGED <<domain, running>>
            /\ transient' = transient \union {TargetHost(d)}
        BY <2>3 DEF UndefineDomain
      <3>2. Active' /\ Stopped'
        BY <1>1, <2>1, <2>3, <3>1 DEF StopInv, Active, Stopped, Exists, Valid
      <3> QED
        BY <3>2 DEF StopInv
    <2>4. CASE UndefineDomain(TargetHost(d)) /\ TargetHost(d) \notin running
      <3>1. /\ domain' = [domain EXCEPT ![TargetHost(d)] = None]
            /\ running' = running /\ transient' = transient
        BY <2>4 DEF UndefineDomain, Remove, StopInv, Active
      <3>2. \A h \in running : domain'[h] = domain[h]
        BY <2>4, <3>1 DEF Inv, Types
      <3>3. Active'
        BY <2>1, <3>1, <3>2 DEF StopInv, Active, Exists
      <3>4. Stopped'
        <4>1. SUFFICES ASSUME NEW e \in Deletions, dpc'[e] = "undefine", Valid(e)',
                              TargetHost(e) \in running
                       PROVE  handle'[e] \in spared'
          BY <1>1, <3>1 DEF Stopped
        <4>2. dpc[e] = "undefine" /\ Valid(e)
          BY <1>1, <2>1, <3>2, <4>1 DEF Valid
        <4> QED
          BY <1>1, <2>1, <4>1, <4>2 DEF StopInv, Stopped
      <3> QED
        BY <3>3, <3>4 DEF StopInv
    <2> QED
      BY <1>6, <2>2, <2>3, <2>4 DEF Undefine
  <1>7. CASE ForceStop(d)
    BY <1>4, <1>7 DEF ForceStop
  <1>8. CASE Kill(d)
    <2>1. \/ StopDomain(TargetHost(d)) /\ UNCHANGED handle
          \/ /\ UNCHANGED <<handle, domain, running, transient>>
             /\ handle[d] \in spared'
          \/ UNCHANGED <<handle, domain, running, transient>> /\ Retry(d, "kill")
      BY <1>8 DEF Kill, domainVars
    <2>2. Retry(d, "kill") => dpc'[d] # "undefine"
      BY DEF Retry, Delete, Inv, Types
    <2> QED
      BY <1>4, <1>5, <2>1, <2>2
  <1> QED
    BY <1>2, <1>3, <1>6, <1>7, <1>8 DEF HookStep

\* A machine that is started has a domain, and none that a deletion is about to
\* undefine is started unnoticed.
LEMMA StopUse ==
  ASSUME Inv, StopInv, NEW h \in Hosts, Use(h)
  PROVE  StopInv'
  <1>1. CASE Start(h)
    <2>1. /\ Exists(h) /\ running' = running \union {h}
          /\ UNCHANGED <<domain, transient, dpc, target, handle>>
          /\ spared \subseteq spared'
          /\ \A d \in Deletions : dpc[d] = "undefine" /\ handle[d] = domain[h] =>
                handle[d] \in spared'
      BY <1>1 DEF Start, deleteVars
    <2>2. Active'
      BY <2>1 DEF StopInv, Active, Exists
    <2>3. Stopped'
      BY <2>1 DEF StopInv, Stopped, Valid, TargetHost, Host
    <2> QED
      BY <2>2, <2>3 DEF StopInv
  <1>2. CASE Pause(h) \/ Resume(h)
    <2>1. UNCHANGED <<domain, running, transient, dpc, target, handle, spared>>
      BY <1>2 DEF Pause, Resume, deleteVars
    <2> QED
      BY <2>1 DEF StopInv, Active, Stopped, Exists, Valid, TargetHost, Host
  <1> QED
    BY <1>1, <1>2 DEF Use

LEMMA StopJob ==
  ASSUME Inv, StopInv, NEW r \in Requests, Job(r)
  PROVE  StopInv'
  <1>1. /\ UNCHANGED <<running, transient, handle, dpc, target, spared>>
        /\ \/ domain' = domain
           \/ ~Exists(HostOf[r]) /\ domain' = [domain EXCEPT ![HostOf[r]] = Id(r)]
    BY DEF Job, Mistake, CreateJob, Begin, List, Define, Find, AddVolume, AssignVolume,
           SaveRow, SetFinished, Rescue, JobEnds, CreateFault, CreateSilent, CreateCrash,
           CreateRefused, Enqueue, WebDies, deleteVars, domainVars
  <1> QED
    BY <1>1, StopFrame DEF StopInv, Active

\* All other steps of deletions.
LEMMA StopDelete ==
  ASSUME Inv, StopInv, NEW d \in Deletions,
         \/ RequestDelete(d) \/ FindRow(d) \/ DestroyRow(d) \/ DeleteEnds(d) \/ Mishap(d)
         \/ d = cleanup /\ CleanUp /\ ~Hook
  PROVE  StopInv'
  <1>1. /\ UNCHANGED <<domain, running, transient, spared>>
        /\ \E q \in {"queued", "stop", "failed", "performed", "done", "find", "row", "none",
                     "next"} : dpc' = [dpc EXCEPT ![d] = q]
        /\ target' = target \/ \E id : target' = [target EXCEPT ![d] = id]
        /\ handle' = handle \/ handle' = [handle EXCEPT ![d] = None]
    BY DEF RequestDelete, FindRow, DestroyRow, DeleteEnds, Mishap, DeleteFault, DeleteSilent,
           DeleteCrash, Retry, Delete, CleanUp, Begins, NextRow, Proceed, RowDone, Commit,
           RollBack, domainVars
  <1>2. handle' \in [Deletions -> Runs \union {None}]
    BY <1>1 DEF StopInv, Active
  <1>3. \A e \in Deletions : dpc'[e] = "undefine" =>
            dpc[e] = "undefine" /\ target'[e] = target[e] /\ handle'[e] = handle[e]
    BY <1>1 DEF StopInv, Active, Inv, Types
  <1> QED
    BY <1>1, <1>2, <1>3, StopFrame

LEMMA StopStep ==
  ASSUME Inv, StopInv, [AccountsNext]_allVars
  PROVE  StopInv'
  <1>1. CASE \E r \in Requests : Job(r)
    BY <1>1, StopJob
  <1>2. CASE \E d \in Deletions : HookStep(d)
    BY <1>2, StopHook
  <1>3. CASE \/ \E d \in Deletions :
                  \/ RequestDelete(d) \/ FindRow(d) \/ DestroyRow(d) \/ DeleteEnds(d)
                  \/ Mishap(d)
             \/ CleanUp /\ ~Hook
    BY <1>3, StopDelete, AccountsAssumption
  <1>4. CASE Uses
    BY <1>4, StopUse DEF Uses
  <1>5. CASE \/ SignOut \/ UNCHANGED allVars
             \/ \E r \in Requests : Validate(r) \/ Save(r) \/ FormRefused(r)
    <2>1. UNCHANGED <<domain, running, transient, dpc, target, handle, spared>>
      BY <1>5 DEF SignOut, allVars, vars, Validate, Save, FormRefused, domainVars, deleteVars
    <2> QED
      BY <2>1, StopFrame DEF StopInv, Active
  <1> QED
    BY <1>1, <1>2, <1>3, <1>4, <1>5, AccountsAssumption
       DEF AccountsNext, Forms, AsksToDelete, Creates, Deletes, DeleteJob, HookStep,
           GoesWrong, Job, Mistake, Mishap, CleanUp, Hook

LEMMA StopAlways ==
  AccountsSpec => []StopInv
  <1>1. AccountsInit => StopInv
    BY InitStop
  <1>2. Inv /\ StopInv /\ [AccountsNext]_allVars => StopInv'
    BY StopStep
  <1> QED
    BY <1>1, <1>2, InvAlways, PTL DEF AccountsSpec

-----------------------------------------------------------------------------
(***************************************************************************)
(* What is deleted is gone.  A run of a create job defines its domain      *)
(* once, before it saves its row: whatever has a row is never defined      *)
(* again.  So a domain stays away once a deletion is past the hook.        *)
(***************************************************************************)
Quiet == Never({"silent"})

\* The run that defines the domain id is past that point.
Over(id) ==
    \/ id[2] < tries[id[1]]
    \/ id[2] = tries[id[1]] /\ cpc[id[1]] \notin {"list", "define"}

Away(id) == domain[Host(id)] # id

\* The domain is away, or was active when it should have gone.
Settled(id) == Away(id) \/ id \in spared

Past ==
    /\ cleared \union destroyed \subseteq Runs
    /\ \A id \in meta \union cleared \union destroyed : Over(id)
    /\ \A d \in Deletions : target[d] \in Runs => Over(target[d])

CleanupPlaces == dpc[cleanup] \notin {"performed", "done"}

Gone ==
    /\ \A d \in Deletions : dpc[d] \in {"row", "performed", "done"} => Settled(target[d])
    /\ \A id \in cleared \union destroyed : Settled(id)

GoneInv == Past /\ CleanupPlaces /\ (Quiet => Gone)

LEMMA InitGone == AccountsInit => GoneInv
  <1> SUFFICES ASSUME AccountsInit
               PROVE  GoneInv
    OBVIOUS
  <1>1. /\ meta = {} /\ cleared = {} /\ destroyed = {}
        /\ dpc = [d \in Deletions |-> "none"] /\ target = [d \in Deletions |-> None]
    BY DEF AccountsInit, Init
  <1>2. \A d \in Deletions : target[d] \notin Runs
    BY <1>1, MachinesAssumption DEF Runs
  <1>3. Past
    BY <1>1, <1>2 DEF Past
  <1> QED
    BY <1>1, <1>3, AccountsAssumption DEF GoneInv, CleanupPlaces, Gone

\* Steps that delete nothing and go nowhere.
LEMMA FrameGone ==
  ASSUME GoneInv, Quiet' => Quiet, spared \subseteq spared',
         UNCHANGED <<meta, domain, tries, cpc, dpc, target, cleared, destroyed>>
  PROVE  GoneInv'
  BY DEF GoneInv, Past, CleanupPlaces, Gone, Settled, Over, Away, Host

LEMMA QuietNone ==
  ASSUME BudgetOk, UNCHANGED budget
  PROVE  Quiet' => Quiet
  BY DEF Quiet, Never, Bounds

LEMMA QuietSpent ==
  ASSUME BudgetOk, NEW kind \in Kinds \ {"any"}, Spend(kind)
  PROVE  Quiet' => Quiet /\ kind # "silent"
  BY Spent DEF Quiet, Kinds

\* A create job: what is past stays past, what is away stays away.
LEMMA JobOver ==
  ASSUME Types, NEW r \in Requests, Job(r), NEW id \in Runs, Over(id)
  PROVE  Over(id)' /\ (Away(id) => Away(id)')
  <1>0. id[1] \in Requests /\ id[2] \in Nat /\ tries[id[1]] \in Nat
    BY DEF Types, Runs
  <1>1. CASE Begin(r)
    <2>1. /\ tries' = [tries EXCEPT ![r] = @ + 1] /\ UNCHANGED domain
          /\ \E q \in CPCs : cpc' = [cpc EXCEPT ![r] = q]
      BY <1>1 DEF Begin, Create, CPCs, domainVars
    <2>2. CASE id[1] = r
      <3>1. tries'[id[1]] = tries[id[1]] + 1
        BY <2>1, <2>2 DEF Types
      <3>2. id[2] <= tries[id[1]]
        BY <1>0 DEF Over
      <3> QED
        BY <1>0, <2>1, <3>1, <3>2 DEF Over, Away, Host
    <2>3. CASE id[1] # r
      <3>1. tries'[id[1]] = tries[id[1]] /\ cpc'[id[1]] = cpc[id[1]]
        BY <1>0, <2>1, <2>3 DEF Types
      <3> QED
        BY <2>1, <3>1 DEF Over, Away, Host
    <2> QED
      BY <2>2, <2>3
  <1>2. CASE ~Begin(r)
    <2>1. /\ tries' = tries
          /\ \E q \in CPCs : /\ cpc' = [cpc EXCEPT ![r] = q]
                             /\ q # "list" /\ (q = "define" => cpc[r] = "list")
      <3>1. CASE CreateSilent(r)
        BY <3>1 DEF CreateSilent, Silently, Create, CPCs
      <3> QED
        BY <1>2, <3>1 DEF Job, Mistake, CreateJob, List, Define, Find, AddVolume, AssignVolume, SaveRow,
             SetFinished, JobEnds, Rescue, CreateFault, CreateCrash, CreateRefused, Enqueue,
             WebDies, Create, CPCs
    <2>2. Over(id)'
      BY <1>0, <2>1 DEF Over, Types
    <2>3. CASE domain' = domain
      BY <2>2, <2>3 DEF Away, Host
    <2>4. CASE domain' # domain
      <3>1. /\ cpc[r] = "define" /\ domain' = [domain EXCEPT ![HostOf[r]] = Id(r)]
        BY <1>2, <2>4 DEF Job, Mistake, CreateJob, List, Define, Find, AddVolume, AssignVolume,
             SaveRow, SetFinished, JobEnds, Rescue, CreateFault, CreateSilent, CreateCrash,
             CreateRefused, Enqueue, WebDies,
             Create, domainVars
      <3>2. Id(r) # id
        BY <1>0, <3>1 DEF Over, Id
      <3>3. Host(id) \in Hosts
        BY <1>0, MachinesAssumption DEF Host
      <3> QED
        BY <2>2, <3>1, <3>2, <3>3 DEF Away, Types, Host
    <2> QED
      BY <2>2, <2>3, <2>4
  <1> QED
    BY <1>1, <1>2

LEMMA JobGone ==
  ASSUME Inv, GoneInv, NEW r \in Requests, Job(r), UNCHANGED accountVars
  PROVE  GoneInv'
  <1>1. /\ UNCHANGED <<dpc, target, cleared, destroyed, spared>>
        /\ meta' \subseteq meta \union {Id(r)}
        /\ meta' # meta => cpc' = [cpc EXCEPT ![r] = "given"] /\ tries' = tries
    BY DEF Job, Mistake, CreateJob, Begin, List, Define, Find, AddVolume, AssignVolume, SaveRow,
           SetFinished, JobEnds, Rescue, CreateFault, CreateSilent, CreateCrash, CreateRefused,
           Enqueue, WebDies, Create, deleteVars,
           domainVars, rowVars, accountVars, cleanVars
  <1>0. \A id \in Runs : Over(id) => Over(id)' /\ (Away(id) => Away(id)')
    BY JobOver DEF Inv
  <1>2. Past'
    <2>1. \A id \in meta \union cleared \union destroyed : Over(id)'
      BY <1>0 DEF GoneInv, Past, Inv, Types
    <2>2. ASSUME NEW id \in meta' \ meta PROVE Over(id)'
      <3>1. tries' = tries /\ cpc'[r] = "given" /\ id = <<r, tries[r]>>
        BY <1>1, <2>2 DEF Inv, Types, Id
      <3> QED
        BY <3>1 DEF Over
    <2>3. \A d \in Deletions : target[d] \in Runs => Over(target[d])'
      BY <1>0, <1>1 DEF GoneInv, Past, Over
    <2> QED
      BY <1>1, <2>1, <2>2, <2>3 DEF GoneInv, Past
  <1>3. CleanupPlaces'
    BY <1>1 DEF GoneInv, CleanupPlaces
  <1>4. Quiet' => Quiet
    <2>1. CASE UNCHANGED budget
      BY <2>1, QuietNone DEF Inv
    <2>2. CASE \E kind \in {"fault", "silent", "crash"} : Spend(kind)
      BY <2>2, QuietSpent DEF Inv, Kinds
    <2> QED
      BY <2>1, <2>2 DEF Job, Mistake, CreateJob, Begin, List, Define, Find, AddVolume, AssignVolume,
           SaveRow, SetFinished, JobEnds, Rescue, CreateFault, CreateSilent, CreateCrash,
           CreateRefused, Enqueue, WebDies
  <1>5. ASSUME Quiet PROVE Gone'
    <2>1. \A id \in cleared \union destroyed : Settled(id)'
      BY <1>0, <1>1, <1>5 DEF GoneInv, Past, Gone, Settled
    <2>2. \A d \in Deletions : dpc[d] \in {"row", "performed", "done"} =>
            target[d] \in Runs /\ Over(target[d]) /\ Settled(target[d])
      BY <1>5 DEF Inv, AskedFor, Holding, GoneInv, CleanupPlaces, Past, Gone
    <2>3. \A d \in Deletions : dpc[d] \in {"row", "performed", "done"} => Settled(target[d])'
      BY <1>0, <1>1, <2>2 DEF Away, Settled
    <2> QED
      BY <1>1, <2>1, <2>3 DEF Gone, Away, Settled
  <1> QED
    BY <1>2, <1>3, <1>4, <1>5 DEF GoneInv

\* A deletion moves on: it must have seen its domain go.
LEMMA MoveGone ==
  ASSUME Inv, GoneInv, NEW d \in Deletions, NEW q \in DPCs,
         dpc' = [dpc EXCEPT ![d] = q], d = cleanup => q \notin {"performed", "done"},
         Quiet' => Quiet,
         Quiet' /\ q \in {"row", "performed", "done"} => Settled(target[d])',
         spared \subseteq spared',
         \/ domain' = domain
         \/ dpc[d] \in Working /\ domain' = [domain EXCEPT ![TargetHost(d)] = None],
         meta' \subseteq meta,
         UNCHANGED <<cpc, tries, target, cleared, destroyed>>
  PROVE  GoneInv'
  <1>1. Past'
    BY DEF GoneInv, Past, Over
  <1>2. CleanupPlaces'
    BY DEF GoneInv, CleanupPlaces, Inv, Types
  <1>3. \A id \in Runs : Away(id) => Away(id)'
    <2>1. CASE domain' = domain
      BY <2>1 DEF Away, Host
    <2>2. CASE dpc[d] \in Working /\ domain' = [domain EXCEPT ![TargetHost(d)] = None]
      <3>1. \A id \in Runs : Host(id) \in Hosts /\ id # None
        BY MachinesAssumption DEF Runs, Host
      <3> QED
        BY <2>2, <3>1 DEF Away, Inv, Types, Host
    <2> QED
      BY <2>1, <2>2
  <1>4. ASSUME Quiet' PROVE Gone'
    <2>1. \A e \in Deletions \ {d} : dpc[e] \in {"row", "performed", "done"} => target[e] \in Runs
      BY DEF Inv, AskedFor, Holding, GoneInv, CleanupPlaces
    <2>2. \A e \in Deletions \ {d} :
            dpc[e] \in {"row", "performed", "done"} => Settled(target[e])'
      BY <1>3, <1>4, <2>1 DEF GoneInv, Gone, Settled
    <2>3. \A id \in cleared \union destroyed : Settled(id)'
      BY <1>3, <1>4 DEF GoneInv, Past, Gone, Settled
    <2>4. \A e \in Deletions \ {d} : dpc'[e] = dpc[e]
      BY DEF Inv, Types
    <2>5. dpc'[d] = q
      BY DEF Inv, Types
    <2> QED
      BY <1>4, <2>2, <2>3, <2>4, <2>5 DEF Gone, Away, Settled
  <1> QED
    BY <1>1, <1>2, <1>4 DEF GoneInv

\* The hook leaves the way to the row open only when the domain is away, or is
\* one that was spared.
LEMMA HookGone ==
  ASSUME Inv, StopInv, NEW d \in Deletions, HookStep(d)
  PROVE  spared \subseteq spared' /\ (dpc'[d] = "row" => Settled(target[d])')
  <1>0. spared \subseteq spared'
    BY DEF HookStep, ForceStop, FindMachine, Lookup, Kill, Undefine
  <1>1. target[d] \in Runs /\ TargetHost(d) \in Hosts /\ Host(target[d]) = TargetHost(d)
        /\ target[d] # None
    <2>1. target[d] \in Runs
      BY HookShapes DEF HookShape, Inv, AskedFor, Holding
    <2> QED
      BY <2>1, MachinesAssumption DEF TargetHost, Host, Runs
  <1>2. CASE ForceStop(d) \/ Kill(d)
    <2>1. \E q \in {"find", "undefine", "queued", "failed"} : dpc' = [dpc EXCEPT ![d] = q]
      BY <1>2 DEF ForceStop, Kill, Delete, Retry
    <2>2. dpc'[d] # "row"
      BY <2>1 DEF Inv, Types
    <2> QED
      BY <1>0, <2>2
  <1>3. CASE FindMachine(d)
    <2>1. dpc'[d] = "row" => Away(target[d])'
      BY <1>1, <1>3 DEF FindMachine, Delete, Inv, Types, domainVars, Exists, Away, Host
    <2> QED
      BY <1>0, <2>1 DEF Settled
  <1>4. CASE Lookup(d)
    <2>1. dpc'[d] = "row" => Away(target[d])'
      BY <1>1, <1>4 DEF Lookup, Delete, Inv, Types, domainVars, Exists, Away, Host
    <2> QED
      BY <1>0, <2>1 DEF Settled
  <1>6. CASE Undefine(d)
    <2>1. CASE Retry(d, "undefine")
      <3>1. dpc'[d] # "row"
        BY <2>1 DEF Retry, Delete, Inv, Types
      <3> QED
        BY <1>0, <3>1
    <2>2. CASE UndefineDomain(TargetHost(d)) /\ Valid(d) /\ dpc[d] = "undefine"
      <3>1. UNCHANGED <<target, spared>>
        BY <1>6 DEF Undefine
      <3>2. CASE TargetHost(d) \in running
        <4>1. domain' = domain /\ handle[d] \in spared /\ domain[TargetHost(d)] = handle[d]
          BY <2>2, <3>2 DEF UndefineDomain, StopInv, Stopped, Valid
        <4> QED
          BY <1>1, <3>1, <4>1 DEF Settled, Away, Host
      <3>3. CASE TargetHost(d) \notin running
        <4>1. domain'[TargetHost(d)] = None
          BY <1>1, <2>2, <3>3 DEF UndefineDomain, Remove, Inv, Types
        <4> QED
          BY <1>1, <3>1, <4>1 DEF Settled, Away, TargetHost, Host
      <3> QED
        BY <3>2, <3>3
    <2> QED
      BY <1>6, <2>1, <2>2 DEF Undefine
  <1> QED
    BY <1>2, <1>3, <1>4, <1>6 DEF HookStep

LEMMA HookGoneKept ==
  ASSUME Inv, StopInv, GoneInv, NEW d \in Deletions, HookStep(d), UNCHANGED accountVars
  PROVE  GoneInv'
  <1>1. PICK q \in DPCs : HookShape(d, q)
    BY HookShapes
  <1>2. dpc'[d] = q /\ q \notin {"performed", "done"}
    BY <1>1 DEF HookShape, Inv, Types
  <1>3. Quiet' => Quiet
    BY <1>1, QuietNone DEF HookShape, Inv
  <1>4. spared \subseteq spared' /\ (q \in {"row", "performed", "done"} => Settled(target[d])')
    BY <1>2, HookGone
  <1> QED
    BY <1>1, <1>2, <1>3, <1>4, MoveGone DEF HookShape, accountVars, cleanVars

LEMMA MishapGone ==
  ASSUME Inv, GoneInv, NEW d \in Deletions, Mishap(d), UNCHANGED accountVars
  PROVE  GoneInv'
  <1>1. UNCHANGED <<meta, domain, spared, cpc, tries, target, cleared, destroyed>>
    BY DEF Mishap, DeleteFault, DeleteSilent, DeleteCrash, rowVars, domainVars,
           createVars, accountVars, cleanVars
  <1>2. Quiet' => Quiet /\ ~DeleteSilent(d)
    BY QuietSpent DEF Mishap, DeleteFault, DeleteSilent, DeleteCrash, Inv, Kinds
  <1>3. \E q \in {"find", "queued", "failed", "row"} :
          /\ dpc' = [dpc EXCEPT ![d] = q]
          /\ q = "row" => DeleteSilent(d)
    BY DEF Mishap, DeleteFault, DeleteSilent, DeleteCrash, Retry, Delete
  <1>4. PICK q \in {"find", "queued", "failed", "row"} :
          /\ dpc' = [dpc EXCEPT ![d] = q]
          /\ q = "row" => DeleteSilent(d)
    BY <1>3
  <1>5. q \in DPCs
    BY DEF DPCs, Holding, Working
  <1> QED
    BY <1>1, <1>2, <1>4, <1>5, MoveGone

LEMMA DeleteGone ==
  ASSUME Inv, StopInv, GoneInv, NEW d \in Deletions \ {cleanup}, DeleteJob(d),
         UNCHANGED accountVars
  PROVE  GoneInv'
  <1>0. UNCHANGED accountVars /\ UNCHANGED <<cleared, destroyed>>
    BY DEF accountVars, cleanVars
  <1>1. CASE HookStep(d)
    BY <1>0, <1>1, HookGoneKept
  <1>2. CASE FindRow(d) \/ DestroyRow(d) \/ DeleteEnds(d)
    <2>1. /\ meta' \subseteq meta
          /\ UNCHANGED <<domain, spared, cpc, tries, target, budget>>
      BY <1>2 DEF FindRow, DestroyRow, DeleteEnds, rowVars, domainVars, createVars
    <2>2. PICK q \in {"stop", "queued", "failed", "performed", "done"} :
            /\ dpc' = [dpc EXCEPT ![d] = q]
            /\ q \in {"performed", "done"} => dpc[d] \in {"row", "performed"}
      BY <1>2 DEF FindRow, DestroyRow, DeleteEnds, Retry, Delete
    <2>3. q \in DPCs
      BY DEF DPCs, Holding, Working
    <2>4. Quiet' => Quiet
      BY <2>1, QuietNone DEF Inv
    <2>5. Quiet => (q \in {"row", "performed", "done"} => Settled(target[d])')
      BY <2>1, <2>2 DEF GoneInv, Gone, Settled, Away, Host
    <2> QED
      BY <1>0, <2>1, <2>2, <2>3, <2>4, <2>5, MoveGone
  <1> QED
    BY <1>1, <1>2 DEF DeleteJob, HookStep

LEMMA CleanUpGone ==
  ASSUME Inv, StopInv, GoneInv, CleanUp
  PROVE  GoneInv'
  <1>1. CASE Begins
    <2>1. /\ dpc[cleanup] = "none" /\ dpc' = [dpc EXCEPT ![cleanup] = "next"]
          /\ cleared' = {}
          /\ UNCHANGED <<meta, domain, spared, cpc, tries, target, destroyed, budget>>
      BY <1>1 DEF Begins, Proceed, Delete, domainVars, createVars
    <2> QED
      BY <2>1, AccountsAssumption, QuietNone
         DEF GoneInv, Past, CleanupPlaces, Gone, Settled, Over, Away, Host, Inv, Types
  <1>2. CASE NextRow
    <2>1. PICK id \in todo :
            /\ dpc[cleanup] = "next" /\ dpc' = [dpc EXCEPT ![cleanup] = "stop"]
            /\ target' = [target EXCEPT ![cleanup] = id]
            /\ UNCHANGED <<meta, domain, spared, cpc, tries, cleared, destroyed,
                           budget>>
      BY <1>2 DEF NextRow, Proceed, Delete, domainVars, createVars, accountVars, cleanVars
    <2>2. id \in meta
      BY <2>1 DEF Inv, Transaction, Rows
    <2>3. Past'
      BY <2>1, <2>2 DEF GoneInv, Past, Over, Inv, Types
    <2>4. CleanupPlaces'
      BY <2>1 DEF CleanupPlaces, Inv, Types
    <2>5. Gone => Gone'
      <3>1. \A d \in Deletions : d = cleanup => dpc'[d] = "stop"
        BY <2>1 DEF Inv, Types
      <3>2. \A d \in Deletions : d # cleanup => dpc'[d] = dpc[d] /\ target'[d] = target[d]
        BY <2>1 DEF Inv, Types
      <3> QED
        BY <2>1, <3>1, <3>2 DEF Gone, Settled, Away, Host
    <2> QED
      BY <2>1, <2>3, <2>4, <2>5, QuietNone DEF GoneInv, Inv
  <1>3. CASE Hook
    BY <1>3, HookGoneKept, AccountsAssumption DEF Hook, HookStep
  <1>4. CASE RowDone
    <2>1. /\ dpc[cleanup] = "row" /\ dpc' = [dpc EXCEPT ![cleanup] = "next"]
          /\ cleared' = cleared \union {target[cleanup]}
          /\ UNCHANGED <<meta, domain, spared, cpc, tries, target, destroyed,
                         budget>>
      BY <1>4 DEF RowDone, Proceed, Delete, domainVars, createVars
    <2>2. target[cleanup] \in meta
      BY <2>1 DEF Inv, Transaction, Holding, Rows
    <2>3. Past'
      BY <2>1, <2>2 DEF GoneInv, Past, Over, Inv, Types
    <2>4. CleanupPlaces'
      BY <2>1 DEF CleanupPlaces, Inv, Types
    <2>5. Gone => Gone'
      BY <2>1, AccountsAssumption DEF Gone, Settled, Away, Host, Inv, Types
    <2> QED
      BY <2>1, <2>3, <2>4, <2>5, QuietNone DEF GoneInv, Inv
  <1>5. CASE Commit
    <2>1. /\ dpc[cleanup] = "next" /\ dpc' = [dpc EXCEPT ![cleanup] = "none"]
          /\ meta' = meta \ cleared /\ destroyed' = cleared /\ cleared' = {}
          /\ UNCHANGED <<domain, spared, cpc, tries, target>>
      BY <1>5 DEF Commit, Delete, domainVars, createVars
    <2>2. Quiet' => Quiet
      BY <1>5, QuietNone, QuietSpent DEF Commit, Inv, Kinds
    <2>3. Past'
      BY <2>1 DEF GoneInv, Past, Over, Inv, Types
    <2>4. CleanupPlaces' /\ (Gone => Gone')
      BY <2>1, AccountsAssumption DEF CleanupPlaces, Gone, Settled, Away, Host, Inv, Types
    <2> QED
      BY <2>2, <2>3, <2>4 DEF GoneInv
  <1>6. CASE RollBack
    <2>1. /\ dpc' = [dpc EXCEPT ![cleanup] = "none"] /\ cleared' = {}
          /\ UNCHANGED <<meta, domain, spared, cpc, tries, target, destroyed,
                         budget>>
      BY <1>6 DEF RollBack, rowVars, domainVars, createVars
    <2> QED
      BY <2>1, AccountsAssumption, QuietNone
         DEF GoneInv, Past, CleanupPlaces, Gone, Settled, Over, Away, Host, Inv, Types
  <1> QED
    BY <1>1, <1>2, <1>3, <1>4, <1>5, <1>6 DEF CleanUp

LEMMA GoneStep ==
  ASSUME Inv, StopInv, GoneInv, [AccountsNext]_allVars
  PROVE  GoneInv'
  <1>1. CASE Forms
    <2>1. PICK r \in Requests :
            Validate(r) \/ Save(r) \/ FormRefused(r) \/ Enqueue(r) \/ WebDies(r)
      BY <1>1 DEF Forms
    <2>2. UNCHANGED accountVars
      BY <1>1 DEF Forms, Reads, Writes, Others
    <2>3. CASE Validate(r) \/ FormRefused(r)
      <3>1. UNCHANGED <<meta, domain, spared, tries, cpc, dpc, target, cleared, destroyed,
                        budget>>
        BY <2>2, <2>3 DEF Validate, FormRefused, domainVars, createVars, deleteVars,
                          accountVars, cleanVars
      <3> QED
        BY <3>1, FrameGone, QuietNone DEF Inv
    <2>4. CASE Save(r)
      <3>1. /\ cpc' = [cpc EXCEPT ![r] = "saved"]
            /\ UNCHANGED <<meta, domain, spared, tries, dpc, target, cleared, destroyed,
                           budget>>
        BY <2>2, <2>4 DEF Save, Create, domainVars, deleteVars, accountVars, cleanVars
      <3>2. \A id \in Runs : Over(id) => Over(id)'
        BY <3>1 DEF Over, Runs, Inv, Types
      <3>3. Past'
        <4>1. \A d \in Deletions : target[d] \in Runs => Over(target[d])'
          BY <3>1, <3>2 DEF GoneInv, Past, Over
        <4>2. \A id \in meta \union cleared \union destroyed : Over(id)'
          BY <3>2 DEF GoneInv, Past, Inv, Types
        <4> QED
          BY <3>1, <4>1, <4>2 DEF GoneInv, Past
      <3>4. CleanupPlaces' /\ (Gone => Gone')
        BY <3>1 DEF GoneInv, CleanupPlaces, Gone, Settled, Away, Host
      <3> QED
        BY <3>1, <3>3, <3>4, QuietNone DEF GoneInv, Inv
    <2>5. CASE Enqueue(r) \/ WebDies(r)
      BY <2>2, <2>5, JobGone DEF Job
    <2> QED
      BY <2>1, <2>3, <2>4, <2>5
  <1>2. CASE AsksToDelete
    <2>1. PICK d \in Deletions \ {cleanup} : RequestDelete(d) /\ Others
      BY <1>2 DEF AsksToDelete, Writes
    <2>2. PICK id \in meta :
            /\ dpc' = [dpc EXCEPT ![d] = "queued"] /\ target' = [target EXCEPT ![d] = id]
            /\ UNCHANGED <<meta, domain, spared, cpc, tries, cleared, destroyed,
                           budget>>
      BY <2>1 DEF RequestDelete, Delete, Others, rowVars, domainVars, createVars, accountVars,
                  cleanVars
    <2>3. Past'
      BY <2>2 DEF GoneInv, Past, Over, Inv, Types
    <2>4. CleanupPlaces'
      BY <2>2 DEF GoneInv, CleanupPlaces, Inv, Types
    <2>5. Gone => Gone'
      <3>1. dpc'[d] = "queued"
        BY <2>2 DEF Inv, Types
      <3>2. \A e \in Deletions : e # d => dpc'[e] = dpc[e] /\ target'[e] = target[e]
        BY <2>2 DEF Inv, Types
      <3> QED
        BY <2>2, <3>1, <3>2 DEF Gone, Settled, Away, Host
    <2> QED
      BY <2>2, <2>3, <2>4, <2>5, QuietNone DEF GoneInv, Inv
  <1>3. CASE Uses
    <2>1. /\ UNCHANGED <<meta, domain, cpc, tries, dpc, target, cleared, destroyed>>
          /\ spared \subseteq spared'
          /\ UNCHANGED budget \/ Spend("start")
      BY <1>3 DEF Uses, Use, Reads, Others, Start, Pause, Resume, rowVars, createVars,
                  deleteVars, accountVars, cleanVars
    <2> QED
      BY <2>1, FrameGone, QuietNone, QuietSpent DEF Inv, Kinds
  <1>4. CASE \E r \in Requests : Creates(r)
    BY <1>4, JobGone DEF Creates, Job, Reads, Writes, Others
  <1>5. CASE \E d \in Deletions \ {cleanup} : Deletes(d)
    BY <1>5, DeleteGone DEF Deletes, Reads, Writes, Others
  <1>6. CASE GoesWrong
    BY <1>6, JobGone, MishapGone DEF GoesWrong, Job, Mistake, Mishap, Others
  <1>7. CASE SignOut \/ UNCHANGED allVars
    <2>1. UNCHANGED <<meta, domain, spared, tries, cpc, dpc, target, cleared,
                      destroyed, budget>>
      BY <1>7 DEF SignOut, allVars, vars, rowVars, domainVars, createVars, deleteVars,
                  accountVars, cleanVars
    <2> QED
      BY <2>1, FrameGone, QuietNone DEF Inv
  <1>8. CASE CleanUp
    BY <1>8, CleanUpGone
  <1> QED
    BY <1>1, <1>2, <1>3, <1>4, <1>5, <1>6, <1>7, <1>8 DEF AccountsNext

LEMMA GoneAlways ==
  AccountsSpec => []GoneInv
  <1>1. AccountsInit => GoneInv
    BY InitGone
  <1>2. Inv /\ StopInv /\ GoneInv /\ [AccountsNext]_allVars => GoneInv'
    BY GoneStep
  <1> QED
    BY <1>1, <1>2, InvAlways, StopAlways, PTL DEF AccountsSpec

\* The row outlives the domain: a machine that is no longer listed, running or
\* not when it was deleted, does not go on to exist, however often the delete job
\* fails loudly or dies; unless it was active when it was undefined.
THEOREM DeletedStaysGone ==
  AccountsSpec => []DeletedIsGone
  <1>1. GoneInv => DeletedIsGone
    BY DEF GoneInv, Gone, Settled, DeletedIsGone, Quiet, Away, TargetHost
  <1> QED
    BY <1>1, GoneAlways, PTL

-----------------------------------------------------------------------------
(***************************************************************************)
(* A guest who is destroyed when nothing of his is under way stays away.   *)
(***************************************************************************)
InTime == Never({"early"})

NothingLeft ==
    /\ Rows = {}
    /\ \A r \in Guest : newm[r] # "valid" /\ cpc[r] \in NoJob

GuestInv == account = "gone" /\ InTime => NothingLeft

\* Nothing starts again without a form, nor a form without an account.
LEMMA NothingStarts ==
  ASSUME Inv, NothingLeft, account = "gone", [AccountsNext]_allVars, ~Commit
  PROVE  NothingLeft'
  <1>0. Guest \subseteq Requests
    BY AccountsAssumption
  <1>1. CASE Forms /\ ~\E r \in Requests : Job(r)
    <2>1. PICK r \in Requests \ Guest : Validate(r) \/ Save(r) \/ FormRefused(r)
      BY <1>1 DEF Forms, SignedIn, Save, FormRefused, NothingLeft, Job
    <2>2. /\ \E s \in {"none", "valid", "pending"} : newm' = [newm EXCEPT ![r] = s]
          /\ \/ cpc' = cpc \/ cpc' = [cpc EXCEPT ![r] = "saved"]
          /\ meta' = meta
      BY <2>1 DEF Validate, Save, FormRefused, Create, createVars
    <2> QED
      BY <1>0, <2>1, <2>2 DEF NothingLeft, Rows, Inv, Types
  <1>2. CASE \E r \in Requests : Job(r)
    <2>1. PICK r \in Requests : Job(r)
      BY <1>2
    <2>2. cpc[r] \notin NoJob
      BY <2>1 DEF Job, Mistake, CreateJob, Begin, List, Define, Find, AddVolume, AssignVolume,
           SaveRow, SetFinished, JobEnds, Rescue, CreateFault, CreateSilent, CreateCrash,
           CreateRefused, Enqueue, WebDies, Create
    <2>3. r \notin Guest
      BY <2>2 DEF NothingLeft
    <2>4. /\ newm' = newm \/ \E s \in {"finished", "error"} : Update(r, s)
          /\ meta' = meta \/ meta' = meta \union {Id(r)}
      BY <2>1 DEF Job, Mistake, CreateJob, Begin, List, Define, Find, AddVolume, AssignVolume,
           SaveRow, SetFinished, JobEnds, Rescue, CreateFault, CreateSilent, CreateCrash,
           CreateRefused, Enqueue, WebDies, SetFailed,
           rowVars
    <2>5. \E q : cpc' = [cpc EXCEPT ![r] = q]
      BY <2>1 DEF Job, Mistake, CreateJob, Begin, List, Define, Find, AddVolume, AssignVolume,
           SaveRow, SetFinished, JobEnds, Rescue, CreateFault, CreateSilent, CreateCrash,
           CreateRefused, Enqueue, WebDies, Create
    <2>6. \A g \in Guest : newm'[g] = newm[g] /\ cpc'[g] = cpc[g]
      BY <1>0, <2>3, <2>4, <2>5 DEF Update, Inv, Types
    <2>7. Rows' = {}
      BY <2>3, <2>4 DEF NothingLeft, Rows, Id
    <2> QED
      BY <2>6, <2>7 DEF NothingLeft
  <1>3. CASE ~Forms /\ ~\E r \in Requests : Job(r)
    <2>1. UNCHANGED <<newm, cpc>> /\ meta' \subseteq meta
      BY <1>3 DEF AccountsNext, Creates, Job, Mistake, GoesWrong, AsksToDelete, RequestDelete,
           Uses, Use, Start, Pause, Resume, Deletes, DeleteJob, FindRow, ForceStop,
           FindMachine, Lookup, Kill,
           Undefine, DestroyRow, DeleteEnds, DeleteFault, DeleteSilent, DeleteCrash,
           SignOut, CleanUp, Begins, NextRow, Proceed, Hook, RowDone, RollBack,
           allVars, vars, rowVars, createVars
    <2> QED
      BY <2>1 DEF NothingLeft, Rows
  <1> QED
    BY <1>1, <1>2, <1>3

LEMMA BudgetSteps ==
  ASSUME Inv, [AccountsNext]_allVars
  PROVE  UNCHANGED budget \/ \E kind \in Kinds \ {"any"} : Spend(kind)
  BY DEF AccountsNext, Forms, Validate, Save, Creates, CreateJob, Begin, List, Define, Find,
       AddVolume, AssignVolume, SaveRow, SetFinished, JobEnds, Rescue, GoesWrong, CreateFault,
       CreateSilent, CreateCrash, CreateRefused, Enqueue, WebDies, FormRefused, AsksToDelete,
       RequestDelete, Uses, Use, Start, Pause, Resume, Deletes,
       DeleteJob, FindRow, ForceStop, FindMachine, Lookup, Kill, Undefine, DestroyRow,
       DeleteEnds, DeleteFault, DeleteSilent, DeleteCrash, SignOut, CleanUp, Begins, NextRow,
       Proceed, Hook, RowDone, Commit, RollBack, allVars, vars, Kinds

LEMMA NeverBefore ==
  ASSUME Inv, [AccountsNext]_allVars, NEW kinds \in SUBSET Kinds
  PROVE  Never(kinds)' => Never(kinds)
  <1>1. CASE UNCHANGED budget
    BY <1>1 DEF Never, Bounds
  <1>2. CASE \E kind \in Kinds \ {"any"} : Spend(kind)
    BY <1>2, Spent DEF Inv
  <1> QED
    BY <1>1, <1>2, BudgetSteps

LEMMA GuestStep ==
  ASSUME Inv, GuestInv, [AccountsNext]_allVars
  PROVE  GuestInv'
  <1> SUFFICES ASSUME (account = "gone" /\ InTime)'
               PROVE  NothingLeft'
    BY DEF GuestInv
  <1>1. CASE Commit
    <2>1. /\ todo = {} /\ dpc[cleanup] = "next" /\ meta' = meta \ cleared
          /\ newm' = [r \in Requests |->
                        IF r \in Guest /\ Saved(r) THEN "destroyed" ELSE newm[r]]
          /\ UNCHANGED cpc
      BY <1>1 DEF Commit, Delete, createVars
    <2>2. ~TooEarly
      <3>1. TooEarly => Spend("early")
        BY <1>1 DEF Commit
      <3> QED
        BY <3>1, Spent DEF InTime, Kinds, Inv
    <2>3. Rows = cleared
      BY <2>1 DEF Inv, Transaction
    <2>4. \A r \in Guest : newm[r] # "valid" /\ cpc[r] \in NoJob
      BY <2>2 DEF TooEarly, UnderWay
    <2>5. \A r \in Guest : newm'[r] # "valid"
      BY <2>1, <2>4, AccountsAssumption
    <2> QED
      BY <2>1, <2>3, <2>4, <2>5 DEF NothingLeft, Rows
  <1>2. CASE ~Commit
    <2>1. account = "gone"
      BY <1>2 DEF AccountsNext, Forms, AsksToDelete, Uses, Creates, Deletes, GoesWrong,
           Reads, Writes, Others, SignOut, CleanUp, Begins, NextRow, Hook, RowDone, RollBack,
           accountVars,
           allVars
    <2>2. NothingLeft
      BY <2>1, NeverBefore DEF InTime, Kinds, GuestInv
    <2> QED
      BY <1>2, <2>1, <2>2, NothingStarts
  <1> QED
    BY <1>1, <1>2

\* A destroyed guest leaves no machine that is listed, and no domain of one that
\* was, running or not, however often the cleanup is rolled back or dies; unless
\* it was active when it was undefined.
THEOREM NothingOfGuest ==
  AccountsSpec => []GuestLeavesNothing
  <1>1. AccountsInit => GuestInv
    BY DEF AccountsInit, GuestInv
  <1>2. Inv /\ GuestInv /\ [AccountsNext]_allVars => GuestInv'
    BY GuestStep
  <1>3. GoneInv /\ GuestInv => GuestLeavesNothing
    BY DEF GoneInv, Gone, GuestInv, NothingLeft, GuestLeavesNothing, Quiet, InTime, Settled,
    Away
  <1> QED
    BY <1>1, <1>2, <1>3, InvAlways, GoneAlways, PTL DEF AccountsSpec

-----------------------------------------------------------------------------
(***************************************************************************)
(* The disk of a machine that is listed.                                   *)
(***************************************************************************)
Loud == Never({"silent", "early"})

\* The job works on the domain that this run of it has defined, ...
Defined(r) == r \in Excused \/ domain[HostOf[r]] = Id(r)

\* ... and, from the last call on, on one that has its disk.
Assigned(r) == r \in Excused \/ \E disk \in Devices(Id(r)) : disk[2] \in volumes

Steady ==
    \A r \in Requests :
        /\ cpc[r] \in {"find", "volume", "assign", "row"} => Defined(r)
        /\ cpc[r] = "assign" => found[r] \in volumes
        /\ cpc[r] = "row" => Assigned(r)

HasDisk(id) == id[1] \in Excused \/ \E disk \in Devices(id) : disk[2] \in volumes

DiskInv ==
    /\ DOMAIN found = Requests
    /\ Loud => Steady /\ \A id \in meta : HasDisk(id)

\* Nothing of this is lost while the domains nobody wants deleted stay.
LEMMA DiskFrame ==
  ASSUME Inv, DiskInv, Loud, NEW r \in Requests,
         asked \subseteq asked', rivals \subseteq rivals', volumes \subseteq volumes', disks \subseteq disks',
         cpc'[r] = cpc[r], tries'[r] = tries[r], found'[r] = found[r],
         cpc[r] \in {"find", "volume", "assign", "row"} =>
           r \in Excused \/ domain'[HostOf[r]] = domain[HostOf[r]]
  PROVE  /\ cpc'[r] \in {"find", "volume", "assign", "row"} => Defined(r)'
         /\ cpc'[r] = "assign" => found'[r] \in volumes'
         /\ cpc'[r] = "row" => Assigned(r)'
  BY DEF DiskInv, Steady, Defined, Assigned, Devices, Id

LEMMA JobDisk ==
  ASSUME Inv, DiskInv, NEW r \in Requests, Job(r), Loud, Loud'
  PROVE  Steady' /\ \A id \in meta' : HasDisk(id)'
  <1>0. UNCHANGED <<asked, rivals>> /\ volumes \subseteq volumes' /\ disks \subseteq disks'
    BY DEF Job, Mistake, CreateJob, Begin, List, Define, Find, AddVolume, AssignVolume, SaveRow,
           SetFinished, JobEnds, Rescue, CreateFault, CreateSilent, CreateCrash, CreateRefused,
           Enqueue, WebDies, deleteVars, diskVars
  <1>1. ~CreateSilent(r)
    BY Spent DEF CreateSilent, Loud, Kinds, Inv
  <1>2. HostOf \in [Requests -> Hosts] /\ None \notin Runs
    BY MachinesAssumption DEF Runs
  <1>3. \A s \in Requests : Id(s) \in Runs
    BY DEF Id, Runs, Inv, Types
  <1>4. ASSUME NEW s \in Requests \ {r}
        PROVE  cpc'[s] = cpc[s] /\ tries'[s] = tries[s] /\ found'[s] = found[s]
    <2>1. \E q : cpc' = [cpc EXCEPT ![r] = q]
      BY DEF Job, Mistake, CreateJob, Begin, List, Define, Find, AddVolume, AssignVolume,
      SaveRow,
             SetFinished, JobEnds, Rescue, CreateFault, CreateSilent, CreateCrash,
             CreateRefused, Enqueue, WebDies, Create
    <2>2. tries' = tries \/ \E n : tries' = [tries EXCEPT ![r] = n]
      BY DEF Job, Mistake, CreateJob, Begin, List, Define, Find, AddVolume, AssignVolume,
      SaveRow,
             SetFinished, JobEnds, Rescue, CreateFault, CreateSilent, CreateCrash,
             CreateRefused, Enqueue, WebDies
    <2>3. found' = found \/ \E f : found' = [found EXCEPT ![r] = f]
      BY DEF Job, Mistake, CreateJob, Begin, List, Define, Find, AddVolume, AssignVolume,
      SaveRow,
             SetFinished, JobEnds, Rescue, CreateFault, CreateSilent, CreateCrash,
             CreateRefused, Enqueue, WebDies
    <2>4. found'[s] = found[s]
      BY <2>3 DEF DiskInv
    <2> QED
      BY <2>1, <2>2, <2>4 DEF Inv, Types
  <1>5. \A s \in Requests : cpc[s] \in {"find", "volume", "assign", "row"} =>
            s \in Excused \/ domain'[HostOf[s]] = domain[HostOf[s]]
    <2>1. CASE domain' = domain
      BY <2>1
    <2>2. CASE domain' # domain
      <3>1. domain' = [domain EXCEPT ![HostOf[r]] = Id(r)] /\ ~Exists(HostOf[r])
        BY <2>2 DEF Job, Mistake, CreateJob, Begin, List, Define, Find, AddVolume, AssignVolume,
             SaveRow, SetFinished, JobEnds, Rescue, CreateFault, CreateSilent, CreateCrash,
             CreateRefused, Enqueue, WebDies, domainVars
      <3>2. SUFFICES ASSUME NEW s \in Requests, s \notin Excused,
                            cpc[s] \in {"find", "volume", "assign", "row"}
                     PROVE  domain'[HostOf[s]] = domain[HostOf[s]]
        OBVIOUS
      <3>3. Exists(HostOf[s])
        BY <1>2, <1>3, <3>2 DEF DiskInv, Steady, Defined, Exists
      <3> QED
        BY <1>2, <3>1, <3>3 DEF Inv, Types
    <2> QED
      BY <2>1, <2>2
  <1>6. ASSUME NEW s \in Requests \ {r}
        PROVE  /\ cpc'[s] \in {"find", "volume", "assign", "row"} => Defined(s)'
               /\ cpc'[s] = "assign" => found'[s] \in volumes'
               /\ cpc'[s] = "row" => Assigned(s)'
    BY <1>0, <1>4, <1>5, DiskFrame
  <1>7. /\ cpc'[r] \in {"find", "volume", "assign", "row"} => Defined(r)'
        /\ cpc'[r] = "assign" => found'[r] \in volumes'
        /\ cpc'[r] = "row" => Assigned(r)'
    <2>1. CASE Define(r)
      <3>1. CASE Exists(HostOf[r])
        BY <2>1, <3>1 DEF Define, Create, Inv, Types
      <3>2. CASE ~Exists(HostOf[r])
        <4>1. /\ cpc'[r] = "find" /\ tries' = tries
              /\ domain'[HostOf[r]] = Id(r)
          BY <1>2, <2>1, <3>2 DEF Define, Create, Inv, Types
        <4> QED
          BY <4>1 DEF Defined, Id
      <3> QED
        BY <3>1, <3>2
    <2>2. CASE Find(r)
      <3>1. /\ cpc[r] = "find" /\ cpc'[r] \in {"volume", "rescue"}
            /\ UNCHANGED <<asked, rivals, domain, tries>>
        BY <2>2 DEF Find, Create, domainVars, deleteVars, Inv, Types
      <3> QED
        BY <3>1 DEF DiskInv, Steady, Defined, Id
    <2>3. CASE AddVolume(r)
      <3>1. /\ cpc[r] = "volume" /\ cpc'[r] \in {"assign", "rescue"}
            /\ cpc'[r] = "assign" => found'[r] \in volumes'
            /\ UNCHANGED <<asked, rivals, domain, tries>>
        BY <2>3 DEF AddVolume, Create, domainVars, deleteVars, Inv, Types
      <3> QED
        BY <3>1 DEF DiskInv, Steady, Defined, Id
    <2>4. CASE AssignVolume(r)
      <3>1. /\ cpc[r] = "assign" /\ cpc'[r] = "row"
            /\ UNCHANGED <<asked, rivals, domain, tries, volumes>>
            /\ Exists(HostOf[r]) => <<domain[HostOf[r]], found[r]>> \in disks'
        BY <2>4 DEF AssignVolume, Create, domainVars, deleteVars, Inv, Types
      <3>2. Defined(r) /\ found[r] \in volumes
        BY <3>1 DEF DiskInv, Steady
      <3>3. CASE r \in Excused
        BY <3>1, <3>3 DEF Defined, Assigned
      <3>4. CASE domain[HostOf[r]] = Id(r)
        <4>1. <<Id(r), found[r]>> \in disks'
          BY <1>2, <1>3, <3>1, <3>4 DEF Exists
        <4>2. Assigned(r)'
          BY <3>1, <3>2, <4>1 DEF Assigned, Devices, Id
        <4> QED
          BY <3>1, <3>4, <4>2 DEF Defined, Id
      <3> QED
        BY <3>2, <3>3, <3>4 DEF Defined
    <2>5. CASE ~Define(r) /\ ~Find(r) /\ ~AddVolume(r) /\ ~AssignVolume(r)
      <3>1. cpc'[r] \notin {"find", "volume", "assign", "row"}
        BY <1>1, <2>5 DEF Job, Mistake, CreateJob, Begin, List, SaveRow, SetFinished, Rescue,
             JobEnds, CreateFault, CreateCrash, CreateRefused, Enqueue, WebDies, Create, Inv,
             Types
      <3> QED
        BY <3>1
    <2> QED
      BY <2>1, <2>2, <2>3, <2>4, <2>5
  <1>8. Steady'
    BY <1>6, <1>7 DEF Steady
  <1>9. ASSUME NEW id \in meta' PROVE HasDisk(id)'
    <2>1. CASE id \in meta
      BY <1>0, <2>1 DEF DiskInv, HasDisk, Devices
    <2>2. CASE id \notin meta
      <3>1. id = Id(r) /\ cpc[r] = "row"
        BY <2>2 DEF Job, Mistake, CreateJob, Begin, List, Define, Find, AddVolume, AssignVolume,
             SaveRow, SetFinished, JobEnds, Rescue, CreateFault, CreateSilent, CreateCrash,
             CreateRefused, Enqueue, WebDies, Create,
             rowVars
      <3>2. HasDisk(id)
        BY <3>1 DEF DiskInv, Steady, Assigned, HasDisk, Id
      <3> QED
        BY <1>0, <3>2 DEF HasDisk, Devices
    <2> QED
      BY <2>1, <2>2
  <1> QED
    BY <1>8, <1>9

\* A domain that disappears was asked to be deleted.
LEMMA OnlyAsked ==
  ASSUME Inv, OnTime, NEW d \in Deletions, HookStep(d), NEW r \in Requests, Saved(r),
         r \notin Excused
  PROVE  domain'[HostOf[r]] = domain[HostOf[r]]
  <1>1. PICK q \in DPCs : HookShape(d, q)
    BY HookShapes
  <1>2. /\ target[d][1] \in Requests /\ Saved(target[d][1]) /\ target[d][1] \in asked
        /\ TargetHost(d) = HostOf[target[d][1]]
    BY <1>1 DEF HookShape, Inv, Owned, TargetHasForm, AskedFor, Holding, Runs, TargetHost,
                Host
  <1>3. HostOf[r] # TargetHost(d) /\ HostOf[r] \in Hosts
    BY <1>2, MachinesAssumption DEF Inv, Owned, OneForm, Claims
  <1> QED
    BY <1>1, <1>3 DEF HookShape, Inv, Types

LEMMA OtherDisk ==
  ASSUME Inv, DiskInv, Loud, Loud', [AccountsNext]_allVars, ~\E r \in Requests : Job(r)
  PROVE  Steady' /\ \A id \in meta' : HasDisk(id)'
  <1>1. /\ asked \subseteq asked' /\ rivals \subseteq rivals'
        /\ UNCHANGED <<volumes, disks, tries, found>>
        /\ meta' \subseteq meta
        /\ \/ cpc' = cpc
           \/ \E r \in Requests : cpc' = [cpc EXCEPT ![r] = "saved"]
    BY AccountsAssumption
       DEF AccountsNext, Forms, Validate, Save, Create, FormRefused, AsksToDelete,
           RequestDelete, Uses, Use, Start, Pause, Resume, Creates, Job, Mistake, Deletes,
           DeleteJob, GoesWrong, DeleteFault, DeleteSilent,
           DeleteCrash, SignOut, vars, CleanUp, Begins, NextRow, Proceed, Hook, RowDone,
           Commit, RollBack, FindRow, ForceStop, FindMachine, Lookup, Kill, Undefine,
           DestroyRow, DeleteEnds, rowVars, diskVars, createVars, deleteVars, allVars
  <1>2. domain' = domain \/ \E d \in Deletions : HookStep(d)
    BY AccountsAssumption
       DEF AccountsNext, Forms, Validate, Save, Create, FormRefused, AsksToDelete,
           RequestDelete, Uses, Use, Start, Pause, Resume, Creates, Job, Mistake, Deletes,
           DeleteJob, GoesWrong, DeleteFault, DeleteSilent,
           DeleteCrash, SignOut, vars, CleanUp, Begins, NextRow, Proceed, Hook, RowDone,
           Commit, RollBack, FindRow, DestroyRow, DeleteEnds, domainVars, allVars, HookStep
  <1>3. OnTime
    BY DEF Loud, OnTime, Never
  <1>4. \A r \in Requests : cpc[r] \in {"find", "volume", "assign", "row"} =>
            r \in Excused \/ domain'[HostOf[r]] = domain[HostOf[r]]
    BY <1>2, <1>3, OnlyAsked DEF Inv, Owned, HasForm
  <1>5. ASSUME NEW r \in Requests
        PROVE  /\ cpc'[r] \in {"find", "volume", "assign", "row"} => Defined(r)'
               /\ cpc'[r] = "assign" => found'[r] \in volumes'
               /\ cpc'[r] = "row" => Assigned(r)'
    <2>1. CASE cpc'[r] = cpc[r]
      BY <1>1, <1>4, <2>1, DiskFrame
    <2>2. CASE cpc'[r] = "saved"
      BY <2>2
    <2> QED
      BY <1>1, <2>1, <2>2 DEF Inv, Types
  <1>6. \A id \in meta' : HasDisk(id)'
    BY <1>1 DEF DiskInv, HasDisk, Devices
  <1> QED
    BY <1>5, <1>6 DEF Steady

LEMMA DiskStep ==
  ASSUME Inv, DiskInv, [AccountsNext]_allVars
  PROVE  DiskInv'
  <1>1. (DOMAIN found)' = Requests
    <2>1. found' = found \/ \E r, f : found' = [found EXCEPT ![r] = f]
      BY DEF AccountsNext, Forms, Validate, Save, Creates, CreateJob, Begin, List, Define,
           Find, AddVolume, AssignVolume, SaveRow, SetFinished, JobEnds, Rescue, GoesWrong,
           CreateFault, CreateSilent, CreateCrash, CreateRefused, Enqueue, WebDies,
           FormRefused, AsksToDelete, RequestDelete, Uses, Use,
           Start, Pause, Resume, Deletes, DeleteJob, FindRow, ForceStop, FindMachine, Lookup,
           Kill,
           Undefine, DestroyRow, DeleteEnds, DeleteFault, DeleteSilent, DeleteCrash,
           SignOut, CleanUp, Begins, NextRow, Proceed, Hook, RowDone, Commit, RollBack,
           allVars, vars, createVars
    <2> QED
      BY <2>1 DEF DiskInv
  <1>2. ASSUME Loud' PROVE (Steady /\ \A id \in meta : HasDisk(id))'
    <2>1. Loud
      BY <1>2, NeverBefore DEF Loud, Kinds
    <2> QED
      BY <1>2, <2>1, JobDisk, OtherDisk
  <1> QED
    BY <1>1, <1>2 DEF DiskInv

\* So what is listed, and not about to be deleted, is whole: it has the domain of
\* its form and a disk with a volume behind it; unless its form has rivals.
THEOREM ListedIsWhole ==
  AccountsSpec => []RowIsWhole
  <1>1. AccountsInit => DiskInv
    BY DEF AccountsInit, Init, DiskInv, Steady
  <1>2. Inv /\ DiskInv /\ [AccountsNext]_allVars => DiskInv'
    BY DiskStep
  <1>3. DiskInv => RowHasDisk
    BY DEF DiskInv, Loud, RowHasDisk, HasDisk
  <1>4. RowHasDomain /\ RowHasDisk => RowIsWhole
    BY DEF RowIsWhole
  <1> QED
    BY <1>1, <1>2, <1>3, <1>4, InvAlways, ListedHasDomain, PTL DEF AccountsSpec

-----------------------------------------------------------------------------
(***************************************************************************)
(* Nothing is left over when nothing goes wrong.                           *)
(***************************************************************************)
CalmKinds == {"crash", "deleteCrash", "fault", "silent", "early"}

\* Machines may be started and suspended.
Calm == Never(CalmKinds)

Making(id) == id = Id(id[1]) /\ cpc[id[1]] \in {"find", "volume", "assign", "row"}

AfterRow == {"given", "rescue", "performed", "raised", "done"}

HasVolume == AfterRow \union {"assign", "row"}

USE DEF AfterRow

\* Where a volume without a listed machine comes from.
Explained(v) ==
    \/ v[1] \in meta
    \/ Making(v[1])
    \/ newm[v[1][1]] = "destroyed"
    \/ \E d \in Deletions : dpc[d] \in {"performed", "done"} /\ target[d] = v[1]

JobsNew == \A r \in Requests : newm[r] \in {"none", "valid"} => cpc[r] = "none"

RowsLast ==
    \A r \in Requests : r \in asked \/ (\E id \in meta : id[1] = r) =>
        cpc[r] \in AfterRow

\* Of a form with rivals nothing is claimed.
Rival(id) == id \in Runs /\ id[1] \in rivals

Belongs(id) == id \in meta \/ id \in spared \/ Rival(id)

DomainsListed == \A h \in Hosts : Exists(h) => Belongs(domain[h]) \/ Making(domain[h])

VolumesListed ==
    \A v \in volumes :
        \/ Rival(v[1])
        \/ v[1] \in Runs /\ cpc[v[1][1]] \in HasVolume /\ Explained(v)

\* It is this run's own domain, or a rival's.
OfOwn(r, id) == id = Id(r) \/ (r \in rivals /\ Rival(id))

OwnVolume ==
    \A r \in Requests : cpc[r] \in {"volume", "assign"} =>
        OfOwn(r, found[r][1])

Tidy == JobsNew /\ RowsLast /\ DomainsListed /\ VolumesListed /\ OwnVolume

CalmInv == Calm => Tidy

LEMMA CalmMeans ==
  ASSUME Inv, [AccountsNext]_allVars, Calm'
  PROVE  Calm /\ \A kind \in CalmKinds : ~Spend(kind)
  <1>1. CalmKinds \in SUBSET Kinds /\ \A kind \in CalmKinds : kind \in Kinds \ {"any"}
    BY DEF CalmKinds, Kinds
  <1>2. Calm
    BY <1>1, NeverBefore DEF Calm
  <1>3. ASSUME NEW kind \in CalmKinds, Spend(kind) PROVE FALSE
    BY <1>1, <1>3, Spent DEF Calm, Inv
  <1> QED
    BY <1>2, <1>3

\* Steps that create nothing.
LEMMA TidyRest ==
  ASSUME Types, Tidy,
         UNCHANGED <<cpc, tries, found, volumes>>,
         asked' \subseteq asked \union {id[1] : id \in meta},
         rivals \subseteq rivals', spared \subseteq spared',
         \A h \in Hosts : domain'[h] = domain[h] \/ domain'[h] = None,
         meta' \subseteq meta,
         \A id \in meta \ meta' :
            /\ id \in spared' \/ \A h \in Hosts : domain[h] # id
            /\ \/ newm'[id[1]] = "destroyed"
               \/ \E d \in Deletions : dpc'[d] \in {"performed", "done"} /\ target'[d] = id,
         \A r \in Requests :
            /\ newm[r] = "destroyed" => newm'[r] = "destroyed"
            /\ newm'[r] \in {"none", "valid"} => newm[r] \in {"none", "valid"},
         \A d \in Deletions : dpc[d] \in {"performed", "done"} =>
            dpc'[d] \in {"performed", "done"} /\ target'[d] = target[d]
  PROVE  Tidy'
  <1>1. JobsNew'
    BY DEF Tidy, JobsNew
  <1>2. RowsLast'
    BY DEF Tidy, RowsLast, Types, Runs
  <1>3. \A id \in Runs : Making(id)' <=> Making(id)
    BY DEF Making, Id
  <1>4. DomainsListed'
    <2>1. SUFFICES ASSUME NEW h \in Hosts, domain'[h] # None
                   PROVE  Belongs(domain[h])' \/ Making(domain[h])'
      BY DEF DomainsListed, Exists, Making, Id, Belongs, Rival
    <2>2. domain'[h] = domain[h]
      BY <2>1
    <2>3. Belongs(domain[h]) \/ Making(domain[h])
      BY <2>1, <2>2 DEF Tidy, DomainsListed, Exists
    <2> QED
      BY <2>2, <2>3 DEF Belongs, Rival, Making, Id
  <1>5. VolumesListed'
    <2>1. SUFFICES ASSUME NEW v \in volumes, ~Rival(v[1])
                   PROVE  v[1] \in Runs /\ cpc[v[1][1]] \in HasVolume /\ Explained(v)'
      BY DEF VolumesListed, Rival
    <2>2. v[1] \in Runs /\ v[1][1] \in Requests /\ cpc[v[1][1]] \in HasVolume /\ Explained(v)
      BY <2>1 DEF Tidy, VolumesListed, Runs
    <2>3. Explained(v)'
      BY <1>3, <2>2 DEF Explained
    <2> QED
      BY <2>2, <2>3
  <1>6. OwnVolume'
    BY DEF Tidy, OwnVolume, OfOwn, Id, Rival
  <1> QED
    BY <1>1, <1>2, <1>4, <1>5, <1>6 DEF Tidy

\* A create job that is not disturbed takes its machine from step to step.
LEMMA TidyMove ==
  ASSUME Types, Tidy, NEW r \in Requests, NEW q \in CPCs, cpc[r] # "none",
         cpc' = [cpc EXCEPT ![r] = q], q # "none",
         cpc[r] \in AfterRow => q \in AfterRow,
         cpc[r] \in HasVolume => q \in HasVolume,
         cpc[r] \in {"find", "volume", "assign", "row"} =>
            /\ tries' = tries
            /\ q \in {"find", "volume", "assign", "row"} \/ Id(r) \in meta' \/ r \in rivals,
         tries' = tries \/ \E n : tries' = [tries EXCEPT ![r] = n],
         found' = found \/ \E f : found' = [found EXCEPT ![r] = f], DOMAIN found = Requests,
         q \in {"volume", "assign"} =>
            OfOwn(r, found'[r][1]) /\ tries' = tries,
         \/ volumes' = volumes
         \/ /\ volumes' = volumes \union {found[r]} /\ q = "assign"
            /\ OfOwn(r, found[r][1]),
         \/ meta' = meta
         \/ meta' = meta \union {Id(r)} /\ q = "given",
         \/ domain' = domain
         \/ /\ domain' = [domain EXCEPT ![HostOf[r]] = Id(r)]
            /\ q = "find" /\ tries' = tries,
         \A s \in Requests :
            /\ newm[s] = "destroyed" => newm'[s] = "destroyed"
            /\ newm'[s] \in {"none", "valid"} => newm[s] \in {"none", "valid"},
         UNCHANGED <<asked, rivals, spared, dpc, target>>
  PROVE  Tidy'
  <1>0. /\ \A s \in Requests \ {r} : /\ cpc'[s] = cpc[s] /\ tries'[s] = tries[s]
                                     /\ found'[s] = found[s]
        /\ cpc'[r] = q /\ Id(r) \in Runs /\ HostOf \in [Requests -> Hosts] /\ None \notin Runs
    BY MachinesAssumption DEF Types, Id, Runs
  <1>1. JobsNew'
    BY <1>0 DEF Tidy, JobsNew
  <1>2. RowsLast'
    BY <1>0 DEF Tidy, RowsLast, Id
  <1>3. ASSUME NEW id \in Runs, Making(id)
        PROVE  Making(id)' \/ id \in meta' \/ Rival(id)
    <2>1. CASE id[1] = r
      BY <1>0, <1>3, <2>1 DEF Making, Id, Rival
    <2>2. CASE id[1] # r
      BY <1>0, <1>3, <2>2 DEF Making, Id, Runs
    <2> QED
      BY <2>1, <2>2
  <1>4. DomainsListed'
    <2>1. SUFFICES ASSUME NEW h \in Hosts, domain'[h] # None
                   PROVE  \/ Belongs(domain[h])'
                          \/ Making(domain[h])'
                          \/ domain'[h] = Id(r) /\ q = "find" /\ tries' = tries
      BY <1>0 DEF DomainsListed, Exists, Making, Id, Belongs, Rival
    <2>2. CASE domain'[h] = domain[h]
      BY <1>3, <2>1, <2>2 DEF Tidy, DomainsListed, Exists, Types, Belongs, Rival
    <2>3. CASE domain'[h] # domain[h]
      BY <1>0, <2>3 DEF Types
    <2> QED
      BY <2>2, <2>3
  <1>5. VolumesListed'
    <2>1. SUFFICES ASSUME NEW v \in volumes', ~Rival(v[1])
                   PROVE  v[1] \in Runs /\ cpc'[v[1][1]] \in HasVolume /\ Explained(v)'
      BY DEF VolumesListed, Rival
    <2>2. CASE v \in volumes
      <3>1. v[1] \in Runs /\ v[1][1] \in Requests /\ cpc[v[1][1]] \in HasVolume /\ Explained(v)
        BY <2>1, <2>2 DEF Tidy, VolumesListed, Runs
      <3>2. cpc'[v[1][1]] \in HasVolume
        BY <1>0, <3>1
      <3>3. Explained(v)'
        BY <1>3, <2>1, <3>1 DEF Explained, Rival
      <3> QED
        BY <3>1, <3>2, <3>3
    <2>3. CASE v = found[r] /\ q = "assign" /\ OfOwn(r, found[r][1])
      <3>1. v[1] = Id(r) /\ Id(r)[1] = r /\ tries' = tries
        BY <2>1, <2>3 DEF Id, OfOwn
      <3>2. Making(v[1])'
        BY <1>0, <2>3, <3>1 DEF Making, Id
      <3> QED
        BY <1>0, <2>3, <3>1, <3>2 DEF Explained, HasVolume
    <2> QED
      BY <2>1, <2>2, <2>3
  <1>6. OwnVolume'
    BY <1>0 DEF Tidy, OwnVolume, OfOwn, Id, Rival
  <1> QED
    BY <1>1, <1>2, <1>4, <1>5, <1>6 DEF Tidy

\* A domain is found under its own hostname only.
LEMMA AwayEverywhere ==
  ASSUME Inv, Owned, NEW id \in meta, Away(id), NEW h \in Hosts
  PROVE  domain[h] # id
  BY MachinesAssumption DEF Inv, Owned, DomainHasForm, Exists, Away, Host, Types, Runs

LEMMA TidyJob ==
  ASSUME Inv, DiskInv, Tidy, Calm, Owned, Loud, NEW r \in Requests, Job(r),
         \A kind \in CalmKinds : ~Spend(kind)
  PROVE  Tidy'
  <1>0. /\ CreateJob(r) \/ Enqueue(r)
        /\ UNCHANGED <<asked, rivals, spared, dpc, target>> /\ DOMAIN found = Requests
    BY DEF Job, Mistake, CreateJob, Begin, List, Define, Find, AddVolume, AssignVolume,
           SaveRow, SetFinished, Rescue, JobEnds, CreateFault, CreateSilent, CreateCrash,
           CreateRefused, Enqueue, WebDies, CalmKinds, deleteVars, DiskInv
  <1>1. \A s \in Requests :
            /\ newm[s] = "destroyed" => newm'[s] = "destroyed"
            /\ newm'[s] \in {"none", "valid"} => newm[s] \in {"none", "valid"}
    <2>1. newm' = newm \/ \E s \in {"finished", "error"} : Update(r, s)
      BY <1>0 DEF CreateJob, Begin, List, Define, Find, AddVolume, AssignVolume,
           SaveRow, SetFinished, Rescue, JobEnds, Enqueue, SetFailed, rowVars
    <2> QED
      BY <2>1 DEF Update, Inv, Types
  <1>2. Id(r) # None
    BY MachinesAssumption DEF Id, Inv, Types
  <1>3. CASE Begin(r)
    <2>1. PICK q \in {"raised", "list"} :
            /\ cpc[r] = "queued" /\ cpc' = [cpc EXCEPT ![r] = q]
            /\ \E n : tries' = [tries EXCEPT ![r] = n]
            /\ \E f : found' = [found EXCEPT ![r] = f]
            /\ UNCHANGED <<volumes, meta, domain>>
      BY <1>3 DEF Begin, Create, rowVars, domainVars, diskVars
    <2>2. q \in CPCs /\ cpc[r] \notin HasVolume
      BY <2>1 DEF CPCs, HasVolume
    <2> QED
      BY <1>0, <1>1, <2>1, <2>2, TidyMove DEF Inv
  <1>4. CASE List(r)
    <2>1. PICK q \in {"rescue", "define"} :
            /\ cpc[r] = "list" /\ cpc' = [cpc EXCEPT ![r] = q]
            /\ UNCHANGED <<tries, found, volumes, meta, domain>>
      BY <1>4 DEF List, Create, domainVars, diskVars, rowVars
    <2>2. q \in CPCs /\ cpc[r] \notin HasVolume
      BY <2>1 DEF CPCs, HasVolume
    <2> QED
      BY <1>0, <1>1, <2>1, <2>2, TidyMove DEF Inv
  <1>5. CASE Define(r)
    <2>1. PICK q \in {"rescue", "find"} :
            /\ cpc[r] = "define" /\ cpc' = [cpc EXCEPT ![r] = q]
            /\ \/ domain' = domain
               \/ domain' = [domain EXCEPT ![HostOf[r]] = Id(r)] /\ q = "find"
            /\ UNCHANGED <<tries, found, volumes, meta>>
      BY <1>5 DEF Define, Create, diskVars, rowVars
    <2>2. q \in CPCs /\ cpc[r] \notin HasVolume
      BY <2>1 DEF CPCs, HasVolume
    <2> QED
      BY <1>0, <1>1, <2>1, <2>2, TidyMove DEF Inv
  <1>6. CASE Find(r)
    <2>1. cpc[r] = "find" /\ Saved(r) /\ (r \in rivals \/ domain[HostOf[r]] = Id(r))
      BY <1>6 DEF Find, Create, DiskInv, Steady, Tidy, RowsLast, Defined, Owned, HasForm
    <2>2. "volume" \in CPCs /\ "rescue" \in CPCs /\ cpc[r] \notin HasVolume
      BY <2>1 DEF CPCs, HasVolume
    <2>3. CASE Exists(HostOf[r])
      <3>1. /\ cpc' = [cpc EXCEPT ![r] = "volume"]
            /\ \E f : found' = [found EXCEPT ![r] = f]
            /\ found'[r][1] = domain[HostOf[r]]
            /\ UNCHANGED <<tries, volumes, meta, domain>>
        BY <1>0, <1>6, <2>3 DEF Find, Create, domainVars, diskVars, rowVars
      <3>2. OfOwn(r, domain[HostOf[r]])
        <4>1. HostOf[r] \in Hosts
          BY MachinesAssumption
        <4>2. /\ domain[HostOf[r]] \in Runs /\ domain[HostOf[r]][1] \in Requests
              /\ Saved(domain[HostOf[r]][1])
              /\ HostOf[domain[HostOf[r]][1]] = HostOf[r]
          BY <2>3, <4>1 DEF Owned, DomainHasForm, Runs
        <4>3. r \in rivals => domain[HostOf[r]][1] \in rivals
          BY <2>1, <4>2 DEF Owned, OneForm, Claims
        <4> QED
          BY <2>1, <4>2, <4>3 DEF OfOwn, Rival
      <3> QED
        BY <1>0, <1>1, <2>1, <2>2, <3>1, <3>2, TidyMove DEF Inv
    <2>4. CASE ~Exists(HostOf[r])
      <3>1. r \in rivals
        BY <1>2, <2>1, <2>4 DEF Exists
      <3>2. /\ cpc' = [cpc EXCEPT ![r] = "rescue"]
            /\ UNCHANGED <<tries, found, volumes, meta, domain>>
        BY <1>6, <2>4 DEF Find, Create, domainVars, diskVars, rowVars
      <3> QED
        BY <1>0, <1>1, <2>1, <2>2, <3>1, <3>2, TidyMove DEF Inv
    <2> QED
      BY <2>3, <2>4
  <1>7. CASE AddVolume(r)
    <2>1. cpc[r] = "volume" /\ OfOwn(r, found[r][1])
      BY <1>7 DEF AddVolume, Create, Tidy, OwnVolume
    <2>2. "assign" \in CPCs /\ "rescue" \in CPCs /\ cpc[r] \notin HasVolume
      BY <2>1 DEF CPCs, HasVolume
    <2>3. CASE found[r] \notin volumes
      <3>1. /\ cpc' = [cpc EXCEPT ![r] = "assign"]
            /\ volumes' = volumes \union {found[r]}
            /\ UNCHANGED <<tries, found, meta, domain>>
        BY <1>7, <2>3 DEF AddVolume, Create, domainVars, rowVars
      <3> QED
        BY <1>0, <1>1, <2>1, <2>2, <3>1, TidyMove DEF Inv
    <2>4. CASE found[r] \in volumes
      <3>1. r \in rivals
        <4>1. Id(r)[1] = r
          BY DEF Id
        <4> QED
          BY <2>1, <2>2, <2>4, <4>1 DEF OfOwn, Rival, Tidy, VolumesListed
      <3>2. /\ cpc' = [cpc EXCEPT ![r] = "rescue"]
            /\ UNCHANGED <<tries, found, volumes, meta, domain>>
        BY <1>7, <2>4 DEF AddVolume, Create, domainVars, diskVars, rowVars
      <3> QED
        BY <1>0, <1>1, <2>1, <2>2, <3>1, <3>2, TidyMove DEF Inv
    <2> QED
      BY <2>3, <2>4
  <1>8. CASE AssignVolume(r)
    <2>1. /\ cpc[r] = "assign" /\ cpc' = [cpc EXCEPT ![r] = "row"]
          /\ UNCHANGED <<tries, found, volumes, meta, domain>>
      BY <1>8 DEF AssignVolume, Create, rowVars, domainVars
    <2>2. "row" \in CPCs /\ "row" \in HasVolume
      BY DEF CPCs, HasVolume
    <2> QED
      BY <1>0, <1>1, <2>1, <2>2, TidyMove DEF Inv
  <1>11. CASE Enqueue(r)
    <2>1. /\ cpc[r] = "saved" /\ cpc' = [cpc EXCEPT ![r] = "queued"]
          /\ UNCHANGED <<tries, found, volumes, meta, domain>>
      BY <1>11 DEF Enqueue, Create, rowVars, domainVars, diskVars
    <2>2. "queued" \in CPCs /\ cpc[r] \notin HasVolume
      BY <2>1 DEF CPCs, HasVolume
    <2> QED
      BY <1>0, <1>1, <2>1, <2>2, TidyMove DEF Inv
  <1>9. CASE SaveRow(r)
    <2>1. cpc[r] = "row"
      BY <1>9 DEF SaveRow, Create
    <2>2. {"given", "rescue"} \subseteq CPCs /\ {"given", "rescue"} \subseteq HasVolume
      BY DEF CPCs, HasVolume
    <2>3. CASE HasRow(HostOf[r])
      <3>1. PICK id \in meta : Host(id) = HostOf[r]
        BY <2>3 DEF HasRow
      <3>2. id[1] \in Requests /\ Saved(id[1]) /\ HostOf[id[1]] = HostOf[r]
        BY <3>1 DEF Owned, RowHasForm, Host, Inv, Types, Runs
      <3>3. Saved(r)
        BY <2>1 DEF Owned, HasForm
      <3>4. id[1] # r
        BY <2>1, <3>1 DEF Tidy, RowsLast
      <3>5. r \in rivals
        BY <3>2, <3>3, <3>4 DEF Owned, OneForm, Claims
      <3>6. /\ cpc' = [cpc EXCEPT ![r] = "rescue"]
            /\ UNCHANGED <<tries, found, volumes, meta, domain>>
        BY <1>9, <2>3 DEF SaveRow, Create, domainVars, diskVars
      <3> QED
        BY <1>0, <1>1, <2>1, <2>2, <3>5, <3>6, TidyMove DEF Inv
    <2>4. CASE ~HasRow(HostOf[r])
      <3>1. /\ cpc' = [cpc EXCEPT ![r] = "given"] /\ meta' = meta \union {Id(r)}
            /\ UNCHANGED <<tries, found, volumes, domain>>
        BY <1>9, <2>4 DEF SaveRow, Create, domainVars, diskVars
      <3> QED
        BY <1>0, <1>1, <2>1, <2>2, <3>1, TidyMove DEF Inv
    <2> QED
      BY <2>3, <2>4
  <1>10. CASE SetFinished(r) \/ Rescue(r) \/ JobEnds(r)
    <2>1. PICK q \in {"performed", "rescue", "raised", "done"} :
            /\ cpc[r] \in AfterRow /\ cpc' = [cpc EXCEPT ![r] = q]
            /\ UNCHANGED <<tries, found, volumes, meta, domain>>
      BY <1>10 DEF SetFinished, Rescue, JobEnds, Create, rowVars, domainVars, diskVars
    <2>2. q \in CPCs /\ q \in HasVolume
      BY <2>1 DEF CPCs, HasVolume
    <2> QED
      BY <1>0, <1>1, <2>1, <2>2, TidyMove DEF Inv
  <1> QED
    BY <1>0, <1>3, <1>4, <1>5, <1>6, <1>7, <1>8, <1>9, <1>10, <1>11 DEF CreateJob

\* The places and targets of deletions that are through are final.
Through(d) == dpc[d] \in {"performed", "done"}

Final == \A d \in Deletions : Through(d) => Through(d)' /\ target'[d] = target[d]

Asks == asked' \subseteq asked \union {id[1] : id \in meta}

LEMMA FinalUnless ==
  ASSUME Types, NEW d \in Deletions, ~Through(d),
         \E q : dpc' = [dpc EXCEPT ![d] = q],
         target' = target \/ \E id : target' = [target EXCEPT ![d] = id]
  PROVE  Final
  BY DEF Final, Through, Types

LEMMA TidyDelete ==
  ASSUME Inv, GoneInv, Tidy, Quiet, Owned, NEW d \in Deletions,
         RequestDelete(d) \/ DeleteJob(d)
  PROVE  Tidy'
  <1>1. UNCHANGED <<cpc, tries, found, volumes, newm>>
    BY DEF RequestDelete, DeleteJob, FindRow, ForceStop, FindMachine, Lookup, Kill, Undefine,
           DestroyRow, DeleteEnds, createVars, diskVars, rowVars
  <1>6. rivals \subseteq rivals' /\ spared \subseteq spared'
    BY DEF RequestDelete, DeleteJob, FindRow, ForceStop, FindMachine, Lookup, Kill, Undefine,
           DestroyRow, DeleteEnds
  <1>2. Asks /\ meta' \subseteq meta
    BY DEF RequestDelete, DeleteJob, FindRow, ForceStop, FindMachine, Lookup, Kill, Undefine,
           DestroyRow, DeleteEnds, rowVars, Asks
  <1>3. Final
    <2>1. CASE DeleteEnds(d)
      BY <2>1 DEF DeleteEnds, Delete, Final, Through, Inv, Types
    <2>2. CASE ~DeleteEnds(d)
      <3>1. ~Through(d) /\ \E q : dpc' = [dpc EXCEPT ![d] = q]
        BY <2>2 DEF RequestDelete, DeleteJob, FindRow, ForceStop, FindMachine, Lookup, Kill,
             Undefine, DestroyRow, Delete, Retry, Through
      <3>2. target' = target \/ \E id : target' = [target EXCEPT ![d] = id]
        BY <2>2 DEF RequestDelete, DeleteJob, FindRow, ForceStop, FindMachine, Lookup, Kill,
             Undefine, DestroyRow
      <3> QED
        BY <3>1, <3>2, FinalUnless DEF Inv
    <2> QED
      BY <2>1, <2>2
  <1>4. \A h \in Hosts : domain'[h] = domain[h] \/ domain'[h] = None
    <2>1. CASE HookStep(d)
      BY <2>1, HookShapes DEF HookShape, Inv, Types
    <2>2. CASE ~HookStep(d)
      BY <2>2 DEF RequestDelete, DeleteJob, FindRow, DestroyRow, DeleteEnds, HookStep,
                  domainVars
    <2> QED
      BY <2>1, <2>2
  <1>5. \A id \in meta \ meta' :
            /\ id \in spared' \/ \A h \in Hosts : domain[h] # id
            /\ \E e \in Deletions : dpc'[e] \in {"performed", "done"} /\ target'[e] = id
    <2>1. SUFFICES ASSUME NEW id \in meta \ meta'
                   PROVE  /\ id \in spared' \/ \A h \in Hosts : domain[h] # id
                          /\ dpc'[d] \in {"performed", "done"} /\ target'[d] = id
      OBVIOUS
    <2>2. DestroyRow(d)
      BY <2>1 DEF RequestDelete, DeleteJob, FindRow, ForceStop, FindMachine, Lookup, Kill,
                  Undefine, DeleteEnds, rowVars
    <2>3. id = target[d] /\ target' = target /\ dpc[d] = "row" /\ dpc'[d] = "performed"
      BY <2>1, <2>2 DEF DestroyRow, Delete, Inv, Types
    <2>4. Settled(id)
      BY <2>3 DEF GoneInv, Gone
    <2> QED
      BY <1>6, <2>3, <2>4, AwayEverywhere DEF Settled
  <1> QED
    BY <1>1, <1>2, <1>3, <1>4, <1>5, <1>6, TidyRest DEF Inv, Asks, Final, Through

LEMMA TidyCleanUp ==
  ASSUME Inv, GoneInv, Tidy, Quiet, Owned, CleanUp
  PROVE  Tidy'
  <1>0. cleanup \in Deletions /\ ~Through(cleanup)
    BY AccountsAssumption DEF GoneInv, CleanupPlaces, Through
  <1>1. /\ UNCHANGED <<cpc, tries, found, volumes>> /\ meta' \subseteq meta
        /\ rivals \subseteq rivals' /\ spared \subseteq spared'
    BY DEF CleanUp, Begins, NextRow, Proceed, Hook, RowDone, Commit, RollBack, ForceStop,
           FindMachine, Lookup, Kill, Undefine, createVars, diskVars, rowVars
  <1>2. Asks
    <2>1. CASE NextRow
      <3>1. InTransaction
        BY <2>1 DEF NextRow, Proceed, Delete, InTransaction
      <3> QED
        BY <2>1, <3>1 DEF NextRow, Asks, Inv, Transaction, Rows, InTransaction
    <2>2. CASE ~NextRow
      BY <2>2 DEF CleanUp, Begins, Hook, RowDone, Commit, RollBack, ForceStop, FindMachine,
                  Lookup, Kill, Undefine, Asks
    <2> QED
      BY <2>1, <2>2
  <1>3. Final
    <2>1. \E q : dpc' = [dpc EXCEPT ![cleanup] = q]
      BY DEF CleanUp, Begins, NextRow, Proceed, Hook, RowDone, Commit, RollBack, ForceStop,
             FindMachine, Lookup, Kill, Undefine, Delete, Retry
    <2>2. target' = target \/ \E id : target' = [target EXCEPT ![cleanup] = id]
      BY DEF CleanUp, Begins, NextRow, Hook, RowDone, Commit, RollBack, ForceStop,
             FindMachine, Lookup, Kill, Undefine
    <2> QED
      BY <1>0, <2>1, <2>2, FinalUnless DEF Inv
  <1>4. \A h \in Hosts : domain'[h] = domain[h] \/ domain'[h] = None
    <2>1. CASE Hook
      BY <1>0, <2>1, HookShapes DEF Hook, HookStep, HookShape, Inv, Types
    <2>2. CASE ~Hook
      BY <2>2 DEF CleanUp, Begins, NextRow, Proceed, RowDone, Commit, RollBack, domainVars
    <2> QED
      BY <2>1, <2>2
  <1>5. CASE Commit
    <2>1. /\ todo = {} /\ dpc[cleanup] = "next" /\ meta' = meta \ cleared
          /\ newm' = [r \in Requests |->
                        IF r \in Guest /\ Saved(r) THEN "destroyed" ELSE newm[r]]
      BY <1>5 DEF Commit, Delete
    <2>2. cleared = Rows
      BY <2>1 DEF Inv, Transaction
    <2>3. \A id \in meta \ meta' :
            /\ id \in spared' \/ \A h \in Hosts : domain[h] # id
            /\ newm'[id[1]] = "destroyed"
      <3>1. SUFFICES ASSUME NEW id \in meta, id \in cleared
                     PROVE  /\ id \in spared' \/ \A h \in Hosts : domain[h] # id
                            /\ newm'[id[1]] = "destroyed"
        BY <2>1
      <3>2. Settled(id)
        BY <3>1 DEF GoneInv, Gone
      <3>3. id[1] \in Guest /\ id[1] \in Requests /\ Saved(id[1])
        BY <2>2, <3>1 DEF Rows, Owned, RowHasForm, Inv, Types, Runs
      <3> QED
        BY <1>1, <2>1, <3>2, <3>3, AwayEverywhere DEF Settled
    <2>4. \A r \in Requests :
            /\ newm[r] = "destroyed" => newm'[r] = "destroyed"
            /\ newm'[r] \in {"none", "valid"} => newm[r] \in {"none", "valid"}
      BY <2>1
    <2> QED
      BY <1>1, <1>2, <1>3, <1>4, <2>3, <2>4, TidyRest DEF Inv, Asks, Final, Through
  <1>6. CASE ~Commit
    <2>1. UNCHANGED <<newm, meta>>
      BY <1>6 DEF CleanUp, Begins, NextRow, Proceed, Hook, RowDone, RollBack, ForceStop,
           FindMachine, Lookup, Kill, Undefine, rowVars
    <2> QED
      BY <1>1, <1>2, <1>3, <1>4, <2>1, TidyRest DEF Inv, Asks, Final, Through
  <1> QED
    BY <1>5, <1>6

LEMMA TidyForm ==
  ASSUME Inv, Tidy, Forms, ~\E r \in Requests : Job(r)
  PROVE  Tidy'
  <1>1. PICK r \in Requests : Validate(r) \/ Save(r) \/ FormRefused(r)
    BY DEF Forms, Job
  <1>2. CASE Validate(r) \/ FormRefused(r)
    <2>1. /\ newm[r] \in {"none", "valid"}
          /\ \E s \in {"none", "valid"} : newm' = [newm EXCEPT ![r] = s]
          /\ UNCHANGED <<meta, domain, volumes, cpc, tries, found, dpc, target, asked, rivals,
                         spared>>
      BY <1>2 DEF Validate, FormRefused, domainVars, diskVars, createVars, deleteVars
    <2>2. \A s \in Requests :
            /\ newm[s] = "destroyed" => newm'[s] = "destroyed"
            /\ newm'[s] \in {"none", "valid"} => newm[s] \in {"none", "valid"}
      BY <2>1 DEF Inv, Types
    <2> QED
      BY <2>1, <2>2, TidyRest DEF Inv
  <1>3. CASE Save(r)
    <2>1. /\ newm[r] = "valid" /\ newm' = [newm EXCEPT ![r] = "pending"]
          /\ cpc' = [cpc EXCEPT ![r] = "saved"]
          /\ UNCHANGED <<meta, domain, volumes, tries, found, dpc, target, asked, spared>>
          /\ rivals \subseteq rivals'
      BY <1>3 DEF Save, Create, domainVars, diskVars, deleteVars
    <2>2. cpc[r] = "none" /\ \A s \in Requests \ {r} : cpc'[s] = cpc[s] /\ newm'[s] = newm[s]
      BY <2>1 DEF Tidy, JobsNew, Inv, Types
    <2>3. cpc'[r] = "saved" /\ newm'[r] = "pending" /\ newm[r] # "destroyed"
      BY <2>1 DEF Inv, Types
    <2>4. JobsNew' /\ RowsLast' /\ OwnVolume'
      BY <2>1, <2>2, <2>3 DEF Tidy, JobsNew, RowsLast, OwnVolume, OfOwn, Rival, Id
    <2>5. \A id \in Runs : Making(id) => Making(id)'
      BY <2>1, <2>2 DEF Making, Id, Runs
    <2>6. DomainsListed'
      <3>1. SUFFICES ASSUME NEW h \in Hosts, domain[h] # None
                     PROVE  Belongs(domain[h])' \/ Making(domain[h])'
        BY <2>1 DEF DomainsListed, Exists, Making, Id, Belongs, Rival
      <3>2. domain[h] \in Runs /\ (Belongs(domain[h]) \/ Making(domain[h]))
        BY <3>1 DEF Tidy, DomainsListed, Exists, Inv, Types
      <3>3. Making(domain[h]) => Making(domain[h])'
        BY <2>1, <2>2, <3>2 DEF Making, Id, Runs
      <3> QED
        BY <2>1, <3>2, <3>3 DEF Belongs, Rival
    <2>7. VolumesListed'
      <3>1. SUFFICES ASSUME NEW v \in volumes, ~Rival(v[1])
                     PROVE  v[1] \in Runs /\ cpc'[v[1][1]] \in HasVolume /\ Explained(v)'
        BY <2>1 DEF VolumesListed, Rival
      <3>2. v[1] \in Runs /\ v[1][1] \in Requests /\ cpc[v[1][1]] \in HasVolume /\ Explained(v)
        BY <3>1 DEF Tidy, VolumesListed, Runs
      <3>3. v[1][1] # r
        BY <2>2, <3>2 DEF HasVolume
      <3>4. newm'[v[1][1]] = newm[v[1][1]] /\ (Making(v[1]) => Making(v[1])')
        BY <2>1, <2>2, <2>5, <3>2, <3>3 DEF Making, Id
      <3>5. Explained(v)'
        BY <2>1, <3>2, <3>4 DEF Explained
      <3> QED
        BY <2>2, <3>2, <3>3, <3>5
    <2> QED
      BY <2>4, <2>6, <2>7 DEF Tidy
  <1> QED
    BY <1>1, <1>2, <1>3

LEMMA CalmStep ==
  ASSUME Inv, GoneInv, DiskInv, CalmInv, [AccountsNext]_allVars
  PROVE  CalmInv'
  <1> SUFFICES ASSUME Calm'
               PROVE  Tidy'
    BY DEF CalmInv
  <1>1. Calm /\ \A kind \in CalmKinds : ~Spend(kind)
    BY CalmMeans
  <1>2. Tidy /\ Quiet /\ OnTime /\ Owned /\ Loud
    BY <1>1 DEF CalmInv, Calm, CalmKinds, Never, Quiet, OnTime, Loud, Inv
  <1>3. CASE \E r \in Requests : Job(r)
    BY <1>1, <1>2, <1>3, TidyJob
  <1>4. CASE Forms
    BY <1>2, <1>3, <1>4, TidyForm
  <1>5. CASE AsksToDelete \/ \E d \in Deletions \ {cleanup} : Deletes(d)
    BY <1>2, <1>5, TidyDelete DEF AsksToDelete, Deletes
  <1>6. CASE CleanUp
    BY <1>2, <1>6, TidyCleanUp
  <1>7. CASE SignOut \/ Uses \/ UNCHANGED allVars
    <2>1. /\ UNCHANGED <<newm, meta, domain, volumes, cpc, tries, found, dpc, target, asked,
                         rivals>>
          /\ spared \subseteq spared'
      BY <1>7 DEF SignOut, Uses, Use, Start, Pause, Resume, allVars, vars, rowVars,
                  domainVars, diskVars, createVars, deleteVars
    <2> QED
      BY <1>2, <2>1, TidyRest DEF Inv
  <1>8. GoesWrong => \E r \in Requests : Job(r)
    BY <1>1 DEF GoesWrong, DeleteFault, DeleteSilent, DeleteCrash, Job, Mistake, CalmKinds
  <1> QED
    BY <1>3, <1>4, <1>5, <1>6, <1>7, <1>8 DEF AccountsNext, Creates, Job

\* When nothing fails or dies and all jobs are through, every domain, of a
\* machine that ran or not, belongs to a machine that is listed; a volume may
\* belong to one that was deleted.  Excepted are forms with rivals and what was
\* active when it was undefined.
THEOREM NothingOrphaned == AccountsSpec => []NoOrphan
  <1>1. AccountsInit => CalmInv
    BY DEF AccountsInit, Init, CalmInv, Tidy, JobsNew, RowsLast, DomainsListed,
           VolumesListed, OwnVolume, Exists
  <1>2. Inv /\ GoneInv /\ DiskInv /\ CalmInv /\ [AccountsNext]_allVars => CalmInv'
    BY CalmStep
  <1>3. Inv /\ GoneInv /\ CalmInv => NoOrphan
    <2>1. SUFFICES ASSUME Inv, GoneInv, CalmInv, Calm,
                          \A r \in Requests : cpc[r] \in NoJob,
                          \A d \in Deletions : dpc[d] \in {"none", "done", "failed"}
                   PROVE  /\ \A h \in Hosts : Exists(h) =>
                               domain[h] \in meta \union spared \/ domain[h][1] \in rivals
                          /\ \A v \in volumes :
                               \/ v[1] \in meta
                               \/ newm[v[1][1]] = "destroyed" \/ v[1][1] \in rivals
                               \/ \E d \in Deletions : dpc[d] = "done" /\ target[d] = v[1]
      BY DEF NoOrphan, Calm, CalmKinds
    <2>2. Tidy
      BY <2>1 DEF CalmInv
    <2>3. \A id \in Runs : ~Making(id)
      BY <2>1 DEF Making, Runs
    <2>4. \A h \in Hosts : Exists(h) =>
            domain[h] \in meta \union spared \/ domain[h][1] \in rivals
      BY <2>1, <2>2, <2>3 DEF Tidy, DomainsListed, Belongs, Rival, Exists, Inv, Types
    <2>5. ASSUME NEW v \in volumes
          PROVE  \/ v[1] \in meta
                 \/ newm[v[1][1]] = "destroyed" \/ v[1][1] \in rivals
                 \/ \E d \in Deletions : dpc[d] = "done" /\ target[d] = v[1]
      BY <2>1, <2>2, <2>3, <2>5 DEF Tidy, VolumesListed, Rival, Explained
    <2> QED
      BY <2>4, <2>5
  <1>4. AccountsSpec => []DiskInv
    <2>1. AccountsInit => DiskInv
      BY DEF AccountsInit, Init, DiskInv, Steady
    <2>2. Inv /\ DiskInv /\ [AccountsNext]_allVars => DiskInv'
      BY DiskStep
    <2> QED
      BY <2>1, <2>2, InvAlways, PTL DEF AccountsSpec
  <1> QED
    BY <1>1, <1>2, <1>3, <1>4, InvAlways, GoneAlways, PTL DEF AccountsSpec

-----------------------------------------------------------------------------
(***************************************************************************)
(* Machines alone: what is reported as failed has made no machine.  A job  *)
(* whose worker does not die runs once, and nothing fails loudly any more  *)
(* when the row is saved.                                                  *)
(***************************************************************************)
Once == Never({"crash"})

BeforeRow == {"none", "saved", "lost", "queued", "list", "define", "find", "volume", "assign", "row"}

HasMeta(r) == \E id \in meta : id[1] = r

FailTypes ==
    /\ BudgetOk
    /\ newm \in [Requests -> {"none", "valid", "pending", "finished", "error", "destroyed"}]
    /\ cpc \in [Requests -> CPCs]

FailedFirst ==
    \A r \in Requests :
        /\ newm[r] \in {"none", "valid"} => cpc[r] = "none"
        /\ cpc[r] \in BeforeRow => ~HasMeta(r) /\ newm[r] # "error"
        /\ newm[r] = "error" => ~HasMeta(r)
        /\ cpc[r] = "rescue" => ~HasMeta(r) \/ ~OnlyOne(r)

FailInv == FailTypes /\ (Once => FailedFirst)

\* The steps of a create job where no transaction is in its way.
Alone(r) ==
    \/ Enqueue(r) \/ WebDies(r) \/ CreateJob(r)
    \/ CreateFault(r) \/ CreateSilent(r) \/ CreateCrash(r)

LEMMA FailStep ==
  ASSUME FailInv, [Next]_vars
  PROVE  FailInv'
  <1>0. CASE UNCHANGED vars
    BY <1>0 DEF vars, rowVars, createVars, FailInv, FailTypes, FailedFirst, HasMeta, OnlyOne, Saved,
                Once, Never, Bounds, BudgetOk
  <1> SUFFICES ASSUME Next
               PROVE  FailInv'
    BY <1>0
  <1>1. BudgetOk' /\ (Once' => Once /\ ~Spend("crash"))
    <2>1. CASE UNCHANGED budget
      BY <2>1 DEF FailInv, FailTypes, BudgetOk, Once, Never, Bounds, Spend, Kinds
    <2>2. CASE \E kind \in Kinds \ {"any"} : Spend(kind)
      BY <2>2, Spent DEF FailInv, FailTypes, Once, Kinds
    <2> QED
      BY <2>1, <2>2 DEF Next, Validate, Save, Enqueue, WebDies, CreateJob, Begin, List,
           Define, Find, AddVolume, AssignVolume, SaveRow, SetFinished, Rescue, JobEnds,
           CreateFault, CreateSilent, CreateCrash, RequestDelete, DeleteJob, FindRow,
           ForceStop, FindMachine, Lookup, Kill, Undefine, DestroyRow, DeleteEnds,
           DeleteFault, DeleteSilent, DeleteCrash, Use, Start, Pause, Resume, Kinds
  <1>2. CASE \E r \in Requests : Validate(r) \/ Save(r)
    <2>1. PICK r \in Requests : Validate(r) \/ Save(r)
      BY <1>2
    <2>2. \/ /\ newm[r] = "none" /\ newm' = [newm EXCEPT ![r] = "valid"]
             /\ UNCHANGED <<cpc, meta>>
          \/ /\ newm[r] = "valid" /\ newm' = [newm EXCEPT ![r] = "pending"]
             /\ cpc' = [cpc EXCEPT ![r] = "saved"] /\ UNCHANGED meta
      BY <2>1 DEF Validate, Save, Create, createVars
    <2>3. FailTypes'
      BY <1>1, <2>2 DEF FailInv, FailTypes, CPCs
    <2>4. \A s \in Requests : ~OnlyOne(s) => ~OnlyOne(s)'
      BY <2>2 DEF FailInv, FailTypes, OnlyOne, Saved
    <2>5. FailedFirst => FailedFirst'
      BY <2>2, <2>4 DEF FailInv, FailTypes, FailedFirst, HasMeta, BeforeRow
    <2> QED
      BY <1>1, <2>3, <2>5 DEF FailInv
  <1>3. CASE \E r \in Requests : Alone(r)
    <2>1. PICK r \in Requests : Alone(r)
      BY <1>3
    <2>2. /\ \E q \in CPCs : cpc' = [cpc EXCEPT ![r] = q]
          /\ newm' = newm \/ \E s \in {"finished", "error"} : Update(r, s)
      <3>1. newm' = newm \/ \E s \in {"finished", "error"} : Update(r, s)
        BY <2>1 DEF Alone, CreateJob, Begin, List, Define, Find, AddVolume,
             AssignVolume, SaveRow, SetFinished, Rescue, JobEnds, CreateFault, CreateSilent,
             CreateCrash, Enqueue, WebDies, SetFailed, rowVars
      <3>2. CASE CreateSilent(r)
        BY <3>1, <3>2 DEF CreateSilent, Silently, Create, CPCs
      <3> QED
        BY <2>1, <3>1, <3>2 DEF Alone, CreateJob, Begin, List, Define, Find,
             AddVolume, AssignVolume, SaveRow, SetFinished, Rescue, JobEnds, CreateFault,
             CreateCrash, Enqueue, WebDies, Create, CPCs
    <2>3. newm' = newm \/ \E s \in {"finished", "error", "destroyed"} :
                            /\ newm' = [newm EXCEPT ![r] = s]
                            /\ s = "destroyed" => newm[r] = "destroyed"
      BY <2>2 DEF Update, FailInv, FailTypes
    <2>4. FailTypes'
      BY <1>1, <2>2, <2>3 DEF FailInv, FailTypes
    <2>5. ASSUME Once', FailedFirst PROVE FailedFirst'
      <3>1. \A s \in Requests \ {r} : newm'[s] = newm[s] /\ cpc'[s] = cpc[s]
        BY <2>2, <2>3 DEF FailInv, FailTypes
      <3>2. \A s \in Requests \ {r} : HasMeta(s)' <=> HasMeta(s)
        <4>1. meta' = meta \/ meta' = meta \union {Id(r)}
          BY <2>1 DEF Alone, CreateJob, Begin, List, Define, Find, AddVolume,
             AssignVolume, SaveRow, SetFinished, Rescue, JobEnds, CreateFault, CreateSilent,
             CreateCrash, Enqueue, WebDies, rowVars
        <4> QED
          BY <4>1 DEF HasMeta, Id
      <3>3. cpc[r] # "none" /\ newm[r] \notin {"none", "valid"}
        BY <2>1, <2>5 DEF Alone, CreateJob, Begin, List, Define, Find, AddVolume,
           AssignVolume, SaveRow, SetFinished, Rescue, JobEnds, CreateFault, CreateSilent,
           CreateCrash, Enqueue, WebDies, Create, FailedFirst
      <3>4. \A s \in Requests : ~OnlyOne(s) => ~OnlyOne(s)'
        BY <2>3, <3>3 DEF FailInv, FailTypes, OnlyOne, Saved
      <3>5. newm'[r] \notin {"none", "valid"}
        BY <2>3, <3>3 DEF FailInv, FailTypes
      <3>6. /\ cpc'[r] \in BeforeRow => ~HasMeta(r)' /\ newm'[r] # "error"
            /\ newm'[r] = "error" => ~HasMeta(r)'
            /\ cpc'[r] = "rescue" => ~HasMeta(r)' \/ ~OnlyOne(r)'
        <4>1. CASE cpc[r] \in BeforeRow /\ meta' = meta
          <5>1. ~HasMeta(r)'
            BY <2>5, <4>1 DEF FailedFirst, HasMeta
          <5>2. cpc'[r] \in BeforeRow => newm' = newm
            BY <2>1, <4>1 DEF Alone, CreateJob, Begin, List, Define, Find, AddVolume,
               AssignVolume, SaveRow, SetFinished, Rescue, JobEnds, CreateFault,
               CreateSilent, CreateCrash, Enqueue, WebDies, Create, BeforeRow, rowVars
          <5> QED
            BY <2>5, <4>1, <5>1, <5>2 DEF FailedFirst
        <4>2. CASE meta' # meta
          <5>1. SaveRow(r)
            BY <2>1, <4>2 DEF Alone, CreateJob, Begin, List, Define, Find, AddVolume,
               AssignVolume, SetFinished, Rescue, JobEnds, CreateFault, CreateSilent,
               CreateCrash, Enqueue, WebDies, rowVars
          <5>2. cpc[r] = "row" /\ cpc'[r] = "given" /\ newm' = newm
            BY <4>2, <5>1 DEF SaveRow, Create, FailInv, FailTypes
          <5> QED
            BY <2>5, <5>2 DEF FailedFirst, BeforeRow
        <4>3. CASE cpc[r] \notin BeforeRow /\ meta' = meta
          <5>1. \/ SetFinished(r) \/ Rescue(r)
                \/ JobEnds(r) /\ UNCHANGED newm
            BY <1>1, <2>1, <2>5, <4>3
               DEF Alone, CreateJob, Begin, List, Define, Find, AddVolume,
                   AssignVolume, SaveRow, JobEnds, CreateFault, CreateSilent, CreateCrash,
                   Enqueue, WebDies, Create, BeforeRow, rowVars
          <5>2. cpc'[r] \in {"performed", "rescue", "raised", "done"}
            BY <5>1 DEF SetFinished, Rescue, JobEnds, Create, FailInv, FailTypes
          <5>3. HasMeta(r)' <=> HasMeta(r)
            BY <4>3 DEF HasMeta
          <5>4. CASE SetFinished(r)
            <6>1. newm'[r] = "error" => newm[r] = "error"
              BY <5>4 DEF SetFinished, Update, FailInv, FailTypes
            <6>2. cpc'[r] = "rescue" => ~OnlyOne(r)
              BY <5>4 DEF SetFinished, Create, FailInv, FailTypes
            <6> QED
              BY <2>5, <3>4, <5>2, <5>3, <6>1, <6>2 DEF FailedFirst, BeforeRow
          <5>5. CASE Rescue(r)
            <6>1. cpc[r] = "rescue" /\ cpc'[r] = "raised"
                  /\ (newm'[r] = "error" => newm[r] = "error" \/ OnlyOne(r))
              BY <5>5 DEF Rescue, Create, SetFailed, FailInv, FailTypes
            <6> QED
              BY <2>5, <5>3, <6>1 DEF FailedFirst, BeforeRow
          <5>6. CASE JobEnds(r) /\ UNCHANGED newm
            <6>1. cpc'[r] = "done"
              BY <5>6 DEF JobEnds, Create, FailInv, FailTypes
            <6> QED
              BY <2>5, <5>3, <5>6, <6>1 DEF FailedFirst, BeforeRow
          <5> QED
            BY <5>1, <5>4, <5>5, <5>6
        <4> QED
          BY <4>1, <4>2, <4>3
      <3> QED
        BY <2>5, <3>1, <3>2, <3>4, <3>5, <3>6 DEF FailedFirst
    <2> QED
      BY <1>1, <2>4, <2>5 DEF FailInv
  <1>4. CASE ~(\E r \in Requests : Validate(r) \/ Save(r) \/ Alone(r))
    <2>1. UNCHANGED <<newm, cpc>> /\ meta' \subseteq meta
      BY <1>4
         DEF Next, Alone, RequestDelete, DeleteJob, FindRow, ForceStop, FindMachine,
           Lookup, Kill, Undefine, DestroyRow, DeleteEnds, DeleteFault, DeleteSilent,
           DeleteCrash, Use, Start, Pause, Resume, rowVars, createVars
    <2>2. \A s \in Requests : OnlyOne(s)' <=> OnlyOne(s)
      BY <2>1 DEF OnlyOne, Saved
    <2> QED
      BY <1>1, <2>1, <2>2 DEF FailInv, FailTypes, FailedFirst, HasMeta
  <1> QED
    BY <1>2, <1>3, <1>4

\* Unless a worker dies, a form that is reported as failed has not made a machine
\* that is listed as well: with any number of forms, also for one hostname, and
\* whichever calls fail.
THEOREM FailedMadeNothing == Spec => []FailedHasNoMachine
  <1>1. Init => FailInv
    BY BoundsOk DEF Init, FailInv, FailTypes, FailedFirst, HasMeta, BudgetOk, CPCs
  <1>2. FailInv /\ [Next]_vars => FailInv'
    BY FailStep
  <1>3. FailInv => FailedHasNoMachine
    BY DEF FailInv, FailedFirst, HasMeta, FailedHasNoMachine, Once
  <1> QED
    BY <1>1, <1>2, <1>3, PTL DEF Spec
=============================================================================

-------------------------- MODULE OrdersRulesProofs -------------------------
(***************************************************************************)
(* The rules of the orders service about a user's orders: how far requests *)
(* of one user that race can break them, for any number of sessions; and   *)
(* what every handler may trust when no user has two requests in progress. *)
(***************************************************************************)
EXTENDS OrdersProofs, FiniteSetTheorems

\* No user has two connections.
OneSessionPerUser == \A s, t \in Session : UserOf[s] = UserOf[t] => s = t

-----------------------------------------------------------------------------
(* The inductive invariant: what each handler checked is still true.         *)

Creating(s) == pc[s] # "idle" /\ req[s].op = "create"
Changing(s) == pc[s] # "idle" /\ req[s].op \in {"update", "cancel"}

InTx == {"begin"} \cup TxSteps

\* Which request a handler serves when it makes the checks of that request.
ChecksMatch(s) ==
  /\ pc[s] \in {"rate", "active"} => req[s].op = "create"
  /\ pc[s] \in {"authorize", "load"} => req[s].op # "create"

\* A new order's id is unused, and its user still has no active order.
CreateChecked(s) ==
  Creating(s) =>
    /\ orders[req[s].order].status = "ABSENT"
    /\ pc[s] \in InTx => ~HasActiveOrder(UserOf[s])

\* The row that Update or Cancel loaded is still the stored one, as far as its
\* owner and its status go.
ChangeChecked(s) ==
  Changing(s) =>
    /\ orders[req[s].order].status # "ABSENT"
    /\ pc[s] \in InTx =>
         /\ orders[req[s].order].user = UserOf[s]
         /\ loc[s].existing.user = UserOf[s]
         /\ loc[s].existing.status = orders[req[s].order].status
         /\ req[s].op = "cancel" => CanTransitionTo(loc[s].existing.status, "CANCELED")

SessionChecked(s) == ChecksMatch(s) /\ CreateChecked(s) /\ ChangeChecked(s)

NewIdsDiffer ==
  \A s, t \in Session :
    s # t /\ Creating(s) /\ Creating(t) => req[s].order # req[t].order

Serial ==
  /\ Safe
  /\ \A s \in Session : SessionChecked(s)
  /\ NewIdsDiffer

LEMMA InitSerial == Init => Serial
<1> SUFFICES ASSUME Init PROVE Serial
  OBVIOUS
<1>1. Safe
  BY InitSafe
<1>2. \A s \in Session : SessionChecked(s)
  BY DEF Init, SessionChecked, ChecksMatch, CreateChecked, ChangeChecked, Creating, Changing
<1>3. NewIdsDiffer
  BY DEF Init, NewIdsDiffer, Creating
<1> QED
  BY <1>1, <1>2, <1>3 DEF Serial

-----------------------------------------------------------------------------
(* Steps that write no order. *)

\* Only the control state of t changes.
Quiet(t) ==
  /\ UNCHANGED <<orders, operations, now>>
  /\ \A s \in Session \ {t} : pc'[s] = pc[s] /\ req'[s] = req[s] /\ loc'[s] = loc[s]

LEMMA QuietStep ==
  ASSUME Serial, Safe', NEW t \in Session, Quiet(t), SessionChecked(t)',
         Creating(t)' => \A s \in Session \ {t} : Creating(s) => req[s].order # req'[t].order
  PROVE  Serial'
<1>1. ASSUME NEW s \in Session PROVE SessionChecked(s)'
  <2>1. CASE s = t
    BY <2>1
  <2>2. CASE s # t
    BY <2>2 DEF Quiet, Serial, SessionChecked, ChecksMatch, CreateChecked, ChangeChecked,
                Creating, Changing, HasActiveOrder
  <2> QED
    BY <2>1, <2>2
<1>2. NewIdsDiffer'
  BY DEF Quiet, Serial, NewIdsDiffer, Creating
<1> QED
  BY <1>1, <1>2 DEF Serial

LEMMA RefuseSerial ==
  ASSUME Serial, Safe', NEW t \in Session, Refuse(t)
  PROVE  Serial'
<1>1. pc'[t] = "idle" /\ Quiet(t)
  BY DEF Serial, Safe, TypeOK, Refuse, Answer, Goto, Quiet, tables
<1>2. SessionChecked(t)' /\ ~Creating(t)'
  BY <1>1 DEF SessionChecked, ChecksMatch, CreateChecked, ChangeChecked, Creating, Changing
<1> QED
  BY <1>1, <1>2, QuietStep

LEMMA StartSerial ==
  ASSUME Serial, Safe', NEW t \in Session, Start(t)
  PROVE  Serial'
<1>1. Quiet(t)
  BY DEF Serial, Safe, TypeOK, Start, StartCreate, StartUpdate, StartCancel, Goto, Quiet, tables
<1>2. CASE StartCreate(t)
  <2>1. PICK o \in OrderId, items \in ItemLists, code \in PromoCodeOpt :
          /\ orders[o].status = "ABSENT"
          /\ \A s \in Session : pc[s] # "idle" => req[s].order # o
          /\ req' = [req EXCEPT ![t] =
                       [op |-> "create", order |-> o, items |-> items, promo |-> code]]
    BY <1>2 DEF StartCreate
  <2>2. pc'[t] = "rate" /\ req'[t].op = "create" /\ req'[t].order = o
    BY <1>2, <2>1 DEF StartCreate, Goto, Serial, Safe, TypeOK
  <2>3. SessionChecked(t)'
    BY <1>1, <2>1, <2>2 DEF SessionChecked, ChecksMatch, CreateChecked, ChangeChecked,
                            Creating, Changing, Quiet, InTx, TxSteps
  <2>4. \A s \in Session \ {t} : Creating(s) => req[s].order # req'[t].order
    BY <2>1, <2>2 DEF Creating
  <2> QED
    BY <1>1, <2>3, <2>4, QuietStep
<1>3. CASE StartUpdate(t) \/ StartCancel(t)
  <2>1. /\ pc'[t] = "authorize"
        /\ req'[t].op \in {"update", "cancel"}
        /\ orders[req'[t].order].status # "ABSENT"
    BY <1>3 DEF StartUpdate, StartCancel, Goto, Serial, Safe, TypeOK
  <2>2. SessionChecked(t)' /\ ~Creating(t)'
    BY <1>1, <2>1 DEF SessionChecked, ChecksMatch, CreateChecked, ChangeChecked,
                      Creating, Changing, Quiet, InTx, TxSteps
  <2> QED
    BY <1>1, <2>2, QuietStep
<1> QED
  BY <1>2, <1>3 DEF Start

LEMMA CheckSerial ==
  ASSUME Serial, Safe', NEW t \in Session,
         CheckRateLimit(t) \/ GetActiveOrder(t) \/ Authorize(t)
  PROVE  Serial'
<1>1. Quiet(t) /\ UNCHANGED <<req, loc>>
  BY DEF Serial, Safe, TypeOK, CheckRateLimit, GetActiveOrder, Authorize, Goto, Quiet, tables
<1>2. /\ pc[t] \in {"rate", "active", "authorize"}
      /\ pc'[t] = IF pc[t] = "rate" THEN "active" ELSE IF pc[t] = "active" THEN "begin" ELSE "load"
      /\ pc[t] = "active" => ~HasActiveOrder(UserOf[t])
  BY DEF Serial, Safe, TypeOK, CheckRateLimit, GetActiveOrder, Authorize, Goto
<1>3. SessionChecked(t)
  BY DEF Serial
<1>4. SessionChecked(t)'
  BY <1>1, <1>2, <1>3 DEF SessionChecked, ChecksMatch, CreateChecked, ChangeChecked,
     Creating, Changing, Quiet, InTx, TxSteps, HasActiveOrder
<1>5. Creating(t)' => \A s \in Session \ {t} : Creating(s) => req[s].order # req'[t].order
  BY <1>1, <1>2 DEF Serial, NewIdsDiffer, Creating
<1> QED
  BY <1>1, <1>4, <1>5, QuietStep

LEMMA LoadSerial ==
  ASSUME Serial, Safe', NEW t \in Session, LoadOrder(t)
  PROVE  Serial'
<1>1. Quiet(t) /\ UNCHANGED req
  BY DEF Serial, Safe, TypeOK, LoadOrder, Goto, Quiet, tables
<1>2. /\ pc[t] = "load" /\ pc'[t] = "begin"
      /\ loc'[t].existing = orders[req[t].order]
      /\ orders[req[t].order].user = UserOf[t]
      /\ StatusAllows(req[t].op, orders[req[t].order].status)
  BY DEF Serial, Safe, TypeOK, LoadOrder, Goto, Local
<1>3. SessionChecked(t)
  BY DEF Serial
<1>4. SessionChecked(t)' /\ ~Creating(t)'
  BY <1>1, <1>2, <1>3 DEF SessionChecked, ChecksMatch, CreateChecked, ChangeChecked,
     Creating, Changing, Quiet, InTx, TxSteps, StatusAllows
<1> QED
  BY <1>1, <1>4, QuietStep

\* The steps of the transaction before its last.
TxStep(t) ==
  \/ BeginTx(t) \/ GetItems(t) \/ Restore(t) \/ ReadProduct(t) \/ Reserve(t) \/ ReadPromo(t)

LEMMA TxStepEffect ==
  ASSUME Safe, NEW t \in Session, TxStep(t)
  PROVE  /\ Quiet(t) /\ UNCHANGED req
         /\ pc[t] \in InTx /\ pc'[t] \in InTx
         /\ loc'[t].existing = loc[t].existing
<1> USE DEF Safe, TypeOK, Quiet, tables, Goto, InTx, TxSteps, Local
<1>1. CASE BeginTx(t)
  BY <1>1, AfterItemLabel DEF BeginTx
<1>2. CASE GetItems(t)
  <2>1. Quiet(t) /\ UNCHANGED req
    BY <1>2 DEF GetItems
  <2>2. loc'[t].existing = loc[t].existing
    <3>1. PICK todo : loc' = [loc EXCEPT ![t].todo = todo]
      BY <1>2 DEF GetItems
    <3>2. loc[t] \in Local /\ loc \in [Session -> Local]
      OBVIOUS
    <3> QED
      BY <3>1, <3>2
  <2>3. pc[t] \in InTx /\ \E todo : pc' = [pc EXCEPT ![t] = AfterRestore(t, todo)]
    BY <1>2 DEF GetItems
  <2>4. pc'[t] \in InTx
    BY <2>3, AfterItemLabel DEF AfterRestore
  <2> QED
    BY <2>1, <2>2, <2>3, <2>4
<1>3. CASE Restore(t)
  BY <1>3, AfterItemLabel DEF Restore, AfterRestore
<1>4. CASE ReadProduct(t)
  BY <1>4 DEF ReadProduct
<1>5. CASE Reserve(t)
  <2>1. Quiet(t) /\ UNCHANGED req
    BY <1>5 DEF Reserve
  <2>2. loc'[t].existing = loc[t].existing
    BY <1>5 DEF Reserve
  <2> QED
    BY <1>5, <2>1, <2>2, AfterItemLabel DEF Reserve
<1>6. CASE ReadPromo(t)
  BY <1>6 DEF ReadPromo
<1> QED
  BY <1>1, <1>2, <1>3, <1>4, <1>5, <1>6 DEF TxStep

LEMMA TxStepSerial ==
  ASSUME Serial, Safe', NEW t \in Session, TxStep(t)
  PROVE  Serial'
<1>1. /\ Quiet(t) /\ UNCHANGED req
      /\ pc[t] \in InTx /\ pc'[t] \in InTx
      /\ loc'[t].existing = loc[t].existing
  BY TxStepEffect DEF Serial
<1>2. SessionChecked(t)
  BY DEF Serial
<1>3. SessionChecked(t)'
  BY <1>1, <1>2 DEF SessionChecked, ChecksMatch, CreateChecked, ChangeChecked,
     Creating, Changing, Quiet, InTx, TxSteps, HasActiveOrder
<1>4. Creating(t)' => \A s \in Session \ {t} : Creating(s) => req[s].order # req'[t].order
  BY <1>1 DEF Serial, NewIdsDiffer, Creating, InTx, TxSteps
<1> QED
  BY <1>1, <1>3, <1>4, QuietStep

LEMMA CrashSerial ==
  ASSUME Serial, Safe', Crash
  PROVE  Serial'
<1>1. \A s \in Session : SessionChecked(s)' /\ ~Creating(s)'
  BY DEF Crash, SessionChecked, ChecksMatch, CreateChecked, ChangeChecked, Creating, Changing
<1>2. NewIdsDiffer'
  BY <1>1 DEF NewIdsDiffer, Creating
<1> QED
  BY <1>1, <1>2 DEF Serial

LEMMA TickSerial ==
  ASSUME Serial, Safe', Tick
  PROVE  Serial'
BY DEF Tick, tables, Serial, SessionChecked, ChecksMatch, CreateChecked, ChangeChecked,
       Creating, Changing, HasActiveOrder, NewIdsDiffer

-----------------------------------------------------------------------------
(* The commits. *)

Commit(t) == CommitCreate(t) \/ CommitUpdate(t) \/ CommitCancel(t)

\* A commit writes one row, and it is a row of the session's own user: another
\* user's sessions may trust what they have read.
OwnRowWritten(t) ==
  /\ pc'[t] = "idle"
  /\ now' = now
  /\ \A s \in Session \ {t} : pc'[s] = pc[s] /\ req'[s] = req[s] /\ loc'[s] = loc[s]
  /\ \A o \in OrderId \ {req[t].order} : orders'[o] = orders[o]
  /\ orders'[req[t].order].user = UserOf[t]
  /\ orders'[req[t].order].status # "ABSENT"
  /\ operations' \subseteq operations \cup
                      {[order |-> req[t].order, user |-> UserOf[t], at |-> now + Zone]}

LEMMA CommitEffect ==
  ASSUME Serial, NEW t \in Session, Commit(t)
  PROVE  /\ OwnRowWritten(t)
         /\ pc[t] = "write"
         /\ req[t].order \in OrderId
         /\ Creating(t) \/ (Changing(t) /\ orders[req[t].order].user = UserOf[t])
<1>1. /\ pc \in [Session -> Label] /\ req \in [Session -> Request] /\ loc \in [Session -> Local]
      /\ orders \in [OrderId -> OrderRow]
      /\ req[t].order \in OrderId /\ loc[t].existing \in OrderRow
  BY DEF Serial, Safe, TypeOK, Request, Local
<1>2. CASE CommitCreate(t)
  BY <1>1, <1>2 DEF CommitCreate, CreatedRow, OwnRowWritten, Answer, Goto, Creating
<1>3. CASE CommitUpdate(t) \/ CommitCancel(t)
  <2>1. /\ pc[t] = "write" /\ Changing(t)
        /\ SessionChecked(t)
    BY <1>3 DEF CommitUpdate, CommitCancel, Changing, Serial
  <2>2. /\ loc[t].existing.user = UserOf[t]
        /\ orders[req[t].order].user = UserOf[t]
        /\ loc[t].existing.status = orders[req[t].order].status
        /\ orders[req[t].order].status # "ABSENT"
    BY <2>1 DEF SessionChecked, ChangeChecked, InTx, TxSteps
  <2>3. CASE CommitUpdate(t)
    BY <1>1, <2>1, <2>2, <2>3 DEF CommitUpdate, UpdatedRow, OwnRowWritten, Answer, Goto, OrderRow
  <2>4. CASE CommitCancel(t)
    BY <1>1, <2>1, <2>2, <2>4 DEF CommitCancel, OwnRowWritten, Answer, Goto, OrderRow
  <2> QED
    BY <1>3, <2>3, <2>4
<1> QED
  BY <1>2, <1>3 DEF Commit

\* What the other sessions checked stays true.
LEMMA OthersChecked ==
  ASSUME OneSessionPerUser, Serial, NEW t \in Session, Commit(t), NEW s \in Session \ {t}
  PROVE  SessionChecked(s)'
<1>1. /\ OwnRowWritten(t) /\ req[t].order \in OrderId
      /\ Creating(t) \/ (Changing(t) /\ orders[req[t].order].user = UserOf[t])
  BY CommitEffect
<1>2. UserOf[s] # UserOf[t]
  BY DEF OneSessionPerUser
<1>3. SessionChecked(s) /\ SessionChecked(t)
  BY DEF Serial
<1>4. ChecksMatch(s)'
  BY <1>1, <1>3 DEF SessionChecked, ChecksMatch, OwnRowWritten
<1>5. ~HasActiveOrder(UserOf[s]) => ~HasActiveOrder(UserOf[s])'
  BY <1>1, <1>2 DEF OwnRowWritten, HasActiveOrder
<1>6. req[s].order \in OrderId
  BY DEF Serial, Safe, TypeOK, Request
<1>7. CreateChecked(s)'
  <2>1. Creating(s) => req[s].order # req[t].order
    BY <1>1, <1>3 DEF Serial, NewIdsDiffer, SessionChecked, CreateChecked, ChangeChecked
  <2>2. Creating(s)' <=> Creating(s)
    BY <1>1 DEF Creating, OwnRowWritten
  <2> QED
    BY <1>1, <1>3, <1>5, <1>6, <2>1, <2>2 DEF SessionChecked, CreateChecked, OwnRowWritten
<1>8. ChangeChecked(s)'
  <2>1. Changing(s)' <=> Changing(s)
    BY <1>1 DEF Changing, OwnRowWritten
  <2>2. CASE req[s].order = req[t].order
    <3>1. Changing(s) => pc[s] \notin InTx
      BY <1>1, <1>2, <1>3, <2>2 DEF SessionChecked, ChangeChecked, CreateChecked
    <3> QED
      BY <1>1, <2>1, <2>2, <3>1 DEF ChangeChecked, OwnRowWritten
  <2>3. CASE req[s].order # req[t].order
    BY <1>1, <1>3, <1>6, <2>1, <2>3 DEF SessionChecked, ChangeChecked, OwnRowWritten
  <2> QED
    BY <2>2, <2>3
<1> QED
  BY <1>4, <1>7, <1>8 DEF SessionChecked

LEMMA CommitSerial ==
  ASSUME OneSessionPerUser, Serial, Safe', NEW t \in Session, Commit(t)
  PROVE  Serial'
<1>1. OwnRowWritten(t)
  BY CommitEffect
<1>2. ASSUME NEW s \in Session PROVE SessionChecked(s)'
  <2>1. CASE s = t
    BY <1>1, <2>1 DEF OwnRowWritten, SessionChecked, ChecksMatch, CreateChecked, ChangeChecked,
                      Creating, Changing
  <2>2. CASE s # t
    BY <2>2, OthersChecked
  <2> QED
    BY <2>1, <2>2
<1>3. NewIdsDiffer'
  BY <1>1 DEF OwnRowWritten, Serial, NewIdsDiffer, Creating
<1> QED
  BY <1>2, <1>3 DEF Serial

-----------------------------------------------------------------------------
(* Every step. *)

LEMMA NextSerial ==
  ASSUME OneSessionPerUser
  PROVE  Serial /\ [Next]_vars => Serial'
<1> SUFFICES ASSUME Serial, [Next]_vars PROVE Serial'
  OBVIOUS
<1>1. Safe'
  BY NextSafe DEF Serial
<1>2. CASE UNCHANGED vars
  BY <1>1, <1>2 DEF vars, Serial, SessionChecked, ChecksMatch, CreateChecked, ChangeChecked,
     Creating, Changing, HasActiveOrder, NewIdsDiffer
<1>3. CASE Crash
  BY <1>1, <1>3, CrashSerial
<1>4. CASE Tick
  BY <1>1, <1>4, TickSerial
<1>5. ASSUME NEW t \in Session, Serve(t)
      PROVE  Serial'
  <2>1. CASE Start(t)
    BY <1>1, <2>1, StartSerial
  <2>2. CASE Refusal(t)
    BY <1>1, <2>2, RefusalRefuses, RefuseSerial
  <2>3. CASE CheckRateLimit(t) \/ GetActiveOrder(t) \/ Authorize(t)
    BY <1>1, <2>3, CheckSerial
  <2>4. CASE LoadOrder(t)
    BY <1>1, <2>4, LoadSerial
  <2>5. CASE TxStep(t)
    BY <1>1, <2>5, TxStepSerial
  <2>6. CASE Commit(t)
    BY <1>1, <2>6, CommitSerial
  <2> QED
    BY <1>5, <2>1, <2>2, <2>3, <2>4, <2>5, <2>6 DEF Serve, Advance, Refusal, TxStep, Commit
<1> QED
  BY <1>2, <1>3, <1>4, <1>5 DEF Next

-----------------------------------------------------------------------------
(* Requests of one user that race: what they can have passed together.       *)

\* The creates of u that have passed the rate limit.
Racing(u) == {s \in Sessions(u) : pc[s] \notin {"idle", "rate"} /\ req[s].op = "create"}

\* A create of a's user would be refused now.
Limited(a) == now < a.at + RateLimitMinutes

\* Until the limit after a has passed, the creates that have passed it can only
\* have done so before a.
LimitBounded(a) ==
  Cardinality(Burst(a)) + (IF Limited(a) THEN Cardinality(Racing(a.user)) ELSE 0)
    <= Cardinality(Sessions(a.user))

Active(u) == {o \in OrderId : orders[o].user = u /\ orders[o].status \in ActiveStatus}

\* The handlers of u that will store an active order: creates that found none,
\* and updates that read the order while it was active.
Pending(u) ==
  {s \in Sessions(u) :
     /\ pc[s] \in InTx
     /\ req[s].op = "create" \/ (req[s].op = "update" /\ loc[s].existing.status \in ActiveStatus)}

ToStore(u) == {req[s].order : s \in Pending(u)}

\* The active orders there are or can be without a further check of Create.
Potential(u) == Active(u) \cup ToStore(u)

\* Update and Cancel change orders of the session's user.
OwnLoaded(s) == pc[s] \in InTx /\ req[s].op # "create" => loc[s].existing.user = UserOf[s]

Checked == Safe /\ \A s \in Session : ChecksMatch(s) /\ OwnLoaded(s)

Limits ==
  /\ IsFiniteSet(operations)
  /\ \A a \in operations : a.at <= now + Zone /\ LimitBounded(a)

Actives ==
  \A u \in User : IsFiniteSet(Potential(u)) /\ Cardinality(Potential(u)) <= Cardinality(Sessions(u))
\* What a step does to the creates and the orders that count.
LimitStep ==
  \/ /\ operations' = operations /\ now' >= now
     /\ \A u \in User : Racing(u)' \subseteq Racing(u)
  \/ /\ UNCHANGED <<operations, now>>
     /\ \E t \in Session :
          /\ RateAllowed(UserOf[t])
          /\ \A u \in User : u # UserOf[t] => Racing(u)' \subseteq Racing(u)
  \/ /\ UNCHANGED now
     /\ \E t \in Session, o \in OrderId :
          /\ t \in Racing(UserOf[t])
          /\ operations' = operations \cup {[order |-> o, user |-> UserOf[t], at |-> now + Zone]}
          /\ \A u \in User : Racing(u)' \subseteq Racing(u) \ {t}

ActiveStep ==
  \A u \in User : Potential(u)' \subseteq Potential(u) \/ Potential(u)' \subseteq ToStore(u)'

LEMMA QuietChecked ==
  ASSUME Checked, Safe', NEW t \in Session, Quiet(t), ChecksMatch(t)', OwnLoaded(t)',
         t \in Racing(UserOf[t])' => t \in Racing(UserOf[t]) \/ RateAllowed(UserOf[t]),
         t \in Pending(UserOf[t])' =>
           req'[t].order \in Potential(UserOf[t]) \/ Active(UserOf[t]) = {}
  PROVE  Checked' /\ LimitStep /\ ActiveStep
<1>1. Checked'
  <2> SUFFICES ASSUME NEW s \in Session PROVE ChecksMatch(s)' /\ OwnLoaded(s)'
    BY DEF Checked
  <2> QED
    BY DEF Checked, Quiet, ChecksMatch, OwnLoaded
<1>2. LimitStep
  <2>1. \A u \in User : u # UserOf[t] => Racing(u)' \subseteq Racing(u)
    BY DEF Quiet, Racing, Sessions
  <2>2. t \notin Racing(UserOf[t])' \/ t \in Racing(UserOf[t]) =>
          Racing(UserOf[t])' \subseteq Racing(UserOf[t])
    BY DEF Quiet, Racing, Sessions
  <2>3. now' >= now
    BY DEF Quiet, Checked, Safe, TypeOK
  <2> QED
    BY <2>1, <2>2, <2>3 DEF Quiet, LimitStep
<1>3. ActiveStep
  <2> SUFFICES ASSUME NEW u \in User
               PROVE  Potential(u)' \subseteq Potential(u) \/ Potential(u)' \subseteq ToStore(u)'
    BY DEF ActiveStep
  <2>1. Active(u)' = Active(u)
    BY DEF Quiet, Active
  <2>2. ASSUME NEW s \in Session \ {t}, s \in Pending(u)'
        PROVE  s \in Pending(u) /\ req'[s].order = req[s].order
    BY <2>2 DEF Quiet, Pending, Sessions
  <2>3. ASSUME t \in Pending(u)'
        PROVE  u = UserOf[t]
    BY <2>3 DEF Pending, Sessions
  <2>4. Pending(u)' \subseteq Session
    BY DEF Pending, Sessions
  <2>5. CASE Active(u) = {}
    BY <2>1, <2>5 DEF Potential
  <2>6. CASE t \in Pending(u)' => req'[t].order \in Potential(u)
    <3>1. ASSUME NEW s \in Pending(u)' PROVE req'[s].order \in Potential(u)
      BY <2>2, <2>4, <2>6 DEF Potential, ToStore
    <3> QED
      BY <2>1, <3>1 DEF Potential, ToStore
  <2> QED
    BY <2>3, <2>5, <2>6
<1> QED
  BY <1>1, <1>2, <1>3

\* A handler that answers without storing anything counts no more.
LEMMA RefuseChecked ==
  ASSUME Checked, Safe', NEW t \in Session, Refuse(t)
  PROVE  Checked' /\ LimitStep /\ ActiveStep
<1>1. pc'[t] = "idle" /\ Quiet(t)
  BY DEF Checked, Safe, TypeOK, Refuse, Answer, Goto, Quiet, tables
<1>2. ChecksMatch(t)' /\ OwnLoaded(t)' /\ t \notin Racing(UserOf[t])' /\ t \notin Pending(UserOf[t])'
  BY <1>1 DEF ChecksMatch, OwnLoaded, Racing, Pending, InTx, TxSteps
<1> QED
  BY <1>1, <1>2, QuietChecked

LEMMA StartChecked ==
  ASSUME Checked, Safe', NEW t \in Session, Start(t)
  PROVE  Checked' /\ LimitStep /\ ActiveStep
<1>1. Quiet(t)
  BY DEF Checked, Safe, TypeOK, Start, StartCreate, StartUpdate, StartCancel, Goto, Quiet, tables
<1>2. \/ pc'[t] = "rate" /\ req'[t].op = "create"
      \/ pc'[t] = "authorize" /\ req'[t].op \in {"update", "cancel"}
  BY DEF Checked, Safe, TypeOK, Start, StartCreate, StartUpdate, StartCancel, Goto
<1>3. ChecksMatch(t)' /\ OwnLoaded(t)' /\ t \notin Racing(UserOf[t])' /\ t \notin Pending(UserOf[t])'
  BY <1>2 DEF ChecksMatch, OwnLoaded, Racing, Pending, InTx, TxSteps
<1> QED
  BY <1>1, <1>3, QuietChecked

LEMMA ChecksChecked ==
  ASSUME Checked, Safe', NEW t \in Session,
         CheckRateLimit(t) \/ GetActiveOrder(t) \/ Authorize(t)
  PROVE  Checked' /\ LimitStep /\ ActiveStep
<1>1. Quiet(t) /\ UNCHANGED <<req, loc>>
  BY DEF Checked, Safe, TypeOK, CheckRateLimit, GetActiveOrder, Authorize, Goto, Quiet, tables
<1>2. /\ pc[t] \in {"rate", "active", "authorize"}
      /\ pc'[t] = IF pc[t] = "rate" THEN "active" ELSE IF pc[t] = "active" THEN "begin" ELSE "load"
      /\ pc[t] = "rate" => RateAllowed(UserOf[t])
      /\ pc[t] = "active" => ~HasActiveOrder(UserOf[t])
  BY DEF Checked, Safe, TypeOK, CheckRateLimit, GetActiveOrder, Authorize, Goto
<1>3. ChecksMatch(t) /\ OwnLoaded(t)
  BY DEF Checked
<1>4. ChecksMatch(t)' /\ OwnLoaded(t)'
  BY <1>1, <1>2, <1>3 DEF ChecksMatch, OwnLoaded, InTx, TxSteps
<1>5. t \in Racing(UserOf[t])' => t \in Racing(UserOf[t]) \/ RateAllowed(UserOf[t])
  BY <1>1, <1>2 DEF Racing, Sessions
<1>6. t \in Pending(UserOf[t])' => Active(UserOf[t]) = {}
  BY <1>2 DEF Pending, InTx, TxSteps, Active, HasActiveOrder
<1> QED
  BY <1>1, <1>4, <1>5, <1>6, QuietChecked

LEMMA LoadChecked ==
  ASSUME Checked, Safe', NEW t \in Session, LoadOrder(t)
  PROVE  Checked' /\ LimitStep /\ ActiveStep
<1>1. Quiet(t) /\ UNCHANGED req
  BY DEF Checked, Safe, TypeOK, LoadOrder, Goto, Quiet, tables
<1>2. /\ pc[t] = "load" /\ pc'[t] = "begin"
      /\ loc'[t].existing = orders[req[t].order]
      /\ orders[req[t].order].user = UserOf[t]
  BY DEF Checked, Safe, TypeOK, LoadOrder, Goto, Local
<1>3. ChecksMatch(t) /\ req[t].order \in OrderId
  BY DEF Checked, Safe, TypeOK, Request
<1>4. ChecksMatch(t)' /\ OwnLoaded(t)' /\ t \notin Racing(UserOf[t])'
  BY <1>1, <1>2, <1>3 DEF ChecksMatch, OwnLoaded, Racing
<1>5. t \in Pending(UserOf[t])' => req'[t].order \in Potential(UserOf[t])
  BY <1>1, <1>2, <1>3 DEF ChecksMatch, Pending, Potential, Active
<1> QED
  BY <1>1, <1>4, <1>5, QuietChecked

LEMMA TxStepChecked ==
  ASSUME Checked, Safe', NEW t \in Session, TxStep(t)
  PROVE  Checked' /\ LimitStep /\ ActiveStep
<1>1. /\ Quiet(t) /\ UNCHANGED req
      /\ pc[t] \in InTx /\ pc'[t] \in InTx
      /\ loc'[t].existing = loc[t].existing
  BY TxStepEffect DEF Checked
<1>2. ChecksMatch(t) /\ OwnLoaded(t)
  BY DEF Checked
<1>3. ChecksMatch(t)' /\ OwnLoaded(t)'
  BY <1>1, <1>2 DEF ChecksMatch, OwnLoaded, InTx, TxSteps
<1>4. t \in Racing(UserOf[t])' => t \in Racing(UserOf[t])
  BY <1>1 DEF Racing, Sessions, InTx, TxSteps
<1>5. t \in Pending(UserOf[t])' => req'[t].order \in Potential(UserOf[t])
  BY <1>1 DEF Pending, Sessions, Potential, ToStore
<1> QED
  BY <1>1, <1>3, <1>4, <1>5, QuietChecked

\* A commit stores an order the session was counted for, under its own user.
LEMMA CommitChecked ==
  ASSUME Checked, Safe', NEW t \in Session, Commit(t)
  PROVE  Checked' /\ LimitStep /\ ActiveStep
<1> DEFINE mine == req[t].order
<1>1. /\ mine \in OrderId /\ orders \in [OrderId -> OrderRow] /\ loc[t].existing \in OrderRow
      /\ OwnLoaded(t) /\ now \in Nat
  BY DEF Checked, Safe, TypeOK, Request, Local
<1>2. /\ pc[t] = "write" /\ pc'[t] = "idle" /\ now' = now
      /\ \A s \in Session \ {t} : pc'[s] = pc[s] /\ req'[s] = req[s] /\ loc'[s] = loc[s]
  BY DEF Commit, CommitCreate, CommitUpdate, CommitCancel, Answer, Goto, Checked, Safe, TypeOK
<1>3. \A o \in OrderId \ {mine} : orders'[o] = orders[o]
  BY <1>1 DEF Commit, CommitCreate, CommitUpdate, CommitCancel
<1>4. Checked'
  <2> SUFFICES ASSUME NEW s \in Session PROVE ChecksMatch(s)' /\ OwnLoaded(s)'
    BY DEF Checked
  <2> QED
    BY <1>2 DEF Checked, ChecksMatch, OwnLoaded, InTx, TxSteps
<1>5. \A u \in User : Racing(u)' \subseteq Racing(u) \ {t}
  BY <1>2 DEF Racing, Sessions
<1>6. LimitStep
  <2>1. CASE CommitCreate(t)
    <3>1. t \in Racing(UserOf[t])
      BY <1>2, <2>1 DEF CommitCreate, Racing, Sessions
    <3>2. operations' = operations \cup {[order |-> mine, user |-> UserOf[t], at |-> now + Zone]}
      BY <2>1 DEF CommitCreate
    <3> QED
      BY <1>1, <1>2, <1>5, <3>1, <3>2 DEF LimitStep
  <2>2. CASE CommitUpdate(t) \/ CommitCancel(t)
    <3>1. operations' = operations /\ now' >= now
      BY <1>1, <1>2, <2>2 DEF CommitUpdate, CommitCancel
    <3> QED
      BY <1>5, <3>1 DEF LimitStep
  <2> QED
    BY <2>1, <2>2 DEF Commit
<1>7. ActiveStep
  <2> SUFFICES ASSUME NEW u \in User PROVE Potential(u)' \subseteq Potential(u)
    BY DEF ActiveStep
  <2>1. ASSUME NEW s \in Pending(u)'
        PROVE  s \in Pending(u) /\ req'[s].order = req[s].order
    <3>1. s \in Session \ {t}
      BY <1>2 DEF Pending, Sessions, InTx, TxSteps
    <3> QED
      BY <1>2, <3>1 DEF Pending, Sessions
  <2>2. ASSUME orders'[mine].user = u, orders'[mine].status \in ActiveStatus
        PROVE  mine \in Potential(u)
    <3>1. u = UserOf[t] /\ t \in Pending(u)
      <4>1. CASE CommitCreate(t)
        BY <1>1, <1>2, <2>2, <4>1 DEF CommitCreate, CreatedRow, Pending, Sessions, InTx, TxSteps
      <4>2. CASE CommitUpdate(t)
        <5>1. orders'[mine].user = loc[t].existing.user /\ orders'[mine].status = loc[t].existing.status
          BY <1>1, <4>2 DEF CommitUpdate, UpdatedRow, OrderRow
        <5> QED
          BY <1>1, <1>2, <2>2, <4>2, <5>1 DEF CommitUpdate, OwnLoaded, Pending, Sessions, InTx, TxSteps
      <4>3. CASE CommitCancel(t)
        <5>1. orders'[mine] = [loc[t].existing EXCEPT !.status = "CANCELED", !.items = orders[mine].items]
          BY <1>1, <4>3 DEF CommitCancel
        <5>2. orders'[mine].status = "CANCELED"
          BY <1>1, <5>1 DEF OrderRow
        <5> QED
          BY <2>2, <5>2 DEF ActiveStatus
      <4> QED
        BY <4>1, <4>2, <4>3 DEF Commit
    <3> QED
      BY <3>1 DEF Potential, ToStore
  <2>3. Active(u)' \subseteq Potential(u)
    BY <1>3, <2>2 DEF Active, Potential
  <2> QED
    BY <2>1, <2>3 DEF Potential, ToStore
<1> QED
  BY <1>4, <1>6, <1>7

LEMMA CrashChecked ==
  ASSUME Checked, Safe', Crash
  PROVE  Checked' /\ LimitStep /\ ActiveStep
<1>1. /\ \A s \in Session : pc'[s] = "idle"
      /\ UNCHANGED <<orders, operations, now>> /\ now \in Nat
  BY DEF Crash, tables, Checked, Safe, TypeOK
<1>2. Checked'
  BY <1>1 DEF Checked, ChecksMatch, OwnLoaded, InTx, TxSteps
<1>3. \A u \in User : Racing(u)' = {} /\ Pending(u)' = {} /\ Active(u)' = Active(u)
  BY <1>1 DEF Racing, Pending, Active, Sessions, InTx, TxSteps
<1>4. LimitStep
  BY <1>1, <1>3 DEF LimitStep
<1>5. ActiveStep
  BY <1>3 DEF ActiveStep, Potential, ToStore
<1> QED
  BY <1>2, <1>4, <1>5

LEMMA TickChecked ==
  ASSUME Checked, Safe', Tick \/ UNCHANGED vars
  PROVE  Checked' /\ LimitStep /\ ActiveStep
<1>1. /\ UNCHANGED <<orders, operations, pc, req, loc>>
      /\ now' >= now
  BY DEF Tick, vars, tables, Checked, Safe, TypeOK
<1>2. Checked'
  BY <1>1 DEF Checked, ChecksMatch, OwnLoaded
<1>3. \A u \in User : Racing(u)' = Racing(u) /\ Potential(u)' = Potential(u)
  BY <1>1 DEF Racing, Potential, ToStore, Pending, Active
<1>4. LimitStep
  BY <1>1, <1>3 DEF LimitStep
<1>5. ActiveStep
  BY <1>3 DEF ActiveStep
<1> QED
  BY <1>2, <1>4, <1>5

LEMMA NextChecked ==
  ASSUME Checked, [Next]_vars
  PROVE  Checked' /\ LimitStep /\ ActiveStep
<1>1. Safe'
  BY NextSafe DEF Checked
<1>2. ASSUME NEW t \in Session, Serve(t)
      PROVE  Checked' /\ LimitStep /\ ActiveStep
  <2>1. CASE Start(t)
    BY <1>1, <2>1, StartChecked
  <2>2. CASE Refusal(t)
    BY <1>1, <2>2, RefusalRefuses, RefuseChecked
  <2>3. CASE CheckRateLimit(t) \/ GetActiveOrder(t) \/ Authorize(t)
    BY <1>1, <2>3, ChecksChecked
  <2>4. CASE LoadOrder(t)
    BY <1>1, <2>4, LoadChecked
  <2>5. CASE TxStep(t)
    BY <1>1, <2>5, TxStepChecked
  <2>6. CASE Commit(t)
    BY <1>1, <2>6, CommitChecked
  <2> QED
    BY <1>2, <2>1, <2>2, <2>3, <2>4, <2>5, <2>6 DEF Serve, Advance, Refusal, TxStep, Commit
<1> QED
  BY <1>1, <1>2, CrashChecked, TickChecked DEF Next

LEMMA InitChecked == Init => Checked
BY InitSafe DEF Init, Checked, ChecksMatch, OwnLoaded, InTx, TxSteps

-----------------------------------------------------------------------------
(* Counting. *)

LEMMA SessionsCounted ==
  ASSUME IsFiniteSet(Session), NEW u, NEW T, T \subseteq Sessions(u)
  PROVE  /\ IsFiniteSet(Sessions(u)) /\ Cardinality(Sessions(u)) \in Nat
         /\ IsFiniteSet(T) /\ Cardinality(T) \in Nat
         /\ Cardinality(T) <= Cardinality(Sessions(u))
<1>1. Sessions(u) \in SUBSET Session
  BY DEF Sessions
<1>2. IsFiniteSet(Sessions(u))
  BY <1>1, FS_Subset
<1> QED
  BY <1>2, FS_Subset, FS_CardinalityType

LEMMA SmallerCounted ==
  ASSUME NEW S, IsFiniteSet(S), NEW T, T \subseteq S
  PROVE  /\ IsFiniteSet(T) /\ Cardinality(T) <= Cardinality(S)
         /\ Cardinality(S) \in Nat /\ Cardinality(T) \in Nat
<1>1. T \in SUBSET S
  OBVIOUS
<1> QED
  BY <1>1, FS_Subset, FS_CardinalityType

\* Handlers that are about to store orders store no more orders than they are.
LEMMA StoredCounted ==
  ASSUME IsFiniteSet(Session), NEW u, NEW S, S \subseteq Sessions(u), NEW f
  PROVE  /\ IsFiniteSet({f[s].order : s \in S})
         /\ Cardinality({f[s].order : s \in S}) <= Cardinality(Sessions(u))
<1> DEFINE T == {f[s].order : s \in S}
           g == [s \in S |-> f[s].order]
<1>1. IsFiniteSet(S) /\ Cardinality(S) <= Cardinality(Sessions(u))
      /\ Cardinality(S) \in Nat /\ Cardinality(Sessions(u)) \in Nat
  BY SessionsCounted
<1>2. g \in Surjection(S, T)
  BY DEF Surjection
<1> HIDE DEF g, T
<1>3. IsFiniteSet(T) /\ Cardinality(T) <= Cardinality(S)
  BY <1>1, <1>2, FS_Surjection
<1>4. Cardinality(T) \in Nat
  BY <1>3, FS_CardinalityType
<1>5. IsFiniteSet(T) /\ Cardinality(T) <= Cardinality(Sessions(u))
  BY <1>1, <1>3, <1>4
<1> QED
  BY <1>5 DEF T

LEMMA NextActives ==
  ASSUME IsFiniteSet(Session), Actives, ActiveStep
  PROVE  Actives'
<1> SUFFICES ASSUME NEW u \in User
             PROVE  /\ IsFiniteSet(Potential(u)')
                    /\ Cardinality(Potential(u)') <= Cardinality(Sessions(u))
  BY DEF Actives, Sessions
<1>1. IsFiniteSet(Potential(u)) /\ Cardinality(Potential(u)) <= Cardinality(Sessions(u))
  BY DEF Actives
<1>2. Cardinality(Sessions(u)) \in Nat
  BY SessionsCounted
<1>3. CASE Potential(u)' \subseteq Potential(u)
  BY <1>1, <1>2, <1>3, SmallerCounted
<1>4. CASE Potential(u)' \subseteq ToStore(u)'
  <2>1. Pending(u)' \subseteq Sessions(u)
    BY DEF Pending, Sessions
  <2>2. /\ IsFiniteSet({req'[s].order : s \in Pending(u)'})
        /\ Cardinality({req'[s].order : s \in Pending(u)'}) <= Cardinality(Sessions(u))
    BY <2>1, StoredCounted
  <2>3. IsFiniteSet(ToStore(u)') /\ Cardinality(ToStore(u)') <= Cardinality(Sessions(u))
    BY <2>2 DEF ToStore
  <2> QED
    BY <1>2, <1>4, <2>3, SmallerCounted
<1> QED
  BY <1>3, <1>4 DEF ActiveStep

\* However many requests of a user race, the user's active orders are never more
\* than the sessions: one of them can pass the check only while there is none.
THEOREM ActiveOrdersLimited ==
  ASSUME IsFiniteSet(Session)
  PROVE  Spec => []ActiveOrdersBounded
<1>1. Init => Actives
  <2> SUFFICES ASSUME Init, NEW u \in User
               PROVE  IsFiniteSet(Potential(u)) /\ Cardinality(Potential(u)) <= Cardinality(Sessions(u))
    BY DEF Actives
  <2>1. Potential(u) = {}
    <3>1. Active(u) = {}
      BY DEF Init, NoRow, Active, ActiveStatus
    <3>2. Pending(u) = {}
      BY DEF Init, Pending, Sessions, InTx, TxSteps
    <3> QED
      BY <3>1, <3>2 DEF Potential, ToStore
  <2>2. Cardinality(Sessions(u)) \in Nat
    BY SessionsCounted
  <2> QED
    BY <2>1, <2>2, FS_EmptySet
<1>2. Checked /\ Actives /\ [Next]_vars => (Checked /\ Actives)'
  BY NextChecked, NextActives
<1>3. Actives => ActiveOrdersBounded
  <2> SUFFICES ASSUME Actives, NEW u \in User
               PROVE  Cardinality(Active(u)) <= Cardinality(Sessions(u))
    BY DEF ActiveOrdersBounded, Active
  <2>1. IsFiniteSet(Potential(u)) /\ Cardinality(Potential(u)) <= Cardinality(Sessions(u))
    BY DEF Actives
  <2>2. Active(u) \subseteq Potential(u)
    BY DEF Potential
  <2>3. Cardinality(Sessions(u)) \in Nat
    BY SessionsCounted
  <2> QED
    BY <2>1, <2>2, <2>3, SmallerCounted
<1> QED
  BY <1>1, <1>2, <1>3, InitChecked, PTL DEF Spec

-----------------------------------------------------------------------------
\* One more operation, and one create less that can add another.
LEMMA LimitAfterCreate ==
  ASSUME IsFiniteSet(Session), Checked, Limits, UNCHANGED now,
         NEW t \in Session, NEW o \in OrderId, t \in Racing(UserOf[t]),
         operations' = operations \cup {[order |-> o, user |-> UserOf[t], at |-> now + Zone]},
         \A u \in User : Racing(u)' \subseteq Racing(u) \ {t}
  PROVE  Limits'
<1>0. PICK new : new = [order |-> o, user |-> UserOf[t], at |-> now + Zone]
  OBVIOUS
<1>1. /\ now \in Nat /\ Zone \in Int /\ RateLimitMinutes \in Nat
      /\ \A a \in operations : a.at \in Int /\ a.user \in User
  BY DataAssumption DEF Checked, Safe, TypeOK, Operation
<1>2. IsFiniteSet(operations') /\ \A a \in operations' : a.at <= (now + Zone)'
  <2>1. IsFiniteSet(operations')
    BY <1>0, FS_AddElement DEF Limits
  <2> QED
    BY <1>1, <2>1 DEF Limits
<1>3. UserOf[t] \in User /\ new.user = UserOf[t] /\ new.at = now + Zone
  BY <1>0, SessionsAssumption
<1>4. operations' = operations \cup {new}
  BY <1>0
<1>5. ASSUME NEW a \in operations
      PROVE  LimitBounded(a)'
  <2> DEFINE user == a.user
  <2>0. user \in User /\ a.at \in Int /\ a.at <= now + Zone
    BY <1>1 DEF Limits
  <2>1. IsFiniteSet(Burst(a)) /\ Cardinality(Burst(a)) \in Nat
    <3>1. Burst(a) \subseteq operations
      BY DEF Burst
    <3> QED
      BY <3>1, SmallerCounted DEF Limits
  <2>2. /\ IsFiniteSet(Racing(user)) /\ Cardinality(Racing(user)) \in Nat
        /\ Cardinality(Sessions(user)) \in Nat
    <3>1. Racing(user) \subseteq Sessions(user)
      BY DEF Racing
    <3> QED
      BY <3>1, SessionsCounted
  <2>3. /\ IsFiniteSet(Racing(user)') /\ Cardinality(Racing(user)') \in Nat
        /\ Cardinality(Racing(user)') <= Cardinality(Racing(user) \ {t})
        /\ Cardinality(Racing(user) \ {t}) \in Nat
    <3>1. Racing(user)' \subseteq Racing(user) \ {t}
      BY <2>0
    <3>2. IsFiniteSet(Racing(user) \ {t})
      BY <2>2, FS_RemoveElement
    <3> QED
      BY <3>1, <3>2, SmallerCounted
  <2>4. /\ Cardinality(Burst(a))
             + (IF Limited(a) THEN Cardinality(Racing(user)) ELSE 0) <= Cardinality(Sessions(user))
        /\ Limited(a)' <=> Limited(a)
    BY DEF Limits, LimitBounded, Limited
  <2>5. CASE user = UserOf[t] /\ Limited(a)
    <3>1. Burst(a)' \subseteq Burst(a) \cup {new}
      BY <1>4 DEF Burst
    <3>2. /\ IsFiniteSet(Burst(a) \cup {new})
          /\ Cardinality(Burst(a) \cup {new}) <= Cardinality(Burst(a)) + 1
          /\ Cardinality(Burst(a) \cup {new}) \in Nat
      <4>1. IsFiniteSet(Burst(a) \cup {new})
        BY <2>1, FS_AddElement
      <4>2. Cardinality(Burst(a) \cup {new}) =
              IF new \in Burst(a) THEN Cardinality(Burst(a)) ELSE Cardinality(Burst(a)) + 1
        BY <2>1, FS_AddElement
      <4> QED
        BY <2>1, <4>1, <4>2, FS_CardinalityType
    <3>3. /\ Cardinality(Burst(a)') \in Nat
          /\ Cardinality(Burst(a)') <= Cardinality(Burst(a) \cup {new})
      BY <3>1, <3>2, SmallerCounted
    <3>4. Cardinality(Racing(user) \ {t}) = Cardinality(Racing(user)) - 1
      BY <2>2, <2>5, FS_RemoveElement
    <3>5. Cardinality(Burst(a)') + Cardinality(Racing(user)') <= Cardinality(Sessions(user))
      BY <2>1, <2>2, <2>3, <2>4, <2>5, <3>2, <3>3, <3>4
    <3> QED
      BY <2>4, <2>5, <3>5 DEF LimitBounded, Sessions
  <2>6. CASE ~(user = UserOf[t] /\ Limited(a))
    <3>1. Burst(a)' \subseteq Burst(a)
      <4>1. new \notin Burst(a)'
        BY <1>1, <1>3, <2>0, <2>6 DEF Burst, Limited
      <4> QED
        BY <1>4, <4>1 DEF Burst
    <3>2. Cardinality(Burst(a)') \in Nat /\ Cardinality(Burst(a)') <= Cardinality(Burst(a))
      BY <2>1, <3>1, SmallerCounted
    <3>3. Cardinality(Racing(user)') <= Cardinality(Racing(user))
      <4>1. Racing(user) \ {t} \subseteq Racing(user)
        OBVIOUS
      <4>2. Cardinality(Racing(user) \ {t}) <= Cardinality(Racing(user))
        BY <2>2, <4>1, SmallerCounted
      <4> QED
        BY <2>2, <2>3, <4>2
    <3>4. Cardinality(Burst(a)') + (IF Limited(a) THEN Cardinality(Racing(user)') ELSE 0)
            <= Cardinality(Sessions(user))
      BY <2>1, <2>2, <2>3, <2>4, <3>2, <3>3
    <3> QED
      BY <2>4, <3>4 DEF LimitBounded, Sessions
  <2> QED
    BY <2>5, <2>6
<1>6. LimitBounded(new)'
  <2> DEFINE user == UserOf[t]
  <2>1. CASE \E c \in operations : c.user = user /\ c.at = new.at
    <3>1. PICK c \in operations : c.user = user /\ c.at = new.at
      BY <2>1
    <3>2. LimitBounded(c)'
      BY <1>5
    <3>3. Burst(new)' = Burst(c)' /\ (Limited(new)' <=> Limited(c)')
      BY <1>3, <3>1 DEF Burst, Limited
    <3> QED
      BY <1>3, <3>1, <3>2, <3>3 DEF LimitBounded
  <2>2. CASE \A c \in operations : c.user = user => c.at # new.at
    <3>1. Burst(new)' \subseteq {new}
      BY <1>1, <1>3, <1>4, <2>2 DEF Burst, Limits
    <3>2. IsFiniteSet({new}) /\ Cardinality({new}) = 1
      BY FS_Singleton
    <3>3. Cardinality(Burst(new)') \in Nat /\ Cardinality(Burst(new)') <= 1
      BY <3>1, <3>2, SmallerCounted
    <3>4. /\ IsFiniteSet(Racing(user)) /\ Cardinality(Racing(user)) \in Nat
          /\ Cardinality(Sessions(user)) \in Nat
          /\ Cardinality(Racing(user)) <= Cardinality(Sessions(user))
      <4>1. Racing(user) \subseteq Sessions(user)
        BY DEF Racing
      <4> QED
        BY <4>1, SessionsCounted
    <3>5. Cardinality(Racing(user) \ {t}) = Cardinality(Racing(user)) - 1
      BY <3>4, FS_RemoveElement
    <3>6. /\ Cardinality(Racing(user)') \in Nat
          /\ Cardinality(Racing(user)') <= Cardinality(Racing(user) \ {t})
      <4>1. Racing(user)' \subseteq Racing(user) \ {t}
        BY <1>3
      <4>2. IsFiniteSet(Racing(user) \ {t})
        BY <3>4, FS_RemoveElement
      <4> QED
        BY <4>1, <4>2, SmallerCounted
    <3>7. Cardinality(Burst(new)') + Cardinality(Racing(user)') <= Cardinality(Sessions(user))
      BY <3>3, <3>4, <3>5, <3>6
    <3>8. 1 <= Cardinality(Sessions(user))
      BY <3>4, <3>5, <3>6
    <3> QED
      BY <1>3, <3>3, <3>4, <3>7, <3>8 DEF LimitBounded, Sessions
  <2> QED
    BY <2>1, <2>2
<1> QED
  BY <1>2, <1>4, <1>5, <1>6 DEF Limits

\* No new operation: the creates that can add one grow only past the limit.
LEMMA LimitStays ==
  ASSUME IsFiniteSet(Session), Checked, Limits, operations' = operations, now' \in Nat, now' >= now,
         \A a \in operations : Limited(a)' => Racing(a.user)' \subseteq Racing(a.user)
  PROVE  Limits'
<1>1. /\ now \in Nat /\ Zone \in Int /\ RateLimitMinutes \in Nat
      /\ \A a \in operations : a.at \in Int /\ a.user \in User
  BY DataAssumption DEF Checked, Safe, TypeOK, Operation
<1>2. ASSUME NEW a \in operations
      PROVE  LimitBounded(a)'
  <2>1. Burst(a)' = Burst(a) /\ Sessions(a.user)' = Sessions(a.user)
    BY DEF Burst, Sessions
  <2>2. LimitBounded(a)
    BY DEF Limits
  <2>3. Limited(a)' => Limited(a)
    BY <1>1 DEF Limited
  <2>4. Cardinality(Burst(a)) \in Nat
    <3>1. Burst(a) \subseteq operations
      BY DEF Burst
    <3> QED
      BY <3>1, SmallerCounted DEF Limits
  <2>5. /\ IsFiniteSet(Racing(a.user)) /\ Cardinality(Racing(a.user)) \in Nat
        /\ Cardinality(Sessions(a.user)) \in Nat
    <3>1. Racing(a.user) \subseteq Sessions(a.user)
      BY DEF Racing
    <3> QED
      BY <3>1, SessionsCounted
  <2>6. Limited(a)' => /\ Cardinality(Racing(a.user)') \in Nat
                       /\ Cardinality(Racing(a.user)') <= Cardinality(Racing(a.user))
    BY <2>5, SmallerCounted
  <2>7. Cardinality(Burst(a)') + (IF Limited(a)' THEN Cardinality(Racing(a.user)') ELSE 0)
          <= Cardinality(Sessions(a.user)')
    BY <2>1, <2>2, <2>3, <2>4, <2>5, <2>6 DEF LimitBounded
  <2> QED
    BY <2>7 DEF LimitBounded
<1> QED
  BY <1>1, <1>2 DEF Limits

LEMMA NextLimits ==
  ASSUME IsFiniteSet(Session), Checked, Checked', Limits, LimitStep
  PROVE  Limits'
<1>1. now \in Nat /\ now' \in Nat /\ \A a \in operations : a.user \in User
  BY DEF Checked, Safe, TypeOK, Operation
<1>2. CASE /\ operations' = operations /\ now' >= now
           /\ \A u \in User : Racing(u)' \subseteq Racing(u)
  BY <1>1, <1>2, LimitStays
<1>3. CASE /\ UNCHANGED <<operations, now>>
           /\ \E t \in Session :
                /\ RateAllowed(UserOf[t])
                /\ \A u \in User : u # UserOf[t] => Racing(u)' \subseteq Racing(u)
  <2>1. PICK t \in Session :
          /\ RateAllowed(UserOf[t])
          /\ \A u \in User : u # UserOf[t] => Racing(u)' \subseteq Racing(u)
    BY <1>3
  <2>2. ASSUME NEW a \in operations, Limited(a)'
        PROVE  a.user # UserOf[t]
    <3>1. /\ now \in Nat /\ RateLimitMinutes \in Nat /\ a.at \in Int /\ now' = now
      BY <1>3, DataAssumption DEF Checked, Safe, TypeOK, Operation
    <3> QED
      BY <2>1, <2>2, <3>1 DEF RateAllowed, Limited
  <2>3. now' >= now
    BY <1>1, <1>3
  <2> QED
    BY <1>1, <1>3, <2>1, <2>2, <2>3, LimitStays
<1>4. CASE /\ UNCHANGED now
           /\ \E t \in Session, o \in OrderId :
                /\ t \in Racing(UserOf[t])
                /\ operations' = operations \cup
                                   {[order |-> o, user |-> UserOf[t], at |-> now + Zone]}
                /\ \A u \in User : Racing(u)' \subseteq Racing(u) \ {t}
  BY <1>4, LimitAfterCreate
<1> QED
  BY <1>2, <1>3, <1>4 DEF LimitStep

\* However a user's creates race, and whatever the server's time zone makes of the
\* limit, it lets one order per session through at most.
THEOREM RateLimitHolds ==
  ASSUME IsFiniteSet(Session)
  PROVE  Spec => []RateLimited
<1>1. Init => Limits
  BY FS_EmptySet DEF Init, Limits
<1>2. Checked /\ Limits /\ [Next]_vars => (Checked /\ Limits)'
  BY NextChecked, NextLimits
<1>3. Checked /\ Limits => RateLimited
  <2> SUFFICES ASSUME Checked, Limits, NEW a \in operations
               PROVE  Cardinality(Burst(a)) <= Cardinality(Sessions(a.user))
    BY DEF RateLimited
  <2>1. LimitBounded(a)
    BY DEF Limits
  <2>2. Cardinality(Burst(a)) \in Nat
    <3>1. Burst(a) \subseteq operations
      BY DEF Burst
    <3> QED
      BY <3>1, SmallerCounted DEF Limits
  <2>3. Racing(a.user) \subseteq Sessions(a.user)
    BY DEF Racing
  <2>4. Cardinality(Racing(a.user)) \in Nat /\ Cardinality(Sessions(a.user)) \in Nat
    BY <2>3, SessionsCounted
  <2> QED
    BY <2>1, <2>2, <2>4 DEF LimitBounded
<1> QED
  BY <1>1, <1>2, <1>3, InitChecked, PTL DEF Spec
=============================================================================

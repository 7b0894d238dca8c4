---------------------------- MODULE Search_proof ----------------------------
(* Proofs about Search, for any rows, writers and searches. *)
EXTENDS Search, FiniteSetTheorems, TLAPS

\* The locks a transaction has and has still to take: a step does not change them.
Asked(t) == t.held \cup UNION {t.plan[n] : n \in Stages}

\* The locks of an orderly transaction on row i, stage by stage.
RowsOf(i) == {Row(i, "update"), Row(i, "whole")}
DoisOf(i) == {Doi(i, k) : k \in Dois}
UuidsOf(i) == IF i \in Entrypoints THEN {Uuid(k) : k \in Uuids} ELSE {}
ViewOf(i) == {View(i)}
LateOf(i) ==
    IF i \in Gardens
    THEN {Link(l) : l \in {i} \X Members} \cup {Row(m, "share") : m \in Members}
    ELSE {}

Kind(i) == <<{}, {}, RowsOf(i), DoisOf(i), UuidsOf(i), ViewOf(i), LateOf(i)>>

\* Every lock of the first six stages is the last of its stage, and is taken when
\* nothing is left of the stages before.
OrderlyOK(t) ==
    /\ \A n \in Stages : t.plan[n] \subseteq Kind(t.item)[n]
    /\ \A n \in 1..6 : \A a, b \in t.plan[n] : a = b
    /\ \A a \in t.held : \E n \in Stages : a \in Kind(t.item)[n]
    /\ \A n \in Stages : t.held \cap Kind(t.item)[n] # {} => \A k \in 1..n : k < 7 => t.plan[k] = {}
    /\ t.plan[3] = {} => t.held \cap RowsOf(t.item) # {}

\* The associations a transaction adds have their rows locked, or will have.
LinksOK(t) ==
    /\ \A l \in t.added : l[1] = t.item /\ Row(l[2], "share") \in Asked(t)
    /\ t.added # {} /\ t.does = "update" => \E mode \in Modes : Row(t.item, mode) \in Asked(t)
    /\ t.does = "delete" =>
        t.text = None /\ t.added = {} /\ Row(t.item, "whole") \in Asked(t)
    /\ t.does = "insert" => t.text # None

\* The view it will commit has the document of its own text.
ViewOK(t) ==
    /\ t.text = None => t.plan[6] = {} /\ DOMAIN t.view = {}
    /\ t.text # None =>
        /\ View(t.item) \in t.held \cup t.plan[6]
        /\ \/ t.plan[6] # {} /\ \E n \in 1..5 : t.plan[n] # {}
           \/ t.item \in DOMAIN t.view /\ t.view[t.item] = Document(t.text)

TxOK(t) ==
    /\ t \in TxType
    /\ t.does # "nothing" => t.item \in Items
    /\ t.does = "nothing" => t.held = {} /\ t.plan = NoPlan /\ t.added = {}
    /\ LinksOK(t) /\ ViewOK(t)
    /\ t.orderly => t.does \in {"insert", "update"} /\ OrderlyOK(t)

TxInv == tx \in [Writers -> TxType] /\ \A w \in Writers : TxOK(tx[w])

\* Locks exclude each other, and a row that is locked is there.
LockInv ==
    /\ \A v, w \in Writers : v # w =>
        \A a \in tx[v].held, b \in tx[w].held : ~Conflict(a, b)
    /\ \A w \in Writers, i \in Items, mode \in Modes :
        Row(i, mode) \in tx[w].held =>
            rows[i] # None \/ (tx[w].does = "insert" /\ tx[w].item = i)

RowInv ==
    /\ rows \in [Items -> Texts \cup {None}]
    /\ docs \in [Items -> Texts \cup {None, Null}]
    /\ links \subseteq Gardens \X Members
    /\ \A l \in links : rows[l[1]] # None /\ rows[l[2]] # None

SearchInv == TxInv /\ LockInv /\ RowInv

-----------------------------------------------------------------------------
(* A request arrives *)

LEMMA NoViewType ==
    ASSUME NEW view, view = [j \in {} |-> None]
    PROVE  view \in UNION {[S -> Texts \cup {None, Null}] : S \in SUBSET Items} /\ DOMAIN view = {}
<1>1. view \in [{} -> Texts \cup {None, Null}] /\ DOMAIN view = {}
    OBVIOUS
<1>2. {} \in SUBSET Items
    OBVIOUS
<1> QED BY <1>1, <1>2

LEMMA NoTxOK == TxOK(NoTx) /\ NoTx \in TxType
<1>1. NoTx.view \in UNION {[S -> Texts \cup {None, Null}] : S \in SUBSET Items} /\ DOMAIN NoTx.view = {}
    BY NoViewType DEF NoTx
<1>2. NoPlan \in [Stages -> SUBSET Locks] /\ NoPlan[6] = {}
    BY DEF NoPlan, Stages
<1>3. NoTx \in TxType
    BY <1>1, <1>2 DEF NoTx, TxType
<1>4. LinksOK(NoTx) /\ ViewOK(NoTx)
    BY <1>1, <1>2 DEF LinksOK, ViewOK, NoTx
<1> QED BY <1>3, <1>4 DEF TxOK, NoTx

LEMMA InitHolds == Init => SearchInv
<1> SUFFICES ASSUME Init PROVE SearchInv
    OBVIOUS
<1>1. TxInv
    BY NoTxOK DEF Init, TxInv
<1>2. LockInv
    BY DEF Init, LockInv, NoTx
<1>3. RowInv
    BY DEF Init, RowInv
<1> QED BY <1>1, <1>2, <1>3 DEF SearchInv

\* What a request has to ask for when it begins.
LEMMA BegunOK ==
    ASSUME NEW t \in TxType, t.does # "nothing", t.item \in Items, t.held = {}, t.view = NoTx.view,
           \A l \in t.added : l[1] = t.item /\ \E n \in Stages : Row(l[2], "share") \in t.plan[n],
           t.added # {} /\ t.does = "update" =>
                \E mode \in Modes : \E n \in Stages : Row(t.item, mode) \in t.plan[n],
           t.does = "delete" =>
                t.text = None /\ t.added = {} /\ Row(t.item, "whole") \in t.plan[3],
           t.does = "insert" => t.text # None,
           t.plan[6] = IF t.text = None THEN {} ELSE {View(t.item)},
           t.text # None => t.plan[3] # {},
           t.orderly => /\ t.does # "delete" /\ t.plan[3] # {}
                        /\ \A n \in Stages : t.plan[n] \subseteq Kind(t.item)[n]
                        /\ \A n \in 1..6 : \A a, b \in t.plan[n] : a = b
    PROVE  TxOK(t)
<1>1. DOMAIN t.view = {}
    BY NoViewType DEF NoTx
<1>2. LinksOK(t)
    BY DEF LinksOK, Asked, Stages
<1>3. ViewOK(t)
    BY <1>1 DEF ViewOK
<1>4. t.orderly => OrderlyOK(t)
    BY DEF OrderlyOK
<1>5. t.orderly => t.does \in {"insert", "update"}
    BY DEF TxType
<1> QED BY <1>2, <1>3, <1>4, <1>5 DEF TxOK

\* A transaction that begins has no locks.
Begins(w) == \E t : TxOK(t) /\ t.held = {} /\ Begin(w, t)

LEMMA BeginKeeps ==
    ASSUME SearchInv, NEW w \in Writers, NEW t, TxOK(t), t.held = {}, Begin(w, t)
    PROVE  SearchInv'
<1>1. tx' = [tx EXCEPT ![w] = t] /\ UNCHANGED <<rows, docs, links>>
    BY DEF Begin
<1>2. t \in TxType
    BY DEF TxOK
<1>3. TxInv'
    BY <1>1, <1>2 DEF SearchInv, TxInv
<1>4. LockInv'
    BY <1>1 DEF SearchInv, LockInv, TxInv
<1>5. RowInv'
    BY <1>1 DEF SearchInv, RowInv
<1> QED BY <1>3, <1>4, <1>5 DEF SearchInv

\* Locks are locks.
LEMMA LockTypes ==
    /\ \A i \in Items, mode \in Modes : Row(i, mode) \in Locks
    /\ \A i \in Items, k \in Dois : Doi(i, k) \in Locks
    /\ \A k \in Uuids : Uuid(k) \in Locks
    /\ \A l \in Gardens \X Members : Link(l) \in Locks
    /\ \A i \in Items : View(i) \in Locks
<1>1. \A i \in Items, mode \in Modes : Row(i, mode) \in Locks
    BY DEF Locks
<1>2. \A i \in Items, k \in Dois : Doi(i, k) \in Locks
    BY DEF Locks
<1>3. /\ \A k \in Uuids : Uuid(k) \in Locks
      /\ \A l \in Gardens \X Members : Link(l) \in Locks
      /\ \A i \in Items : View(i) \in Locks
    BY DEF Locks
<1> QED BY <1>1, <1>2, <1>3

LEMMA PlanType ==
    ASSUME NEW a \in SUBSET Locks, NEW b \in SUBSET Locks, NEW c \in SUBSET Locks,
           NEW d \in SUBSET Locks, NEW e \in SUBSET Locks, NEW f \in SUBSET Locks,
           NEW g \in SUBSET Locks
    PROVE  /\ Plan(a, b, c, d, e, f, g) \in [Stages -> SUBSET Locks]
           /\ Plan(a, b, c, d, e, f, g)[1] = a /\ Plan(a, b, c, d, e, f, g)[2] = b
           /\ Plan(a, b, c, d, e, f, g)[3] = c /\ Plan(a, b, c, d, e, f, g)[4] = d
           /\ Plan(a, b, c, d, e, f, g)[5] = e /\ Plan(a, b, c, d, e, f, g)[6] = f
           /\ Plan(a, b, c, d, e, f, g)[7] = g
BY DEF Plan, Stages

LEMMA RefsType ==
    ASSUME NEW added \in SUBSET (Gardens \X Members), NEW dropped \in SUBSET (Gardens \X Members)
    PROVE  /\ Refs(added, dropped) \in SUBSET Locks
           /\ OwnRow(added) \in SUBSET Locks
           /\ \A l \in added : Row(l[2], "share") \in Refs(added, dropped)
           /\ \A l \in added : Row(l[1], "share") \in OwnRow(added)
BY LockTypes DEF Refs, OwnRow, Items, Modes

LEMMA KindStages ==
    ASSUME NEW i \in Items
    PROVE  /\ Kind(i)[1] = {} /\ Kind(i)[2] = {} /\ Kind(i)[3] = RowsOf(i) /\ Kind(i)[4] = DoisOf(i)
           /\ Kind(i)[5] = UuidsOf(i) /\ Kind(i)[6] = ViewOf(i) /\ Kind(i)[7] = LateOf(i)
BY DEF Kind

LEMMA PostBegins ==
    ASSUME SearchInv, NEW w \in Writers, NEW i \in Items, Post(w, i)
    PROVE  Begins(w)
<1>1. PICK text \in Texts, dois \in SUBSET Dois, uuids \in AtMostOne(Uuids), members \in SUBSET Known(Members) :
        /\ i \in Gardens \cup Entrypoints => dois \in AtMostOne(Dois)
        /\ i \in Members => members = {}
        /\ i \notin Entrypoints => uuids = {}
        /\ Begin(w, [NoTx EXCEPT
                !.does = "insert", !.item = i, !.text = text, !.added = {i} \X members,
                !.orderly = dois \in AtMostOne(Dois),
                !.plan = Plan({}, {}, {Row(i, "whole")}, {Doi(i, k) : k \in dois},
                              {Uuid(k) : k \in uuids}, ViewLock(i, text), Refs({i} \X members, {}))])
    BY DEF Post
<1> DEFINE added == {i} \X members
           orderly == dois \in AtMostOne(Dois)
           row == {Row(i, "whole")}
           D == {Doi(i, k) : k \in dois}
           U == {Uuid(k) : k \in uuids}
           V == ViewLock(i, text)
           late == Refs(added, {})
           plan == Plan({}, {}, row, D, U, V, late)
           t == [NoTx EXCEPT !.does = "insert", !.item = i, !.text = text, !.added = added,
                             !.orderly = orderly, !.plan = plan]
<1>2. members \in SUBSET Members /\ added \in SUBSET (Gardens \X Members) /\ orderly \in BOOLEAN
    BY <1>1 DEF Known, Items
<1>3. text # None /\ V = {View(i)}
    BY SearchAssumption DEF SearchAssumption, ViewLock
<1>4. uuids \in SUBSET Uuids
    BY DEF AtMostOne
<1>5. /\ row \in SUBSET Locks /\ D \in SUBSET Locks /\ U \in SUBSET Locks /\ V \in SUBSET Locks
      /\ late \in SUBSET Locks /\ {} \in SUBSET Locks
    BY <1>2, <1>3, <1>4, LockTypes, RefsType DEF Modes
<1> HIDE DEF added, orderly, row, D, U, V, late
<1>6. /\ plan \in [Stages -> SUBSET Locks] /\ plan[1] = {} /\ plan[2] = {} /\ plan[3] = row
      /\ plan[4] = D /\ plan[5] = U /\ plan[6] = V /\ plan[7] = late
    BY <1>5 DEF Plan, Stages
<1> HIDE DEF plan
<1>7. t \in TxType
    BY <1>2, <1>6, NoTxOK DEF TxType
<1>8. /\ t.does = "insert" /\ t.item = i /\ t.text = text /\ t.added = added /\ t.plan = plan
      /\ t.orderly = orderly /\ t.held = {} /\ t.view = NoTx.view
    BY NoTxOK DEF TxType, NoTx
<1>9. \A l \in added : l[1] = i /\ Row(l[2], "share") \in plan[7]
    BY <1>2, <1>6, RefsType DEF added, late
<1>10. late \subseteq LateOf(i)
    BY <1>1, <1>2 DEF Refs, LateOf, Items, added, late
<1>11. U \subseteq UuidsOf(i) /\ \A a, b \in U : a = b
    BY <1>1, <1>4 DEF UuidsOf, AtMostOne, U
<1>12. D \subseteq DoisOf(i) /\ (orderly => \A a, b \in D : a = b)
    BY <1>1 DEF DoisOf, AtMostOne, D, orderly
<1>13. \A n \in Stages : plan[n] \subseteq Kind(i)[n]
    BY <1>3, <1>6, <1>10, <1>11, <1>12, KindStages DEF RowsOf, ViewOf, Stages, row
<1>14. orderly => \A n \in 1..6 : \A a, b \in plan[n] : a = b
    BY <1>3, <1>6, <1>11, <1>12 DEF row
<1>15. plan[3] # {}
    BY <1>6 DEF row
<1> HIDE DEF t
<1>16. TxOK(t)
    BY <1>3, <1>6, <1>7, <1>8, <1>9, <1>13, <1>14, <1>15, BegunOK DEF Stages
<1>17. Begin(w, t)
    BY <1>1 DEF t, plan, added, orderly, row, D, U, V, late
<1> QED BY <1>8, <1>16, <1>17 DEF Begins

LEMMA UpdateMemberBegins ==
    ASSUME SearchInv, NEW w \in Writers, NEW i \in Members, UpdateMember(w, i)
    PROVE  Begins(w)
<1>1. PICK text \in Texts \cup {None}, dois \in AtMostOne(Dois), uuids \in AtMostOne(Uuids),
           left \in SUBSET ({Doi(i, k) : k \in Dois} \cup {Uuid(k) : k \in Uuids}) :
        /\ i \in Functions => left = {} /\ uuids = {}
        /\ Begin(w, [NoTx EXCEPT
                !.does = "update", !.item = i, !.text = text, !.orderly = left = {},
                !.plan = Plan({}, {}, RowLocks(i, left, dois \cup uuids),
                              {Doi(i, k) : k \in dois}, {Uuid(k) : k \in uuids},
                              ViewLock(i, text), {})])
    BY DEF UpdateMember
<1> DEFINE orderly == left = {}
           row == RowLocks(i, left, dois \cup uuids)
           D == {Doi(i, k) : k \in dois}
           U == {Uuid(k) : k \in uuids}
           V == ViewLock(i, text)
           plan == Plan({}, {}, row, D, U, V, {})
           t == [NoTx EXCEPT !.does = "update", !.item = i, !.text = text,
                             !.orderly = orderly, !.plan = plan]
<1>2. orderly \in BOOLEAN /\ i \in Items /\ row # {}
    BY DEF Items, RowLocks
<1>3. V = IF text = None THEN {} ELSE {View(i)}
    BY DEF ViewLock
<1>4. uuids \in SUBSET Uuids /\ dois \in SUBSET Dois
    BY DEF AtMostOne
<1>5. /\ row \in SUBSET Locks /\ D \in SUBSET Locks /\ U \in SUBSET Locks /\ V \in SUBSET Locks
      /\ {} \in SUBSET Locks
    BY <1>2, <1>3, <1>4, LockTypes DEF Modes, RowLocks
<1>6. U \subseteq UuidsOf(i) /\ \A a, b \in U : a = b
    BY <1>1, <1>4 DEF UuidsOf, AtMostOne, Members
<1>7. D \subseteq DoisOf(i) /\ \A a, b \in D : a = b
    BY <1>4 DEF DoisOf, AtMostOne
<1>8. orderly => row \subseteq RowsOf(i) /\ \A a, b \in row : a = b
    BY DEF RowLocks, RowsOf
<1> HIDE DEF orderly, row, D, U, V
<1>9. /\ plan \in [Stages -> SUBSET Locks] /\ plan[1] = {} /\ plan[2] = {} /\ plan[3] = row
      /\ plan[4] = D /\ plan[5] = U /\ plan[6] = V /\ plan[7] = {}
    BY <1>5 DEF Plan, Stages
<1> HIDE DEF plan
<1>10. t \in TxType
    BY <1>2, <1>9, NoTxOK DEF TxType
<1>11. /\ t.does = "update" /\ t.item = i /\ t.text = text /\ t.added = {} /\ t.plan = plan
       /\ t.orderly = orderly /\ t.held = {} /\ t.view = NoTx.view
    BY NoTxOK DEF TxType, NoTx
<1>12. orderly => \A n \in Stages : plan[n] \subseteq Kind(i)[n]
    BY <1>2, <1>3, <1>6, <1>7, <1>8, <1>9, KindStages DEF ViewOf, Stages
<1>13. orderly => \A n \in 1..6 : \A a, b \in plan[n] : a = b
    BY <1>3, <1>6, <1>7, <1>8, <1>9
<1> HIDE DEF t
<1>14. TxOK(t)
    BY <1>2, <1>3, <1>9, <1>10, <1>11, <1>12, <1>13, BegunOK
<1>15. Begin(w, t)
    BY <1>1 DEF t, plan, orderly, row, D, U, V
<1> QED BY <1>11, <1>14, <1>15 DEF Begins

LEMMA ChangeType ==
    ASSUME SearchInv, NEW g \in Gardens, NEW kind \in SUBSET Members, NEW members \in SUBSET kind
    PROVE  /\ Change(g, kind, members).added \in SUBSET ({g} \X Members)
           /\ Change(g, kind, members).dropped \in SUBSET ({g} \X Members)
BY DEF Change, SearchInv, RowInv

LEMMA PatchGardenBegins ==
    ASSUME SearchInv, NEW w \in Writers, NEW g \in Gardens, PatchGarden(w, g)
    PROVE  Begins(w)
<1>1. PICK text \in Texts \cup {None}, rowed \in BOOLEAN, eps \in SUBSET Known(Entrypoints) :
        /\ text # None => rowed
        /\ Begin(w, [NoTx EXCEPT
                !.does = "update", !.item = g, !.text = text,
                !.added = Change(g, Entrypoints, eps).added,
                !.dropped = Change(g, Entrypoints, eps).dropped, !.orderly = rowed,
                !.plan = Plan({}, {}, IF rowed THEN {Row(g, "update")} ELSE {}, {}, {},
                              ViewLock(g, text),
                              Refs(Change(g, Entrypoints, eps).added, Change(g, Entrypoints, eps).dropped)
                                  \cup IF rowed THEN {} ELSE OwnRow(Change(g, Entrypoints, eps).added))])
    BY DEF PatchGarden
<1> DEFINE added == Change(g, Entrypoints, eps).added
           dropped == Change(g, Entrypoints, eps).dropped
           row == IF rowed THEN {Row(g, "update")} ELSE {}
           V == ViewLock(g, text)
           late == Refs(added, dropped) \cup IF rowed THEN {} ELSE OwnRow(added)
           plan == Plan({}, {}, row, {}, {}, V, late)
           t == [NoTx EXCEPT !.does = "update", !.item = g, !.text = text, !.added = added,
                             !.dropped = dropped, !.orderly = rowed, !.plan = plan]
<1>2. g \in Items /\ (text # None => row # {}) /\ (rowed => row = {Row(g, "update")})
    BY <1>1 DEF Items
<1>3. V = IF text = None THEN {} ELSE {View(g)}
    BY DEF ViewLock
<1>4. added \in SUBSET ({g} \X Members) /\ dropped \in SUBSET ({g} \X Members)
    BY ChangeType DEF Known, Members
<1> HIDE DEF added, dropped
<1>5. added \in SUBSET (Gardens \X Members) /\ dropped \in SUBSET (Gardens \X Members)
    BY <1>4
<1>6. /\ row \in SUBSET Locks /\ V \in SUBSET Locks /\ late \in SUBSET Locks /\ {} \in SUBSET Locks
    BY <1>2, <1>3, <1>5, LockTypes, RefsType DEF Modes
<1>7. \A l \in added : l[1] = g /\ Row(l[2], "share") \in late
    BY <1>4, <1>5, RefsType
<1>8. added # {} => rowed \/ Row(g, "share") \in late
    BY <1>4, <1>5, RefsType
<1>9. rowed => late \subseteq LateOf(g)
    BY <1>4 DEF Refs, LateOf
<1> HIDE DEF row, V, late
<1>10. /\ plan \in [Stages -> SUBSET Locks] /\ plan[1] = {} /\ plan[2] = {} /\ plan[3] = row
       /\ plan[4] = {} /\ plan[5] = {} /\ plan[6] = V /\ plan[7] = late
    BY <1>6 DEF Plan, Stages
<1> HIDE DEF plan
<1>11. t \in TxType
    BY <1>2, <1>5, <1>10, NoTxOK DEF TxType
<1>12. /\ t.does = "update" /\ t.item = g /\ t.text = text /\ t.added = added /\ t.plan = plan
       /\ t.orderly = rowed /\ t.held = {} /\ t.view = NoTx.view
    BY NoTxOK DEF TxType, NoTx
<1>13. rowed => \A n \in Stages : plan[n] \subseteq Kind(g)[n]
    BY <1>2, <1>3, <1>9, <1>10, KindStages DEF RowsOf, ViewOf, Stages
<1>14. rowed => \A n \in 1..6 : \A a, b \in plan[n] : a = b
    BY <1>2, <1>3, <1>10
<1>15. added # {} => \E mode \in Modes : \E n \in Stages : Row(g, mode) \in plan[n]
    BY <1>2, <1>8, <1>10 DEF Modes, Stages
<1> HIDE DEF t
<1>16. TxOK(t)
    <2>1. \A l \in t.added : l[1] = t.item /\ \E n \in Stages : Row(l[2], "share") \in t.plan[n]
        BY <1>7, <1>10, <1>12 DEF Stages
    <2>2. t.plan[6] = IF t.text = None THEN {} ELSE {View(t.item)}
        BY <1>3, <1>10, <1>12
    <2>3. /\ t.text # None => t.plan[3] # {}
          /\ t.orderly => t.plan[3] # {}
        BY <1>2, <1>10, <1>12
    <2> QED BY <1>2, <1>11, <1>12, <1>13, <1>14, <1>15, <2>1, <2>2, <2>3, BegunOK
<1>17. Begin(w, t)
    BY <1>1 DEF t, plan, added, dropped, row, V, late
<1> QED BY <1>12, <1>16, <1>17 DEF Begins

LEMMA PutGardenBegins ==
    ASSUME SearchInv, NEW w \in Writers, NEW g \in Gardens, PutGarden(w, g)
    PROVE  Begins(w)
<1>1. PICK text \in Texts \cup {None}, rowed \in BOOLEAN, owner \in BOOLEAN,
           dois \in AtMostOne(Dois), left \in AtMostOne(Dois),
           eps \in SUBSET Known(Entrypoints), fns \in SUBSET Known(Functions) :
        LET e == Change(g, Entrypoints, eps)
            f == Change(g, Functions, fns)
        IN
        /\ rows[g] # None
        /\ left \cap dois = {}
        /\ text # None \/ left \cup dois # {} => rowed
        /\ owner => e.added \cup e.dropped # {}
        /\ Begin(w, [NoTx EXCEPT
                !.does = "update", !.item = g, !.text = text,
                !.added = e.added \cup f.added, !.dropped = e.dropped \cup f.dropped,
                !.plan = Plan(IF owner THEN {Row(g, "update")} ELSE {},
                              Refs(e.added, e.dropped) \cup IF owner THEN {} ELSE OwnRow(e.added),
                              IF rowed THEN RowLocks(g, {Doi(g, k) : k \in left}, dois) ELSE {},
                              {Doi(g, k) : k \in dois}, {}, ViewLock(g, text),
                              Refs(f.added, f.dropped)
                                  \cup IF owner \/ rowed THEN {} ELSE OwnRow(f.added))])
    BY DEF PutGarden
<1> DEFINE eAdded == Change(g, Entrypoints, eps).added
           eDropped == Change(g, Entrypoints, eps).dropped
           fAdded == Change(g, Functions, fns).added
           fDropped == Change(g, Functions, fns).dropped
           added == eAdded \cup fAdded
           dropped == eDropped \cup fDropped
           first == IF owner THEN {Row(g, "update")} ELSE {}
           early == Refs(eAdded, eDropped) \cup IF owner THEN {} ELSE OwnRow(eAdded)
           row == IF rowed THEN RowLocks(g, {Doi(g, k) : k \in left}, dois) ELSE {}
           D == {Doi(g, k) : k \in dois}
           V == ViewLock(g, text)
           late == Refs(fAdded, fDropped) \cup IF owner \/ rowed THEN {} ELSE OwnRow(fAdded)
           plan == Plan(first, early, row, D, {}, V, late)
           t == [NoTx EXCEPT !.does = "update", !.item = g, !.text = text, !.added = added,
                             !.dropped = dropped, !.plan = plan]
<1>2. /\ g \in Items /\ (text # None => row # {})
      /\ rowed => \E mode \in {"update", "whole"} : Row(g, mode) \in row
      /\ owner => Row(g, "update") \in first
    BY <1>1 DEF Items, RowLocks
<1>3. V = IF text = None THEN {} ELSE {View(g)}
    BY DEF ViewLock
<1>4. /\ eAdded \in SUBSET ({g} \X Members) /\ eDropped \in SUBSET ({g} \X Members)
      /\ fAdded \in SUBSET ({g} \X Members) /\ fDropped \in SUBSET ({g} \X Members)
    BY ChangeType DEF Known, Members
<1> HIDE DEF eAdded, eDropped, fAdded, fDropped
<1>5. /\ eAdded \in SUBSET (Gardens \X Members) /\ eDropped \in SUBSET (Gardens \X Members)
      /\ fAdded \in SUBSET (Gardens \X Members) /\ fDropped \in SUBSET (Gardens \X Members)
    BY <1>4
<1>6. dois \in SUBSET Dois /\ left \in SUBSET Dois
    BY DEF AtMostOne
<1>7. /\ Refs(eAdded, eDropped) \in SUBSET Locks /\ Refs(fAdded, fDropped) \in SUBSET Locks
      /\ OwnRow(eAdded) \in SUBSET Locks /\ OwnRow(fAdded) \in SUBSET Locks
    BY <1>5, RefsType
<1>8. /\ first \in SUBSET Locks /\ early \in SUBSET Locks /\ row \in SUBSET Locks
      /\ D \in SUBSET Locks /\ V \in SUBSET Locks /\ late \in SUBSET Locks /\ {} \in SUBSET Locks
    BY <1>2, <1>3, <1>6, <1>7, LockTypes DEF Modes, RowLocks
<1>9. /\ \A l \in eAdded : l[1] = g /\ Row(l[2], "share") \in early
      /\ \A l \in fAdded : l[1] = g /\ Row(l[2], "share") \in late
    BY <1>4, <1>5, RefsType
<1>10. /\ eAdded # {} => owner \/ Row(g, "share") \in early
       /\ fAdded # {} => owner \/ rowed \/ Row(g, "share") \in late
    BY <1>4, <1>5, RefsType
<1> HIDE DEF first, early, row, D, V, late
<1>11. /\ plan \in [Stages -> SUBSET Locks] /\ plan[1] = first /\ plan[2] = early /\ plan[3] = row
       /\ plan[4] = D /\ plan[5] = {} /\ plan[6] = V /\ plan[7] = late
    BY <1>8 DEF Plan, Stages
<1> HIDE DEF plan
<1>12. added \in SUBSET (Gardens \X Members) /\ dropped \in SUBSET (Gardens \X Members)
    BY <1>5
<1>13. \A l \in added : l[1] = g /\ \E n \in Stages : Row(l[2], "share") \in plan[n]
    BY <1>9, <1>11 DEF Stages
<1>14. added # {} => \E mode \in Modes : \E n \in Stages : Row(g, mode) \in plan[n]
    BY <1>2, <1>10, <1>11 DEF Modes, Stages
<1> HIDE DEF added, dropped
<1>15. t \in TxType
    BY <1>2, <1>11, <1>12, NoTxOK DEF TxType
<1>16. /\ t.does = "update" /\ t.item = g /\ t.text = text /\ t.added = added /\ t.plan = plan
       /\ t.orderly = FALSE /\ t.held = {} /\ t.view = NoTx.view
    BY NoTxOK DEF TxType, NoTx
<1> HIDE DEF t
<1>17. TxOK(t)
    <2>1. t.plan[6] = IF t.text = None THEN {} ELSE {View(t.item)}
        BY <1>3, <1>11, <1>16
    <2> QED BY <1>2, <1>11, <1>13, <1>14, <1>15, <1>16, <2>1, BegunOK
<1>18. Begin(w, t)
    BY <1>1 DEF t, plan, added, dropped, first, early, row, D, V, late, eAdded, eDropped, fAdded, fDropped
<1> QED BY <1>16, <1>17, <1>18 DEF Begins

LEMMA DeleteBegins ==
    ASSUME SearchInv, NEW w \in Writers, NEW i \in Items, Delete(w, i)
    PROVE  Begins(w)
<1>1. PICK left \in SUBSET ({Doi(i, k) : k \in Dois} \cup {Uuid(k) : k \in Uuids}) :
        Begin(w, [NoTx EXCEPT
                !.does = "delete", !.item = i, !.dropped = {l \in links : l[1] = i},
                !.plan = Plan({}, Refs({}, {l \in links : l[1] = i}),
                              {Row(i, "whole")} \cup left, {}, {}, {}, {})])
    BY DEF Delete
<1> DEFINE dropped == {l \in links : l[1] = i}
           early == Refs({}, dropped)
           row == {Row(i, "whole")} \cup left
           plan == Plan({}, early, row, {}, {}, {}, {})
           t == [NoTx EXCEPT !.does = "delete", !.item = i, !.dropped = dropped, !.plan = plan]
<1>2. dropped \in SUBSET (Gardens \X Members) /\ {} \in SUBSET (Gardens \X Members)
    BY DEF SearchInv, RowInv
<1> HIDE DEF dropped
<1>3. early \in SUBSET Locks /\ row \in SUBSET Locks /\ {} \in SUBSET Locks
    BY <1>2, RefsType, LockTypes DEF Modes
<1>4. Row(i, "whole") \in row
    OBVIOUS
<1> HIDE DEF early, row
<1>5. /\ plan \in [Stages -> SUBSET Locks] /\ plan[3] = row /\ plan[6] = {}
    BY <1>3 DEF Plan, Stages
<1> HIDE DEF plan
<1>6. t \in TxType
    BY <1>2, <1>5, NoTxOK DEF TxType
<1>7. /\ t.does = "delete" /\ t.item = i /\ t.text = None /\ t.added = {} /\ t.plan = plan
      /\ t.orderly = FALSE /\ t.held = {} /\ t.view = NoTx.view
    BY NoTxOK DEF TxType, NoTx
<1> HIDE DEF t
<1>8. TxOK(t)
    BY <1>4, <1>5, <1>6, <1>7, BegunOK
<1>9. Begin(w, t)
    BY <1>1 DEF t, plan, dropped, early, row
<1> QED BY <1>7, <1>8, <1>9 DEF Begins

LEMMA ArriveBegins ==
    ASSUME SearchInv, NEW w \in Writers, Arrive(w)
    PROVE  Begins(w)
BY PostBegins, DeleteBegins, UpdateMemberBegins, PutGardenBegins, PatchGardenBegins DEF Arrive

LEMMA ArriveKeeps ==
    ASSUME SearchInv, NEW w \in Writers, Arrive(w)
    PROVE  SearchInv'
BY ArriveBegins, BeginKeeps DEF Begins

-----------------------------------------------------------------------------
(* The other steps of a transaction *)

\* What a granted lock changes of the transaction.
LEMMA AcquireFields ==
    ASSUME SearchInv, NEW w \in Writers, NEW n \in Stages, NEW lock, Acquire(w, n, lock)
    PROVE  /\ \A v \in Writers : v # w => tx'[v] = tx[v]
           /\ lock \in tx[w].plan[n] /\ lock \in Locks
           /\ tx'[w].plan[n] = tx[w].plan[n] \ {lock}
           /\ \A k \in Stages : k # n => tx'[w].plan[k] = tx[w].plan[k]
           /\ tx'[w].does = tx[w].does /\ tx'[w].item = tx[w].item /\ tx'[w].text = tx[w].text
           /\ tx'[w].added = tx[w].added
           /\ tx'[w].orderly = tx[w].orderly
           /\ tx'[w].view =
                IF n < 6 /\ tx'[w].plan[6] # {} /\ \A k \in 1..5 : tx'[w].plan[k] = {}
                THEN Refreshed(tx[w].item, tx[w].text) ELSE tx[w].view
           /\ tx' = [tx EXCEPT ![w] = tx'[w]]
<1>1. tx[w] \in TxType
    BY DEF SearchInv, TxInv
<1>2. lock \in tx[w].plan[n] /\ lock \in Locks
    BY <1>1 DEF Acquire, TxType
<1> DEFINE plan == [tx[w].plan EXCEPT ![n] = @ \ {lock}]
           refreshes == n < 6 /\ plan[6] # {} /\ \A k \in 1..5 : plan[k] = {}
           view == IF refreshes THEN Refreshed(tx[w].item, tx[w].text) ELSE tx[w].view
           held == IF Absent(w, lock) THEN tx[w].held ELSE tx[w].held \cup {lock}
           dropped == IF Absent(w, lock) THEN tx[w].dropped \ {lock[2]} ELSE tx[w].dropped
<1>3. tx' = [tx EXCEPT ![w] = [tx[w] EXCEPT !.plan = plan, !.held = held, !.dropped = dropped, !.view = view]]
    BY <1>1 DEF Acquire, SearchInv, TxInv, TxType
<1> HIDE DEF view, plan, held, dropped
<1>4. tx'[w] = [tx[w] EXCEPT !.plan = plan, !.held = held, !.dropped = dropped, !.view = view]
    BY <1>3 DEF SearchInv, TxInv
<1>5. tx'[w].plan = plan /\ tx'[w].view = view
    BY <1>1, <1>4 DEF TxType
<1>6. /\ tx'[w].held = held /\ tx'[w].dropped = dropped
      /\ tx'[w].does = tx[w].does /\ tx'[w].item = tx[w].item /\ tx'[w].text = tx[w].text
      /\ tx'[w].added = tx[w].added
      /\ tx'[w].orderly = tx[w].orderly
    BY <1>1, <1>4 DEF TxType
<1>7. \A v \in Writers : v # w => tx'[v] = tx[v]
    BY <1>3 DEF SearchInv, TxInv
<1>8. tx' = [tx EXCEPT ![w] = tx'[w]]
    BY <1>3, <1>4 DEF SearchInv, TxInv
<1>9. plan[n] = tx[w].plan[n] \ {lock} /\ \A k \in Stages : k # n => plan[k] = tx[w].plan[k]
    <2>1. tx[w].plan \in [Stages -> SUBSET Locks]
        BY <1>1 DEF TxType
    <2> QED BY <2>1 DEF plan
<1>10. tx'[w].view = IF n < 6 /\ plan[6] # {} /\ \A k \in 1..5 : plan[k] = {}
                     THEN Refreshed(tx[w].item, tx[w].text) ELSE tx[w].view
    BY <1>5 DEF view, plan
<1> QED BY <1>2, <1>5, <1>6, <1>7, <1>8, <1>9, <1>10

LEMMA AcquireHeld ==
    ASSUME SearchInv, NEW w \in Writers, NEW n \in Stages, NEW lock, Acquire(w, n, lock)
    PROVE  /\ tx[w].held \subseteq tx'[w].held
           /\ lock[1] # "link" => lock \in tx'[w].held
           /\ \A a \in tx'[w].held : a \in tx[w].held \/ (a = lock /\ ~Absent(w, lock))
           /\ tx'[w].dropped \subseteq tx[w].dropped
<1>1. tx[w] \in TxType
    BY DEF SearchInv, TxInv
<1>2. /\ tx'[w].held = IF Absent(w, lock) THEN tx[w].held ELSE tx[w].held \cup {lock}
      /\ tx'[w].dropped = IF Absent(w, lock) THEN tx[w].dropped \ {lock[2]} ELSE tx[w].dropped
    BY <1>1 DEF Acquire, SearchInv, TxInv, TxType
<1>3. lock[1] # "link" => ~Absent(w, lock)
    BY DEF Absent
<1> QED BY <1>2, <1>3

\* The documents a trigger computes, with the one of the row it fires for.
LEMMA RefreshedIndexes ==
    ASSUME SearchInv, NEW i \in Items, NEW text \in Texts \cup {None}
    PROVE  /\ Refreshed(i, text) \in UNION {[S -> Texts \cup {None, Null}] : S \in SUBSET Items}
           /\ i \in DOMAIN Refreshed(i, text)
           /\ Refreshed(i, text)[i] = Document(text)
<1> DEFINE S == {k \in Items : TableOf(k) = TableOf(i)}
<1>1. \A t \in Texts \cup {None} : Document(t) \in Texts \cup {None, Null}
    BY DEF Document
<1>2. Snapshot(i) \in [S -> Texts \cup {None, Null}] /\ i \in S
    BY <1>1 DEF Snapshot, SearchInv, RowInv
<1>3. Refreshed(i, text) \in [S -> Texts \cup {None, Null}] /\ Refreshed(i, text)[i] = Document(text)
    BY <1>1, <1>2 DEF Refreshed
<1> QED BY <1>2, <1>3

LEMMA AcquireType ==
    ASSUME SearchInv, NEW w \in Writers, NEW n \in Stages, NEW lock, Acquire(w, n, lock)
    PROVE  tx'[w] \in TxType /\ tx[w].item \in Items /\ tx[w].does # "nothing"
<1>1. tx[w] \in TxType /\ TxOK(tx[w])
    BY DEF SearchInv, TxInv
<1>2. tx[w].does # "nothing"
    BY <1>1, AcquireFields DEF TxOK, NoPlan
<1>3. tx[w].item \in Items /\ tx[w].text \in Texts \cup {None}
    BY <1>1, <1>2 DEF TxOK, TxType
<1>4. /\ tx'[w].plan \in [Stages -> SUBSET Locks] /\ tx'[w].held \in SUBSET Locks
      /\ tx'[w].dropped \in SUBSET (Gardens \X Members)
    <2>1. /\ tx[w].plan \in [Stages -> SUBSET Locks] /\ tx[w].held \in SUBSET Locks
          /\ tx[w].dropped \in SUBSET (Gardens \X Members)
        BY <1>1 DEF TxType
    <2>2. tx'[w].plan = [tx[w].plan EXCEPT ![n] = @ \ {lock}]
        BY <1>1 DEF Acquire, SearchInv, TxInv, TxType
    <2> QED BY <2>1, <2>2, AcquireFields, AcquireHeld
<1>5. tx'[w].view \in UNION {[S -> Texts \cup {None, Null}] : S \in SUBSET Items}
    <2>1. tx'[w].view \in {Refreshed(tx[w].item, tx[w].text), tx[w].view}
        BY AcquireFields
    <2>2. tx[w].view \in UNION {[S -> Texts \cup {None, Null}] : S \in SUBSET Items}
        BY <1>1 DEF TxType
    <2> QED BY <1>3, <2>1, <2>2, RefreshedIndexes
<1> DEFINE Changed(plan, held, dropped, view) ==
            [tx[w] EXCEPT !.plan = plan, !.held = held, !.dropped = dropped, !.view = view]
<1>6. tx'[w] = Changed(tx'[w].plan, tx'[w].held, tx'[w].dropped, tx'[w].view)
    BY <1>1 DEF Acquire, SearchInv, TxInv, TxType
<1>7. \A plan \in [Stages -> SUBSET Locks], held \in SUBSET Locks,
         dropped \in SUBSET (Gardens \X Members),
         view \in UNION {[S -> Texts \cup {None, Null}] : S \in SUBSET Items} :
        Changed(plan, held, dropped, view) \in TxType
    BY <1>1 DEF TxType
<1> HIDE DEF Changed
<1> QED BY <1>2, <1>3, <1>4, <1>5, <1>6, <1>7

LEMMA AcquireLinks ==
    ASSUME SearchInv, NEW w \in Writers, NEW n \in Stages, NEW lock, Acquire(w, n, lock)
    PROVE  LinksOK(tx'[w])
<1>1. tx[w] \in TxType /\ LinksOK(tx[w])
    BY DEF SearchInv, TxInv, TxOK
<1>2. \A i, mode : Row(i, mode) \in Asked(tx[w]) => Row(i, mode) \in Asked(tx'[w])
    <2> SUFFICES ASSUME NEW a \in Asked(tx[w]), a[1] = "row" PROVE a \in Asked(tx'[w])
        BY DEF Row
    <2>1. tx[w].held \subseteq tx'[w].held /\ (lock = a => lock \in tx'[w].held)
        BY AcquireHeld
    <2>2. ASSUME NEW k \in Stages, a \in tx[w].plan[k] PROVE a = lock \/ a \in tx'[w].plan[k]
        BY <2>2, AcquireFields
    <2> QED BY <2>1, <2>2 DEF Asked
<1> QED BY <1>1, <1>2, AcquireFields DEF LinksOK

LEMMA AcquireView ==
    ASSUME SearchInv, NEW w \in Writers, NEW n \in Stages, NEW lock, Acquire(w, n, lock)
    PROVE  ViewOK(tx'[w])
<1>1. tx[w] \in TxType /\ ViewOK(tx[w]) /\ tx[w].item \in Items
    BY AcquireType DEF SearchInv, TxInv, TxOK
<1>2. /\ \A k \in Stages : k # n => tx'[w].plan[k] = tx[w].plan[k]
      /\ tx'[w].plan[n] = tx[w].plan[n] \ {lock}
    BY AcquireFields
<1>3. \A k \in 1..(n - 1) : tx[w].plan[k] = {}
    BY DEF Acquire, Before
<1>4. CASE tx[w].text = None
    <2>1. tx[w].plan[6] = {} /\ DOMAIN tx[w].view = {}
        BY <1>1, <1>4 DEF ViewOK
    <2>2. tx'[w].plan[6] = {}
        BY <1>2, <2>1 DEF Stages
    <2>3. tx'[w].view = tx[w].view /\ tx'[w].text = None
        BY <1>4, <2>2, AcquireFields
    <2> QED BY <2>1, <2>2, <2>3 DEF ViewOK
<1>5. CASE tx[w].text # None /\ n < 6
    <2>1. tx'[w].plan[6] = tx[w].plan[6]
        BY <1>2, <1>5 DEF Stages
    <2>2. CASE \A k \in 1..5 : tx'[w].plan[k] = {}
        <3>1. CASE tx[w].plan[6] # {}
            <4>1. tx'[w].view = Refreshed(tx[w].item, tx[w].text)
                BY <1>5, <2>1, <2>2, <3>1, AcquireFields
            <4>2. tx[w].text \in Texts \cup {None}
                BY <1>1 DEF TxType
            <4>3. tx[w].item \in DOMAIN tx'[w].view /\ tx'[w].view[tx[w].item] = Document(tx[w].text)
                BY <1>1, <4>1, <4>2, RefreshedIndexes
            <4> QED BY <1>1, <1>5, <2>1, <4>3, AcquireFields, AcquireHeld DEF ViewOK
        <3>2. CASE tx[w].plan[6] = {}
            <4>1. tx'[w].view = tx[w].view
                BY <2>1, <3>2, AcquireFields
            <4> QED BY <1>1, <1>5, <2>1, <3>2, <4>1, AcquireFields, AcquireHeld DEF ViewOK
        <3> QED BY <3>1, <3>2
    <2>3. CASE \E k \in 1..5 : tx'[w].plan[k] # {}
        <3>1. tx'[w].view = tx[w].view
            BY <2>3, AcquireFields
        <3> QED BY <1>1, <1>5, <2>1, <2>3, <3>1, AcquireFields, AcquireHeld DEF ViewOK
    <2> QED BY <2>2, <2>3
<1>6. CASE tx[w].text # None /\ ~(n < 6)
    <2>1. /\ tx'[w].view = tx[w].view
          /\ tx'[w].text = tx[w].text /\ tx'[w].item = tx[w].item
          /\ tx[w].held \subseteq tx'[w].held /\ lock \in tx[w].plan[n]
          /\ lock = View(tx[w].item) => lock \in tx'[w].held
        BY <1>6, AcquireFields, AcquireHeld DEF View
    <2>2. \A k \in 1..5 : tx[w].plan[k] = {}
        BY <1>3, <1>6 DEF Stages
    <2>3. tx[w].plan[6] \subseteq tx'[w].plan[6] \cup {lock}
        BY <1>2 DEF Stages
    <2> QED BY <1>1, <1>6, <2>1, <2>2, <2>3 DEF ViewOK
<1> QED BY <1>4, <1>5, <1>6

\* What the locks of each stage are.
LEMMA KindFields ==
    ASSUME NEW i \in Items, NEW m \in Stages, NEW a, a \in Kind(i)[m]
    PROVE  \/ m = 3 /\ a[1] = "row" /\ a[2] = i /\ a[3] \in {"update", "whole"}
           \/ m = 4 /\ a[1] = "doi" /\ a[2][1] = TableOf(i)
           \/ m = 5 /\ a[1] = "uuid" /\ i \in Entrypoints
           \/ m = 6 /\ a[1] = "view" /\ a[2] = TableOf(i)
           \/ m = 7 /\ i \in Gardens /\ a[1] = "link" /\ a[2][1] = i
           \/ m = 7 /\ i \in Gardens /\ a[1] = "row" /\ a[2] \in Members /\ a[3] = "share"
<1>1. CASE m = 3
    BY <1>1, KindStages DEF RowsOf, Row
<1>2. CASE m = 4
    <2>1. PICK k \in Dois : a = Doi(i, k)
        BY <1>2, KindStages DEF DoisOf
    <2> QED BY <1>2, <2>1 DEF Doi
<1>3. CASE m = 5
    <2>1. i \in Entrypoints
        BY <1>3, KindStages DEF UuidsOf
    <2>2. PICK k \in Uuids : a = Uuid(k)
        BY <1>3, <2>1, KindStages DEF UuidsOf
    <2> QED BY <1>3, <2>1, <2>2 DEF Uuid
<1>4. CASE m = 6
    BY <1>4, KindStages DEF ViewOf, View
<1>5. CASE m = 7
    <2>1. i \in Gardens
        BY <1>5, KindStages DEF LateOf
    <2>2. a \in {Link(l) : l \in {i} \X Members} \cup {Row(k, "share") : k \in Members}
        BY <1>5, <2>1, KindStages DEF LateOf
    <2>3. CASE a \in {Link(l) : l \in {i} \X Members}
        <3>1. PICK l \in {i} \X Members : a = Link(l)
            BY <2>3
        <3> QED BY <1>5, <2>1, <3>1 DEF Link
    <2>4. CASE a \in {Row(k, "share") : k \in Members}
        BY <1>5, <2>1, <2>4 DEF Row
    <2> QED BY <2>2, <2>3, <2>4
<1>6. CASE m \in {1, 2}
    BY <1>6, KindStages
<1> QED BY <1>1, <1>2, <1>3, <1>4, <1>5, <1>6 DEF Stages

\* A lock is of one kind.
LEMMA KindsApart ==
    ASSUME NEW i \in Items, NEW m \in Stages, NEW n \in Stages, m # n,
           NEW a, a \in Kind(i)[m], a \in Kind(i)[n]
    PROVE  FALSE
BY KindFields

LEMMA AcquireOrderly ==
    ASSUME SearchInv, NEW w \in Writers, NEW n \in Stages, NEW lock, Acquire(w, n, lock),
           tx[w].orderly
    PROVE  OrderlyOK(tx'[w])
<1> DEFINE i == tx[w].item
           K == Kind(i)
<1>1. tx[w] \in TxType /\ OrderlyOK(tx[w]) /\ i \in Items
    BY AcquireType DEF SearchInv, TxInv, TxOK
<1>2. /\ \A k \in Stages : k # n => tx'[w].plan[k] = tx[w].plan[k]
      /\ tx'[w].plan[n] = tx[w].plan[n] \ {lock}
      /\ \A k \in Stages : tx'[w].plan[k] \subseteq tx[w].plan[k]
    BY AcquireFields
<1>3. \A k \in 1..(n - 1) : tx[w].plan[k] = {}
    BY DEF Acquire, Before
<1>4. /\ tx'[w].item = i /\ lock \in tx[w].plan[n]
      /\ tx[w].held \subseteq tx'[w].held /\ tx'[w].held \subseteq tx[w].held \cup {lock}
      /\ lock[1] = "row" => lock \in tx'[w].held
    BY AcquireFields, AcquireHeld
<1>5. lock \in K[n] /\ \A m \in Stages : lock \in K[m] => m = n
    BY <1>1, <1>4, KindsApart DEF OrderlyOK
<1>6. \A k \in 1..n : k < 7 => tx'[w].plan[k] = {}
    <2> SUFFICES ASSUME NEW k \in 1..n, k < 7 PROVE tx'[w].plan[k] = {}
        OBVIOUS
    <2>1. CASE k = n
        <3>1. \A b \in tx[w].plan[n] : b = lock
            BY <1>1, <1>4, <2>1 DEF OrderlyOK, Stages
        <3> QED BY <1>2, <2>1, <3>1
    <2>2. CASE k # n
        BY <1>2, <1>3, <2>2 DEF Stages
    <2> QED BY <2>1, <2>2
<1> HIDE DEF K, i
<1>7. ASSUME NEW m \in Stages, tx'[w].held \cap K[m] # {}
      PROVE  \A k \in 1..m : k < 7 => tx'[w].plan[k] = {}
    <2>1. CASE m = n
        BY <1>6, <2>1
    <2>2. CASE m # n
        <3>1. tx[w].held \cap K[m] # {}
            BY <1>4, <1>5, <1>7, <2>2
        <3>2. \A k \in 1..m : k < 7 => tx[w].plan[k] = {}
            BY <1>1, <3>1 DEF OrderlyOK, K, i
        <3> QED BY <1>2, <3>2 DEF Stages
    <2> QED BY <2>1, <2>2
<1>8. tx'[w].plan[3] = {} => tx'[w].held \cap RowsOf(i) # {}
    <2>1. CASE n = 3
        BY <1>1, <1>4, <1>5, <2>1, KindStages DEF K, RowsOf, Row
    <2>2. CASE n # 3
        BY <1>1, <1>2, <1>4, <2>2 DEF OrderlyOK, Stages, i
    <2> QED BY <2>1, <2>2
<1>9. \A k \in Stages : tx'[w].plan[k] \subseteq K[k]
    BY <1>1, <1>2 DEF OrderlyOK, K, i
<1>10. \A k \in 1..6 : \A a, b \in tx'[w].plan[k] : a = b
    BY <1>1, <1>2 DEF OrderlyOK, Stages
<1>11. \A a \in tx'[w].held : \E k \in Stages : a \in K[k]
    BY <1>1, <1>4, <1>5 DEF OrderlyOK, K, i
<1> QED BY <1>4, <1>7, <1>8, <1>9, <1>10, <1>11 DEF OrderlyOK, K

LEMMA AcquireKeeps ==
    ASSUME SearchInv, NEW w \in Writers, NEW n \in Stages, NEW lock, Acquire(w, n, lock)
    PROVE  SearchInv'
<1>1. UNCHANGED <<rows, docs, links>>
    BY DEF Acquire
<1>2. TxInv'
    <2>1. TxOK(tx'[w])
        <3>1. TxOK(tx[w])
            BY DEF SearchInv, TxInv
        <3> QED BY <3>1, AcquireType, AcquireLinks, AcquireView, AcquireOrderly, AcquireFields DEF TxOK
    <2>2. tx' \in [Writers -> TxType]
        BY AcquireFields, AcquireType DEF SearchInv, TxInv
    <2>3. \A v \in Writers : v # w => TxOK(tx'[v])
        BY AcquireFields DEF SearchInv, TxInv
    <2> QED BY <2>1, <2>2, <2>3 DEF TxInv
<1>3. LockInv'
    <2>1. ~Absent(w, lock) =>
            \A v \in Writers : v # w => \A b \in tx[v].held : ~Conflict(lock, b) /\ ~Conflict(b, lock)
        BY DEF Acquire, Blocks, Conflict, Compatible
    <2>2. \A i \in Items, mode \in Modes : lock = Row(i, mode) =>
            rows[i] # None \/ (tx[w].does = "insert" /\ tx[w].item = i)
        BY DEF Acquire, Found, Row
    <2>3. /\ \A a \in tx'[w].held : a \in tx[w].held \/ (a = lock /\ ~Absent(w, lock))
          /\ tx'[w].does = tx[w].does /\ tx'[w].item = tx[w].item
          /\ \A v \in Writers : v # w => tx'[v] = tx[v]
        BY AcquireFields, AcquireHeld
    <2>4. ASSUME NEW u \in Writers, NEW v \in Writers, u # v,
                 NEW a \in tx'[u].held, NEW b \in tx'[v].held
          PROVE  ~Conflict(a, b)
        BY <2>1, <2>3, <2>4 DEF SearchInv, LockInv
    <2>5. ASSUME NEW v \in Writers, NEW i \in Items, NEW mode \in Modes, Row(i, mode) \in tx'[v].held
          PROVE  rows'[i] # None \/ (tx'[v].does = "insert" /\ tx'[v].item = i)
        BY <1>1, <2>2, <2>3, <2>5 DEF SearchInv, LockInv
    <2> QED BY <2>4, <2>5 DEF LockInv
<1>4. RowInv'
    BY <1>1 DEF SearchInv, RowInv
<1> QED BY <1>2, <1>3, <1>4 DEF SearchInv

\* A transaction ends: its locks are gone.
LEMMA EndKeeps ==
    ASSUME SearchInv, NEW w \in Writers, tx' = [tx EXCEPT ![w] = NoTx],
           \A v \in Writers, i \in Items, mode \in Modes :
                v # w /\ Row(i, mode) \in tx[v].held /\ rows[i] # None => rows'[i] # None
    PROVE  TxInv' /\ LockInv'
<1>1. /\ \A v \in Writers : v # w => tx'[v] = tx[v]
      /\ tx'[w] = NoTx
    BY DEF SearchInv, TxInv
<1>2. TxInv'
    BY <1>1, NoTxOK DEF SearchInv, TxInv
<1>3. tx'[w].held = {}
    BY <1>1 DEF NoTx
<1>4. ASSUME NEW u \in Writers, NEW v \in Writers, u # v, NEW a \in tx'[u].held, NEW b \in tx'[v].held
      PROVE  ~Conflict(a, b)
    <2>1. u # w /\ v # w
        BY <1>3, <1>4
    <2> QED BY <1>1, <1>4, <2>1 DEF SearchInv, LockInv
<1>5. ASSUME NEW v \in Writers, NEW i \in Items, NEW mode \in Modes, Row(i, mode) \in tx'[v].held
      PROVE  rows'[i] # None \/ (tx'[v].does = "insert" /\ tx'[v].item = i)
    <2>1. v # w
        BY <1>3, <1>5
    <2> QED BY <1>1, <1>5, <2>1 DEF SearchInv, LockInv
<1>6. LockInv'
    BY <1>4, <1>5 DEF LockInv
<1> QED BY <1>2, <1>6

LEMMA RollbackKeeps ==
    ASSUME SearchInv, NEW w \in Writers, Rollback(w)
    PROVE  SearchInv'
<1>1. tx' = [tx EXCEPT ![w] = NoTx] /\ UNCHANGED <<rows, docs, links>>
    BY DEF Rollback
<1>2. TxInv' /\ LockInv'
    BY <1>1, EndKeeps
<1>3. RowInv'
    BY <1>1 DEF SearchInv, RowInv
<1> QED BY <1>2, <1>3 DEF SearchInv

\* When a transaction commits, it has every lock that it asked for.
LEMMA AllHeld ==
    ASSUME SearchInv, NEW w \in Writers, Commit(w)
    PROVE  /\ TxOK(tx[w]) /\ tx[w] \in TxType
           /\ tx[w].does \in {"insert", "update", "delete"} /\ tx[w].item \in Items
           /\ \A n \in Stages : tx[w].plan[n] = {}
           /\ \A a \in Asked(tx[w]) : a \in tx[w].held
<1>1. TxOK(tx[w]) /\ tx[w] \in TxType
    BY DEF SearchInv, TxInv
<1>2. tx[w].does \in {"insert", "update", "delete"} /\ tx[w].item \in Items
    BY <1>1 DEF TxOK, TxType, Commit, Active
<1>3. \A n \in Stages : tx[w].plan[n] = {}
    BY DEF Commit, Planned
<1>4. \A a \in Asked(tx[w]) : a \in tx[w].held
    BY <1>3 DEF Asked
<1> QED BY <1>1, <1>2, <1>3, <1>4

LEMMA CommitRows ==
    ASSUME SearchInv, NEW w \in Writers, Commit(w)
    PROVE  /\ rows' \in [Items -> Texts \cup {None}]
           /\ \A i \in Items : rows[i] # None /\ rows'[i] = None =>
                tx[w].does = "delete" /\ i = tx[w].item /\ Row(i, "whole") \in tx[w].held
           /\ tx[w].does = "insert" => rows'[tx[w].item] # None
           /\ tx[w].text = None =>
                /\ UNCHANGED docs
                /\ \A i \in Items : rows'[i] # None => rows[i] = rows'[i]
<1> DEFINE i == tx[w].item
           text == tx[w].text
<1>1. text \in Texts \cup {None} /\ i \in Items
    BY AllHeld DEF TxType
<1>2. rows' = IF text # None \/ tx[w].does = "delete" THEN [rows EXCEPT ![i] = text] ELSE rows
    BY DEF Commit
<1>3. rows \in [Items -> Texts \cup {None}] /\ docs \in [Items -> Texts \cup {None, Null}]
    BY DEF SearchInv, RowInv
<1>4. tx[w].does = "delete" => text = None /\ Row(i, "whole") \in tx[w].held
    BY AllHeld DEF TxOK, LinksOK
<1>5. tx[w].does = "insert" => text # None
    BY AllHeld DEF TxOK, LinksOK
<1>6. text = None => UNCHANGED docs
    <2> SUFFICES ASSUME text = None PROVE docs' = docs
        OBVIOUS
    <2>1. DOMAIN tx[w].view = {}
        BY AllHeld DEF TxOK, ViewOK
    <2>2. docs' = [j \in Items |-> IF j \in DOMAIN tx[w].view THEN tx[w].view[j] ELSE docs[j]]
        BY DEF Commit
    <2>3. docs' = [j \in Items |-> docs[j]]
        BY <2>1, <2>2
    <2> QED BY <1>3, <2>3
<1> QED BY <1>1, <1>2, <1>3, <1>4, <1>5, <1>6

LEMMA CommitKeeps ==
    ASSUME SearchInv, NEW w \in Writers, Commit(w)
    PROVE  SearchInv'
<1> DEFINE i == tx[w].item
<1>1. /\ docs' = [j \in Items |-> IF j \in DOMAIN tx[w].view THEN tx[w].view[j] ELSE docs[j]]
      /\ links' = (links \ tx[w].dropped) \cup tx[w].added
      /\ tx' = [tx EXCEPT ![w] = NoTx]
    BY DEF Commit
<1>2. /\ tx[w].added \subseteq Gardens \X Members /\ i \in Items
      /\ tx[w].view \in UNION {[S -> Texts \cup {None, Null}] : S \in SUBSET Items}
      /\ LinksOK(tx[w])
    BY AllHeld DEF TxType, TxOK
<1>3. TxInv' /\ LockInv'
    <2>1. ASSUME NEW v \in Writers, v # w, NEW j \in Items, NEW mode \in Modes,
                 Row(j, mode) \in tx[v].held, rows[j] # None, rows'[j] = None
          PROVE  FALSE
        <3>1. j = i /\ Row(j, "whole") \in tx[w].held
            BY <2>1, CommitRows
        <3>2. Conflict(Row(j, mode), Row(j, "whole"))
            BY DEF Conflict, Row, Compatible, Modes
        <3> QED BY <2>1, <3>1, <3>2 DEF SearchInv, LockInv
    <2> QED BY <1>1, <2>1, EndKeeps
<1>4. docs' \in [Items -> Texts \cup {None, Null}]
    BY <1>1, <1>2 DEF SearchInv, RowInv
<1>5. links' \subseteq Gardens \X Members
    BY <1>1, <1>2 DEF SearchInv, RowInv
<1>6. ASSUME NEW l \in tx[w].added PROVE rows'[l[1]] # None /\ rows'[l[2]] # None
    <2>1. l[1] = i /\ i \in Gardens /\ l[2] \in Members /\ l[2] \in Items
        BY <1>2 DEF LinksOK, Items
    <2>2. tx[w].does # "delete"
        BY <1>2 DEF LinksOK
    <2>3. \A j \in Items, mode \in Modes : Row(j, mode) \in tx[w].held =>
            rows[j] # None \/ (tx[w].does = "insert" /\ i = j)
        BY DEF SearchInv, LockInv
    <2>4. Row(l[2], "share") \in tx[w].held
        BY <1>2, AllHeld DEF LinksOK
    <2>5. rows[l[2]] # None
        BY <2>1, <2>3, <2>4, SearchAssumption DEF SearchAssumption, Modes
    <2>6. rows[i] # None \/ tx[w].does = "insert"
        BY <1>2, <2>2, <2>3, AllHeld DEF LinksOK
    <2> QED BY <1>2, <2>1, <2>2, <2>5, <2>6, CommitRows
<1>7. ASSUME NEW l \in links, l \notin tx[w].dropped PROVE rows'[l[1]] # None /\ rows'[l[2]] # None
    <2>1. l[1] \in Items /\ l[2] \in Items /\ rows[l[1]] # None /\ rows[l[2]] # None
        BY DEF SearchInv, RowInv, Items
    <2>2. tx[w].does = "delete" => i # l[1] /\ i # l[2]
        <3> SUFFICES ASSUME tx[w].does = "delete" PROVE i \notin {l[1], l[2]}
            OBVIOUS
        <3>1. Referring(w) = {k \in links \ tx[w].dropped : i \in {k[1], k[2]}}
            BY DEF Referring, Commit
        <3> QED BY <1>7, <3>1 DEF Commit
    <2> QED BY <2>1, <2>2, CommitRows
<1>8. RowInv'
    BY <1>1, <1>4, <1>5, <1>6, <1>7, CommitRows DEF RowInv
<1> QED BY <1>3, <1>8 DEF SearchInv

\* Searches, and steps that stutter, leave what the invariant is about alone.
LEMMA ReadKeeps ==
    ASSUME SearchInv, UNCHANGED <<rows, docs, links, tx>>
    PROVE  SearchInv'
<1>1. TxInv'
    BY DEF SearchInv, TxInv
<1>2. LockInv' /\ RowInv'
    BY DEF SearchInv, LockInv, RowInv
<1> QED BY <1>1, <1>2 DEF SearchInv

LEMMA BreakIsEnd ==
    ASSUME BreakDeadlock
    PROVE  (\E w \in Writers : Rollback(w)) \/ \E s \in Searches : EndSearch(s)
BY DEF BreakDeadlock, Aborts, Requests

LEMMA NextKeeps == SearchInv /\ [Next]_vars => SearchInv'
<1> SUFFICES ASSUME SearchInv, [Next]_vars PROVE SearchInv'
    OBVIOUS
<1>1. ASSUME NEW w \in Writers, Step(w) PROVE SearchInv'
    BY <1>1, AcquireKeeps DEF Step
<1>2. ASSUME NEW s \in Searches, StartSearch(s) \/ LockView(s) \/ Statement(s) \/ EndSearch(s)
      PROVE  SearchInv'
    BY <1>2, ReadKeeps DEF StartSearch, LockView, Statement, EndSearch
<1>3. CASE UNCHANGED vars
    BY <1>3, ReadKeeps DEF vars
<1>4. CASE BreakDeadlock
    BY <1>2, <1>4, BreakIsEnd, RollbackKeeps
<1> QED BY <1>1, <1>2, <1>3, <1>4, ArriveKeeps, CommitKeeps, RollbackKeeps DEF Next

-----------------------------------------------------------------------------
(* Deadlock: the orderly wait along their stages, members at their row for *)
(* gardens at their associations, and those for members past their row.    *)

IsGarden(w) == tx[w].item \in Gardens

Past(w, n) == \A k \in 1..n : tx[w].plan[k] = {}

\* p waits at stage n for q, which is further on.
Behind(p, q, n) ==
    \/ n \in 3..6 /\ Past(q, n) /\ (IsGarden(p) <=> IsGarden(q))
    \/ n = 3 /\ ~IsGarden(p) /\ IsGarden(q) /\ Past(q, 6)
    \/ n = 7 /\ IsGarden(p) /\ ~IsGarden(q) /\ Past(q, 3)

LEMMA TableOfGardens ==
    ASSUME NEW i \in Items
    PROVE  (TableOf(i) = "gardens") <=> i \in Gardens
BY DEF TableOf, Items

LEMMA WaitsBehind ==
    ASSUME SearchInv, NEW p \in Writers, NEW q \in Writers, p # q,
           tx[p].orderly, tx[q].orderly,
           NEW n \in Stages, Before(p, n),
           NEW lock \in tx[p].plan[n], NEW held \in tx[q].held, Conflict(lock, held)
    PROVE  Behind(p, q, n)
<1> DEFINE i == tx[p].item
           j == tx[q].item
<1>1. /\ OrderlyOK(tx[p]) /\ OrderlyOK(tx[q]) /\ i \in Items /\ j \in Items
    BY DEF SearchInv, TxInv, TxOK
<1>2. lock \in Kind(i)[n]
    BY <1>1 DEF OrderlyOK
<1>3. PICK m \in Stages : held \in Kind(j)[m]
    BY <1>1 DEF OrderlyOK
<1>4. \A k \in 1..m : k < 7 => tx[q].plan[k] = {}
    BY <1>1, <1>3 DEF OrderlyOK
<1>5. lock[1] = held[1] /\ lock[2] = held[2] /\ <<lock[3], held[3]>> \notin Compatible
    BY DEF Conflict
<1>6. \A k \in Gardens \cup Members : k \in Gardens => k \notin Members
    BY SearchAssumption DEF SearchAssumption
<1> HIDE DEF i, j
<1>7. CASE n = 3
    <2>1. lock[1] = "row" /\ lock[2] = i
        BY <1>1, <1>2, <1>7, KindFields
    <2>2. CASE m = 3
        <3>1. held[1] = "row" /\ held[2] = j
            BY <1>1, <1>3, <2>2, KindFields
        <3>2. Past(q, 3)
            BY <1>4, <2>2 DEF Past
        <3>3. i = j
            BY <1>5, <2>1, <3>1
        <3> QED BY <1>7, <3>2, <3>3 DEF Behind, IsGarden, i, j
    <2>3. CASE m = 7
        <3>1. /\ j \in Gardens
              /\ held[1] = "link" \/ held[2] \in Members
            BY <1>1, <1>3, <2>3, KindFields
        <3>2. Past(q, 6)
            BY <1>4, <2>3 DEF Past
        <3>3. i \in Members
            BY <1>5, <2>1, <3>1
        <3> QED BY <1>1, <1>6, <1>7, <3>1, <3>2, <3>3 DEF Behind, IsGarden, i, j
    <2>4. m \in {3, 7}
        BY <1>1, <1>3, <1>5, <2>1, KindFields
    <2> QED BY <2>2, <2>3, <2>4
<1>8. CASE n = 4
    <2>1. lock[1] = "doi" /\ lock[2][1] = TableOf(i)
        BY <1>1, <1>2, <1>8, KindFields
    <2>2. m = 4 /\ held[2][1] = TableOf(j)
        BY <1>1, <1>3, <1>5, <2>1, KindFields
    <2>3. Past(q, 4)
        BY <1>4, <2>2 DEF Past
    <2> QED BY <1>1, <1>5, <1>8, <2>1, <2>2, <2>3, TableOfGardens DEF Behind, IsGarden, i, j
<1>9. CASE n = 5
    <2>1. lock[1] = "uuid" /\ i \in Entrypoints
        BY <1>1, <1>2, <1>9, KindFields
    <2>2. m = 5 /\ j \in Entrypoints
        BY <1>1, <1>3, <1>5, <2>1, KindFields
    <2>3. Past(q, 5)
        BY <1>4, <2>2 DEF Past
    <2> QED BY <1>6, <1>9, <2>1, <2>2, <2>3 DEF Behind, IsGarden, Members, i, j
<1>10. CASE n = 6
    <2>1. lock[1] = "view" /\ lock[2] = TableOf(i)
        BY <1>1, <1>2, <1>10, KindFields
    <2>2. m = 6 /\ held[2] = TableOf(j)
        BY <1>1, <1>3, <1>5, <2>1, KindFields
    <2>3. Past(q, 6)
        BY <1>4, <2>2 DEF Past
    <2>4. TableOf(i) = TableOf(j)
        BY <1>5, <2>1, <2>2
    <2>5. i \in Gardens <=> j \in Gardens
        BY <1>1, <2>4, TableOfGardens
    <2> QED BY <1>10, <2>3, <2>5 DEF Behind, IsGarden, i, j
<1>11. CASE n = 7
    <2>1. i \in Gardens
        BY <1>1, <1>2, <1>11, KindFields
    <2>2. CASE lock[1] = "link"
        <3>1. lock[2][1] = i
            BY <1>1, <1>2, <1>11, <2>2, KindFields
        <3>2. m = 7 /\ held[2][1] = j
            BY <1>1, <1>3, <1>5, <2>2, KindFields
        <3>3. m = 7 /\ i = j
            BY <1>5, <3>1, <3>2
        <3>4. tx[p].plan[3] = {} /\ tx[q].plan[3] = {}
            BY <1>4, <1>11, <3>3 DEF Before, Stages
        <3>5. PICK a \in tx[p].held, b \in tx[q].held : a \in RowsOf(i) /\ b \in RowsOf(i)
            BY <1>1, <3>3, <3>4 DEF OrderlyOK, i, j
        <3>6. Conflict(a, b)
            BY <3>5 DEF RowsOf, Row, Conflict, Compatible
        <3> QED BY <3>5, <3>6 DEF SearchInv, LockInv
    <2>3. CASE lock[1] # "link"
        <3>1. lock[1] = "row" /\ lock[2] \in Members /\ lock[3] = "share"
            BY <1>1, <1>2, <1>11, <2>3, KindFields
        <3>2. held[1] = "row" /\ held[2] \in Members /\ held[3] # "share"
            BY <1>5, <3>1 DEF Compatible
        <3>3. m = 3 /\ held[2] = j
            BY <1>1, <1>3, <3>2, KindFields
        <3>4. j \in Members
            BY <3>2, <3>3
        <3>5. Past(q, 3)
            BY <1>4, <3>3 DEF Past
        <3> QED BY <1>6, <1>11, <2>1, <3>4, <3>5 DEF Behind, IsGarden, i, j
    <2> QED BY <2>2, <2>3
<1>12. CASE n \in {1, 2}
    BY <1>1, <1>2, <1>12, KindStages
<1> QED BY <1>7, <1>8, <1>9, <1>10, <1>11, <1>12 DEF Stages

LEMMA NoCircle ==
    ASSUME SearchInv, NEW C \in SUBSET {w \in Writers : tx[w].orderly}, Deadlocked(C)
    PROVE  FALSE
<1>1. ASSUME NEW p \in C
      PROVE  \E q \in C, n \in Stages : Past(p, n - 1) /\ tx[p].plan[n] # {} /\ Behind(p, q, n)
    <2>1. p \in Writers /\ tx[p].orderly /\ C \subseteq Writers
        OBVIOUS
    <2>2. PICK q \in C : \E lock \in Wants(p) : Blocks(q, p, lock)
        BY <2>1 DEF Deadlocked, WaitsFor, WaitsForWriter
    <2>3. PICK lock \in Wants(p) : Blocks(q, p, lock)
        BY <2>2
    <2>4. tx[p].does # "delete"
        BY <2>1 DEF SearchInv, TxInv, TxOK
    <2>5. PICK n \in Stages : Before(p, n) /\ lock \in tx[p].plan[n]
        BY <2>4 DEF Wants, Referring
    <2>6. q # p /\ q \in Writers /\ tx[q].orderly /\ \E held \in tx[q].held : Conflict(lock, held)
        BY <2>1, <2>3 DEF Blocks
    <2>7. Behind(p, q, n)
        BY <2>1, <2>5, <2>6, WaitsBehind
    <2> QED BY <2>5, <2>7 DEF Before, Past
<1>2. \A p \in C, m, n \in Stages : Past(p, m) /\ tx[p].plan[n] # {} => n > m
    BY DEF Past, Stages
<1>3. ASSUME NEW p \in C, ~IsGarden(p), Past(p, 3) PROVE FALSE
    <2>1. ASSUME NEW r \in C, ~IsGarden(r), Past(r, 6) PROVE FALSE
        BY <1>1, <1>2, <2>1 DEF Behind, Stages
    <2>2. ASSUME NEW r \in C, ~IsGarden(r), Past(r, 5) PROVE FALSE
        BY <1>1, <1>2, <2>1, <2>2 DEF Behind, Stages
    <2>3. ASSUME NEW r \in C, ~IsGarden(r), Past(r, 4) PROVE FALSE
        BY <1>1, <1>2, <2>1, <2>2, <2>3 DEF Behind, Stages
    <2> QED BY <1>1, <1>2, <1>3, <2>1, <2>2, <2>3 DEF Behind, Stages
<1>4. ASSUME NEW p \in C, IsGarden(p) PROVE FALSE
    <2>1. ASSUME NEW r \in C, IsGarden(r), Past(r, 6) PROVE FALSE
        BY <1>1, <1>2, <1>3, <2>1 DEF Behind, Stages
    <2>2. ASSUME NEW r \in C, IsGarden(r), Past(r, 5) PROVE FALSE
        BY <1>1, <1>2, <1>3, <2>1, <2>2 DEF Behind, Stages
    <2>3. ASSUME NEW r \in C, IsGarden(r), Past(r, 4) PROVE FALSE
        BY <1>1, <1>2, <1>3, <2>1, <2>2, <2>3 DEF Behind, Stages
    <2>4. ASSUME NEW r \in C, IsGarden(r), Past(r, 3) PROVE FALSE
        BY <1>1, <1>2, <1>3, <2>1, <2>2, <2>3, <2>4 DEF Behind, Stages
    <2> QED BY <1>1, <1>3, <1>4, <2>1, <2>2, <2>3, <2>4 DEF Behind, Stages
<1>5. ASSUME NEW p \in C PROVE FALSE
    <2>1. PICK q \in C, n \in Stages : Past(p, n - 1) /\ Behind(p, q, n)
        BY <1>1
    <2>2. n \in 3..6 /\ ~IsGarden(q) /\ ~IsGarden(p)
        BY <1>4, <1>5, <2>1 DEF Behind
    <2>3. CASE n = 3
        BY <1>3, <2>1, <2>2, <2>3 DEF Behind
    <2>4. CASE n # 3
        BY <1>3, <1>5, <2>1, <2>2, <2>4 DEF Past
    <2> QED BY <2>3, <2>4
<1> QED BY <1>5 DEF Deadlocked

\* However many requests write, on whatever rows, values, views and associations,
\* no circle of waits is closed by those that lock their row first, one value of
\* each kind next, then their view and then their associations: what the order of
\* a session's flush, and of Postgres' triggers and foreign keys, makes of most
\* POSTs and PATCHes (gardens.py, entrypoints.py, modal_functions.py).
THEOREM OrderlyTheorem == Spec => []OrderlyNeverDeadlock
<1>1. SearchInv => OrderlyNeverDeadlock
    BY NoCircle DEF OrderlyNeverDeadlock
<1> QED BY InitHolds, NextKeeps, <1>1, PTL DEF Spec

-----------------------------------------------------------------------------
(* A committed text has its document *)

LEMMA CommitIndexes ==
    ASSUME SearchInv, NEW w \in Writers, Commit(w)
    PROVE  \A i \in Items : rows'[i] \notin {rows[i], None} => docs'[i] = Document(rows'[i])
<1> SUFFICES ASSUME NEW i \in Items, rows'[i] # rows[i], rows'[i] # None
             PROVE  docs'[i] = Document(rows'[i])
    OBVIOUS
<1>1. tx[w].text # None
    BY CommitRows
<1>2. i = tx[w].item /\ rows'[i] = tx[w].text
    BY <1>1 DEF Commit, SearchInv, RowInv
<1>3. i \in DOMAIN tx[w].view /\ tx[w].view[i] = Document(tx[w].text)
    BY <1>1, <1>2, AllHeld DEF TxOK, ViewOK, Stages
<1> QED BY <1>2, <1>3 DEF Commit

\* Steps other than a commit leave the rows alone.
LEMMA RowsChange ==
    ASSUME SearchInv, [Next]_vars
    PROVE  UNCHANGED <<rows, docs>> \/ \E w \in Writers : Commit(w)
<1>1. \A w \in Writers : Arrive(w) => UNCHANGED <<rows, docs>>
    BY ArriveBegins DEF Begins, Begin
<1>2. /\ \A w \in Writers : Rollback(w) => UNCHANGED <<rows, docs>>
      /\ \A w \in Writers : Step(w) => UNCHANGED <<rows, docs>>
    <2>1. \A lock : \A w \in Writers, n \in Stages :
            Acquire(w, n, lock) => UNCHANGED <<rows, docs>>
        BY DEF Acquire
    <2> QED BY <2>1 DEF Step, Rollback
<1>3. \A s \in Searches :
        StartSearch(s) \/ LockView(s) \/ Statement(s) \/ EndSearch(s) => UNCHANGED <<rows, docs>>
    BY DEF StartSearch, LockView, Statement, EndSearch
<1>4. BreakDeadlock => UNCHANGED <<rows, docs>>
    BY <1>2, <1>3, BreakIsEnd
<1>5. UNCHANGED vars => UNCHANGED <<rows, docs>>
    BY DEF vars
<1> QED BY <1>1, <1>2, <1>3, <1>4, <1>5 DEF Next

\* Whatever overlaps, whoever commits a text leaves the document of that text in
\* its view: the trigger sees the row it fires for (sql.sql:81-109).
THEOREM OwnWriteTheorem == Spec => OwnWriteIndexed
<1>1. SearchInv /\ [Next]_vars =>
        [\A i \in Items :
            rows'[i] \notin {rows[i], None} => docs'[i] = Document(rows'[i])]_vars
    BY RowsChange, CommitIndexes
<1> QED BY InitHolds, NextKeeps, <1>1, PTL DEF Spec, OwnWriteIndexed

-----------------------------------------------------------------------------
(* Searches *)

ViewsFact == IsFiniteSet(Views) /\ Cardinality(Views) = 3

LEMMA ThreeViews == ViewsFact
<1> DEFINE A == {"entrypoints"}
           B == A \cup {"modal_functions"}
<1>1. IsFiniteSet(A) /\ Cardinality(A) = 1
    BY FS_Singleton
<1>2. IsFiniteSet(B) /\ Cardinality(B) = 2
    BY <1>1, FS_AddElement
<1>3. Views = B \cup {"gardens"} /\ "gardens" \notin B
    BY DEF Views
<1>4. IsFiniteSet(B \cup {"gardens"}) /\ Cardinality(B \cup {"gardens"}) = 3
    <2> HIDE DEF B
    <2> QED BY <1>2, <1>3, FS_AddElement
<1> QED BY <1>3, <1>4 DEF ViewsFact

SearchesOK == search \in [Searches -> SearchType]

LEMMA NextViewIsView ==
    ASSUME SearchesOK, NEW s \in Searches, search[s].held # Views
    PROVE  NextView(s) \in Views
<1> DEFINE n == Cardinality(search[s].held)
<1>1. search[s].held \subseteq Views
    BY DEF SearchesOK, SearchType
<1>2. n \in Nat /\ n <= 3 /\ n # 3
    BY <1>1, ThreeViews, FS_Subset, FS_CardinalityType DEF ViewsFact
<1>3. n + 1 \in 1..3
    BY <1>2
<1> HIDE DEF n
<1>4. LockOrder[n + 1] \in Views
    BY <1>3 DEF LockOrder, Views
<1> QED BY <1>4 DEF NextView, n

\* A search that has not begun, and one that has just begun.
Begun == [NoSearch EXCEPT !.active = TRUE, !.live = LiveGardens]

LEMMA NoSearchType ==
    /\ NoSearch \in SearchType /\ NoSearch.held = {} /\ NoSearch.answered = 0
    /\ Begun \in SearchType /\ Begun.held = {} /\ Begun.answered = 0
<1>1. 0 \in 0..Statements /\ LiveGardens \in SUBSET Gardens
    BY DEF Statements, LiveGardens
<1>2. NoSearch \in SearchType /\ NoSearch.held = {} /\ NoSearch.answered = 0
    BY <1>1 DEF NoSearch, SearchType
<1>3. Begun \in SearchType /\ Begun.held = NoSearch.held /\ Begun.answered = NoSearch.answered
    BY <1>1, <1>2 DEF Begun, SearchType
<1> QED BY <1>2, <1>3

LEMMA SearchesInit == Init => SearchesOK
BY NoSearchType DEF Init, SearchesOK

\* Only the steps of a search change it.
LEMMA SearchChange ==
    ASSUME SearchInv, [Next]_vars
    PROVE  \/ UNCHANGED search
           \/ \E s \in Searches : StartSearch(s) \/ LockView(s) \/ Statement(s) \/ EndSearch(s)
<1>1. \A w \in Writers : Arrive(w) => UNCHANGED search
    BY ArriveBegins DEF Begins, Begin
<1>2. \A w \in Writers : Step(w) => UNCHANGED search
    BY DEF Step, Acquire
<1>3. \A w \in Writers : Commit(w) \/ Rollback(w) => UNCHANGED search
    BY DEF Commit, Rollback
<1>4. UNCHANGED vars => UNCHANGED search
    BY DEF vars
<1> QED BY <1>1, <1>2, <1>3, <1>4, BreakIsEnd DEF Next

LEMMA SearchesNext ==
    ASSUME SearchInv, SearchesOK, [Next]_vars
    PROVE  SearchesOK'
<1>1. ASSUME NEW s \in Searches, StartSearch(s) \/ EndSearch(s) PROVE SearchesOK'
    BY NoSearchType, <1>1 DEF StartSearch, EndSearch, SearchesOK, Begun
<1>2. ASSUME NEW s \in Searches, LockView(s) PROVE SearchesOK'
    <2>1. search[s] \in SearchType /\ NextView(s) \in Views
        BY <1>2, NextViewIsView DEF LockView, SearchesOK
    <2>2. [search[s] EXCEPT !.held = @ \cup {NextView(s)}] \in SearchType
        BY <2>1 DEF SearchType
    <2> QED BY <1>2, <2>2 DEF LockView, SearchesOK
<1>3. ASSUME NEW s \in Searches, Statement(s) PROVE SearchesOK'
    <2> DEFINE found == {g \in Visible(s) : Ranked(g)}
    <2>1. search[s] \in SearchType /\ search[s].answered + 1 \in 0..Statements
        BY <1>3 DEF Statement, SearchesOK, SearchType, Statements
    <2>2. found \in SUBSET Gardens
        BY <2>1 DEF Visible, LiveGardens, SearchType
    <2>3. links \in SUBSET (Gardens \X Members)
        BY DEF SearchInv, RowInv
    <2>4. [search[s] EXCEPT !.answered = search[s].answered + 1, !.live = {},
                            !.found = found, !.seen = links, !.held = Kept(search[s].held)] \in SearchType
        BY <2>1, <2>2, <2>3 DEF SearchType, Kept
    <2>5. search' = [search EXCEPT ![s] =
                        [search[s] EXCEPT !.answered = search[s].answered + 1, !.live = {},
                                          !.found = found, !.seen = links, !.held = Kept(search[s].held)]]
        BY <1>3 DEF Statement
    <2> QED BY <2>4, <2>5 DEF SearchesOK
<1>4. UNCHANGED search => SearchesOK'
    BY DEF SearchesOK
<1> QED BY <1>1, <1>2, <1>3, <1>4, SearchChange

\* Rows, documents, references, transactions and searches keep their types, and
\* no reference outlives its row, whichever locks are waited for.
THEOREM TypesKept == Spec => []TypeOK
<1>1. SearchInv /\ SearchesOK => TypeOK
    BY DEF SearchInv, TxInv, RowInv, SearchesOK, TypeOK
<1> QED BY InitHolds, NextKeeps, SearchesInit, SearchesNext, <1>1, PTL DEF Spec

-----------------------------------------------------------------------------
(* What one search sees *)

\* A view is not held by a writer and a search at once.
Exclusion ==
    \A s \in Searches, w \in Writers, t \in Views :
        <<"view", t, "whole">> \in tx[w].held => t \notin search[s].held

\* Past its second statement a search has found every garden that it could have
\* found then and still can.
FoundAll ==
    \A s \in Searches : search[s].answered > 0 =>
        /\ search[s].held = Views
        /\ search[s].answered > 1 =>
            /\ \A g \in LiveGardens : docs[g] \in Matching \ {None} => g \in search[s].found
            /\ \A l \in search[s].seen :
                docs[l[1]] # None /\ docs[l[2]] \in Matching => l[1] \in search[s].found

ReadInv == SearchInv /\ SearchesOK /\ Exclusion /\ FoundAll

LEMMA ReadInvInit == Init => ReadInv
<1> SUFFICES ASSUME Init PROVE ReadInv
    OBVIOUS
<1>1. \A w \in Writers : tx[w].held = {}
    BY NoTxOK DEF Init, TxOK, NoTx
<1>2. Exclusion /\ FoundAll
    BY <1>1, NoSearchType DEF Init, Exclusion, FoundAll
<1> QED BY <1>2, InitHolds, SearchesInit DEF ReadInv

\* A commit under a search that holds the views takes text away at most.
LEMMA NoTextUnder ==
    ASSUME ReadInv, NEW w \in Writers, Commit(w), NEW s \in Searches, search[s].answered > 0
    PROVE  tx[w].text = None
<1>1. TableOf(tx[w].item) \in Views
    BY DEF TableOf, Views
<1>2. tx[w].text # None => <<"view", TableOf(tx[w].item), "whole">> \in tx[w].held
    BY AllHeld DEF ReadInv, TxOK, ViewOK, View, Stages
<1>3. search[s].held = Views
    BY DEF ReadInv, FoundAll
<1> QED BY <1>1, <1>2, <1>3 DEF ReadInv, Exclusion

\* Steps that leave the searches alone, and the documents while one is under way,
\* and take no view that a search has.
LEMMA WritersKeep ==
    ASSUME ReadInv, UNCHANGED search,
           \A s \in Searches : search[s].answered > 0 =>
                UNCHANGED docs /\ \A i \in Items : rows[i] = None => rows'[i] = None,
           \A w \in Writers, t \in Views : <<"view", t, "whole">> \in tx'[w].held =>
                \/ <<"view", t, "whole">> \in tx[w].held
                \/ \A s \in Searches : t \notin search[s].held
    PROVE  Exclusion' /\ FoundAll'
<1>1. Exclusion'
    BY DEF ReadInv, Exclusion
<1>2. ASSUME NEW s \in Searches, search[s].answered > 0 PROVE LiveGardens' \subseteq LiveGardens
    BY <1>2 DEF LiveGardens, Items
<1>3. FoundAll'
    BY <1>2 DEF ReadInv, FoundAll
<1> QED BY <1>1, <1>3

\* A transaction that loses its locks.
LEMMA HeldShrinks ==
    ASSUME ReadInv, NEW w \in Writers, NEW t, t.held = {}, tx' = [tx EXCEPT ![w] = t]
    PROVE  \A v \in Writers : tx'[v].held \subseteq tx[v].held
BY DEF ReadInv, SearchInv, TxInv

LEMMA CommitSeen ==
    ASSUME ReadInv, NEW w \in Writers, Commit(w)
    PROVE  Exclusion' /\ FoundAll'
<1>1. tx' = [tx EXCEPT ![w] = NoTx] /\ NoTx.held = {} /\ UNCHANGED search
    BY DEF Commit, NoTx
<1>2. \A v \in Writers : tx'[v].held \subseteq tx[v].held
    BY <1>1, HeldShrinks
<1>3. ASSUME NEW s \in Searches, search[s].answered > 0
      PROVE  UNCHANGED docs /\ \A i \in Items : rows[i] = None => rows'[i] = None
    <2>1. tx[w].text = None
        BY <1>3, NoTextUnder
    <2> QED BY <2>1, CommitRows DEF ReadInv
<1> QED BY <1>1, <1>2, <1>3, WritersKeep

\* A writer that takes a view takes it of no search.
LEMMA AcquireSeen ==
    ASSUME ReadInv, NEW w \in Writers, NEW n \in Stages, NEW lock, Acquire(w, n, lock)
    PROVE  Exclusion' /\ FoundAll'
<1>1. UNCHANGED <<rows, docs, links, search>> /\ \A s \in Searches : ~Reads(s, lock)
    BY DEF Acquire
<1>2. /\ \A v \in Writers : v # w => tx'[v] = tx[v]
      /\ tx'[w].held \subseteq tx[w].held \cup {lock}
    BY AcquireFields, AcquireHeld DEF ReadInv
<1>3. \A t \in Views : lock = <<"view", t, "whole">> => \A s \in Searches : t \notin search[s].held
    BY <1>1 DEF Reads
<1> QED BY <1>1, <1>2, <1>3, WritersKeep

LEMMA StatementSees ==
    ASSUME ReadInv, NEW s \in Searches, Statement(s)
    PROVE  Exclusion' /\ FoundAll'
<1> DEFINE found == {g \in Visible(s) : Ranked(g)}
<1>1. /\ search[s].held = Views /\ search[s].answered \in Nat
      /\ search' = [search EXCEPT ![s] =
                        [search[s] EXCEPT !.answered = search[s].answered + 1, !.live = {},
                                          !.found = found, !.seen = links, !.held = Kept(search[s].held)]]
      /\ UNCHANGED <<rows, docs, links, tx>>
    BY DEF Statement, ReadInv, SearchesOK, SearchType, Statements
<1>2. /\ search'[s].answered = search[s].answered + 1 /\ search'[s].found = found
      /\ search'[s].seen = links /\ search'[s].held = Views
    BY <1>1 DEF ReadInv, SearchesOK, SearchType, Kept
<1>3. \A q \in Searches : q # s => search'[q] = search[q]
    BY <1>1 DEF ReadInv, SearchesOK
<1>4. \A q \in Searches : search'[q].held = search[q].held
    BY <1>1, <1>2, <1>3
<1>5. Exclusion'
    BY <1>1, <1>4 DEF ReadInv, Exclusion
<1>6. ASSUME search'[s].answered > 1
      PROVE  /\ \A g \in LiveGardens' : docs'[g] \in Matching \ {None} => g \in found
             /\ \A l \in links : docs'[l[1]] # None /\ docs'[l[2]] \in Matching => l[1] \in found
    <2>1. Visible(s) = LiveGardens
        BY <1>1, <1>2, <1>6 DEF Visible
    <2>2. \A g \in LiveGardens : docs[g] \in Matching \ {None} => g \in found
        BY <2>1 DEF Ranked
    <2>3. \A l \in links : l[1] \in LiveGardens /\ l[2] \in Members /\ l = <<l[1], l[2]>>
        BY DEF ReadInv, SearchInv, RowInv, LiveGardens
    <2>4. \A l \in links : docs[l[1]] # None /\ docs[l[2]] \in Matching => l[1] \in found
        BY <2>1, <2>3 DEF Ranked
    <2> QED BY <1>1, <2>2, <2>4 DEF LiveGardens
<1> HIDE DEF found
<1>7. FoundAll'
    <2> SUFFICES ASSUME NEW q \in Searches, search'[q].answered > 0
                 PROVE  /\ search'[q].held = Views
                        /\ search'[q].answered > 1 =>
                            /\ \A g \in LiveGardens' :
                                docs'[g] \in Matching \ {None} => g \in search'[q].found
                            /\ \A l \in search'[q].seen :
                                docs'[l[1]] # None /\ docs'[l[2]] \in Matching => l[1] \in search'[q].found
        BY DEF FoundAll
    <2>1. CASE q = s
        BY <1>2, <1>6, <2>1
    <2>2. CASE q # s
        BY <1>1, <1>3, <2>2 DEF ReadInv, FoundAll, LiveGardens
    <2> QED BY <2>1, <2>2
<1> QED BY <1>5, <1>7

\* A search that starts, ends or takes a lock.
LEMMA LockKeeps ==
    ASSUME ReadInv, NEW s \in Searches, StartSearch(s) \/ EndSearch(s) \/ LockView(s)
    PROVE  Exclusion' /\ FoundAll'
<1>1. UNCHANGED <<rows, docs, links, tx>>
    BY DEF StartSearch, EndSearch, LockView
<1>2. \A q \in Searches : q # s => search'[q] = search[q]
    BY DEF StartSearch, EndSearch, LockView, ReadInv, SearchesOK
<1>3. CASE StartSearch(s) \/ EndSearch(s)
    <2>1. search'[s].held = {} /\ search'[s].answered = 0
        BY <1>3, NoSearchType DEF StartSearch, EndSearch, Begun, ReadInv, SearchesOK
    <2>2. Exclusion'
        BY <1>1, <1>2, <2>1 DEF ReadInv, Exclusion
    <2>3. FoundAll'
        BY <1>1, <1>2, <2>1 DEF ReadInv, FoundAll, LiveGardens
    <2> QED BY <2>2, <2>3
<1>4. CASE LockView(s)
    <2>1. /\ search[s].held # Views
          /\ search'[s].held = search[s].held \cup {NextView(s)}
          /\ search'[s].answered = search[s].answered
        BY <1>4 DEF LockView, ReadInv, SearchesOK, SearchType
    <2>2. \A w \in Writers : <<"view", NextView(s), "whole">> \notin tx[w].held
        BY <1>4 DEF LockView, HoldsForSearch
    <2>3. Exclusion'
        BY <1>1, <1>2, <2>1, <2>2 DEF ReadInv, Exclusion
    <2>4. ~(search[s].answered > 0)
        BY <2>1 DEF ReadInv, FoundAll
    <2>5. FoundAll'
        BY <1>1, <1>2, <2>1, <2>4 DEF ReadInv, FoundAll, LiveGardens
    <2> QED BY <2>3, <2>5
<1> QED BY <1>3, <1>4

LEMMA ReadInvNext == ReadInv /\ [Next]_vars => ReadInv'
<1> SUFFICES ASSUME ReadInv, [Next]_vars PROVE Exclusion' /\ FoundAll'
    BY NextKeeps, SearchesNext DEF ReadInv
<1>1. ASSUME NEW w \in Writers, Arrive(w) PROVE Exclusion' /\ FoundAll'
    <2>1. PICK t : t.held = {} /\ Begin(w, t)
        BY <1>1, ArriveBegins DEF ReadInv, Begins
    <2>2. tx' = [tx EXCEPT ![w] = t] /\ UNCHANGED <<rows, docs, links, search>>
        BY <2>1 DEF Begin
    <2> QED BY <2>1, <2>2, HeldShrinks, WritersKeep
<1>2. ASSUME NEW w \in Writers, Step(w) PROVE Exclusion' /\ FoundAll'
    BY <1>2, AcquireSeen DEF Step
<1>3. ASSUME NEW w \in Writers, Rollback(w) PROVE Exclusion' /\ FoundAll'
    <2>1. tx' = [tx EXCEPT ![w] = NoTx] /\ NoTx.held = {} /\ UNCHANGED <<rows, docs, links, search>>
        BY <1>3 DEF Rollback, NoTx
    <2> QED BY <2>1, HeldShrinks, WritersKeep
<1>4. CASE UNCHANGED vars
    BY <1>4, WritersKeep DEF vars
<1>5. CASE BreakDeadlock
    BY <1>3, <1>5, BreakIsEnd, LockKeeps
<1> QED
    BY <1>1, <1>2, <1>3, <1>4, <1>5, CommitSeen, StatementSees, LockKeeps DEF Next

LEMMA StatementShrinks ==
    ASSUME ReadInv, [Next]_vars, NEW s \in Searches,
           search'[s].answered > search[s].answered, search[s].answered > 1
    PROVE  search'[s].found \subseteq search[s].found \cup NewlyLinked(s)
<1>1. Statement(s)
    <2>1. \A q \in Searches : StartSearch(q) \/ EndSearch(q) =>
            search'[s].answered \in {0, search[s].answered}
        BY NoSearchType DEF StartSearch, EndSearch, Begun, ReadInv, SearchesOK
    <2>2. \A q \in Searches : LockView(q) => search'[s].answered = search[s].answered
        BY DEF LockView, ReadInv, SearchesOK, SearchType
    <2>3. \A q \in Searches : Statement(q) /\ q # s => search'[s].answered = search[s].answered
        BY DEF Statement, ReadInv, SearchesOK
    <2>4. search[s].answered \in Nat
        BY DEF ReadInv, SearchesOK, SearchType, Statements
    <2> QED BY <2>1, <2>2, <2>3, <2>4, SearchChange DEF ReadInv
<1>2. search'[s].found = {g \in LiveGardens : Ranked(g)}
    BY <1>1 DEF Statement, Visible, ReadInv, SearchesOK, SearchType
<1>3. search[s].answered > 0 /\ search[s].answered \in Nat
    BY DEF ReadInv, SearchesOK, SearchType, Statements
<1>4. ASSUME NEW g \in LiveGardens, docs[g] \in Matching \ {None} PROVE g \in search[s].found
    BY <1>3, <1>4 DEF ReadInv, FoundAll
<1>5. ASSUME NEW g \in LiveGardens, NEW m \in Members, <<g, m>> \in links, docs[g] # None, docs[m] \in Matching
      PROVE  g \in search[s].found \cup NewlyLinked(s)
    BY <1>3, <1>5 DEF ReadInv, FoundAll, NewlyLinked, LiveGardens
<1> QED BY <1>2, <1>4, <1>5 DEF Ranked

\* From the second statement on, a search counts, facets and shows ever fewer
\* gardens, but for those given a member meanwhile: the locks of its first
\* statement keep every document as it is.
THEOREM ResultsTheorem == Spec => ResultsOnlyShrink
<1>1. ReadInv /\ [Next]_vars =>
        [\A s \in Searches :
            search'[s].answered > search[s].answered /\ search[s].answered > 1 =>
                search'[s].found \subseteq search[s].found \cup NewlyLinked(s)]_vars
    BY StatementShrinks
<1> QED BY ReadInvInit, ReadInvNext, <1>1, PTL DEF Spec, ResultsOnlyShrink
=============================================================================

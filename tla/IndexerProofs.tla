--------------------------- MODULE IndexerProofs ---------------------------
(***************************************************************************)
(* The types of the indexer and the age of its snapshots, for any number   *)
(* of ticks and whatever fails; the cursor, for one tick at a time whose   *)
(* inserts do not fail and whose pages end where a ledger does; and that   *)
(* the newest snapshots are current, for one tick at a time whose          *)
(* snapshots do not fail, while nobody calls sync.                         *)
(***************************************************************************)
EXTENDS Indexer, FiniteSetTheorems, TLAPS

\* A non-empty set of natural numbers below a bound has a greatest element.
LEMMA GreatestNatural ==
  ASSUME NEW h \in Nat, NEW T \in SUBSET (0 .. h), T # {}
  PROVE  \E x \in T : \A y \in T : x >= y
<1> DEFINE Above == {x .. h : x \in T}
<1>1. Above \subseteq FiniteSubsetsOf(Nat)
  <2>1. \A x \in T : x .. h \in SUBSET Nat /\ IsFiniteSet(x .. h)
    BY FS_Interval
  <2> QED BY <2>1 DEF FiniteSubsetsOf
<1>2. Above # {}
  OBVIOUS
<1>3. IsWellFoundedOn(StrictSubsetOrdering(Nat), FiniteSubsetsOf(Nat))
  BY FS_StrictSubsetOrderingWellFounded
<1>4. \E u \in Above : \A v \in Above : ~(<<v, u>> \in StrictSubsetOrdering(Nat))
  <2> HIDE DEF Above
  <2> QED BY <1>1, <1>2, <1>3, WFMin
<1>5. PICK x \in T : \A y \in T : ~(<<y .. h, x .. h>> \in StrictSubsetOrdering(Nat))
  BY <1>4
<1>6. ASSUME NEW y \in T, y > x
      PROVE  FALSE
  <2> DEFINE u == y .. h
             v == x .. h
  <2>1. u \in SUBSET Nat /\ v \in SUBSET Nat /\ u \subseteq v /\ u # v
    BY <1>6
  <2>2. <<u, v>> \in StrictSubsetOrdering(Nat)
    <3> HIDE DEF u, v
    <3> QED BY <2>1, Zenon DEF StrictSubsetOrdering
  <2> QED BY <2>2, <1>5
<1> QED BY <1>6

\* Its maximum is that element.
LEMMA MaxOfNaturals ==
  ASSUME NEW h \in Nat, NEW T \in SUBSET (0 .. h), T # {}
  PROVE  Max(T) \in T /\ \A y \in T : Max(T) >= y
<1>1. \E x \in T : \A y \in T : x >= y
  BY GreatestNatural
<1> QED BY <1>1 DEF Max

-----------------------------------------------------------------------------
(* Types *)

ChainTyped ==
  /\ height \in Nat
  /\ chain \subseteq [ledger : 1 .. height, pos : Nat, kind : Kinds, pair : Pairs]

TickTyped(t) ==
  \/ t = Idle
  \/ t.pc = "asked"
  \/ t.pc = "insert" /\ t.page \subseteq chain
  \/ t.pc = "read" /\ t.page \subseteq chain /\ t.event \in chain /\ t.event.kind # "created"
  \/ /\ t.pc = "store" /\ t.page \subseteq chain /\ t.event \in chain
     /\ t.asOf \in 0 .. height /\ t.asOf >= t.event.ledger
  \/ t.pc = "save" /\ t.value \in 0 .. height

TicksTyped ==
  /\ tick = [i \in Ticks |-> tick[i]]
  /\ \A i \in Ticks : TickTyped(tick[i])

Inv == TypeOK /\ ChainTyped /\ TicksTyped /\ SnapshotsNotOlder

\* The last change of a pair lies on the chain, at or after each of its trades,
\* and is one of them if there are any.
LEMMA LastChangeIsLast ==
  ASSUME ChainTyped, NEW p
  PROVE  /\ LastChange(p) \in 0 .. height
         /\ \A e \in chain : e.pair = p /\ e.kind # "created" => LastChange(p) >= e.ledger
         /\ \/ LastChange(p) = 0
            \/ \E e \in chain : e.pair = p /\ e.kind # "created" /\ e.ledger = LastChange(p)
<1> DEFINE T == {0} \cup Changes(p)
<1>1. T \in SUBSET (0 .. height) /\ T # {} /\ height \in Nat
  BY DEF ChainTyped, Changes
<1>2. LastChange(p) \in T /\ \A y \in T : LastChange(p) >= y
  <2> HIDE DEF T
  <2>1. Max(T) \in T /\ \A y \in T : Max(T) >= y
    BY <1>1, MaxOfNaturals
  <2> QED BY <2>1 DEF T, LastChange
<1>3. \A e \in chain : e.pair = p /\ e.kind # "created" => e.ledger \in T
  BY DEF Changes
<1>4. \A l \in T : l = 0 \/ \E e \in chain : e.pair = p /\ e.kind # "created" /\ e.ledger = l
  BY DEF Changes
<1> HIDE DEF T
<1> QED BY <1>1, <1>2, <1>3, <1>4

\* A tick that becomes t leaves the others as they are.
LEMMA TickSet ==
  ASSUME TicksTyped, NEW i \in Ticks, NEW t, TickTyped(t), UNCHANGED chainVars,
         tick' = [tick EXCEPT ![i] = t]
  PROVE  TicksTyped'
<1>1. tick' = [j \in Ticks |-> tick'[j]]
  BY DEF TicksTyped
<1>2. \A j \in Ticks : tick'[j] = IF j = i THEN t ELSE tick[j]
  BY DEF TicksTyped
<1>3. ASSUME NEW j \in Ticks PROVE TickTyped(tick[j])' = TickTyped(tick'[j])
  BY DEF TickTyped, chainVars
<1> QED BY <1>1, <1>2, <1>3 DEF TicksTyped

\* The end of an event leaves lastLedger on the chain, and what is saved.
LEMMA AdvanceTyped ==
  ASSUME Inv, NEW i \in Ticks, NEW e \in chain, NEW rest \in SUBSET chain,
         Advance(i, e, rest), UNCHANGED chainVars
  PROVE  lastLedger' \in 0 .. height /\ TicksTyped'
<1>1. lastLedger' \in 0 .. height
  <2>1. e.ledger \in 0 .. height /\ lastLedger \in 0 .. height
    BY DEF Inv, ChainTyped, TypeOK
  <2> QED BY <2>1 DEF Advance, Later
<1>2. CASE rest = {}
  <2> DEFINE t == [pc |-> "save", value |-> lastLedger']
  <2>1. tick' = [tick EXCEPT ![i] = t]
    BY <1>2 DEF Advance
  <2>2. TickTyped(t)
    BY <1>1 DEF TickTyped
  <2> HIDE DEF t
  <2> QED BY <1>1, <2>1, <2>2, TickSet DEF Inv
<1>3. CASE rest # {}
  <2> DEFINE t == [pc |-> "insert", page |-> rest]
  <2>1. tick' = [tick EXCEPT ![i] = t]
    BY <1>3 DEF Advance
  <2>2. TickTyped(t)
    BY DEF TickTyped
  <2> HIDE DEF t
  <2> QED BY <1>1, <2>1, <2>2, TickSet DEF Inv
<1> QED BY <1>2, <1>3

\* What the steps of a tick have in common.
LEMMA TickStepTyped ==
  ASSUME Inv, UNCHANGED <<chainVars, up, crashes>>, scheduled' \in BOOLEAN,
         TicksTyped', lastLedger' \in 0 .. height, cursor' \in 0 .. height,
         rows' \subseteq chain,
         snapshots' \subseteq [pair : Pairs, asOf : 0 .. height, ledger : 1 .. height],
         SnapshotsNotOlder'
  PROVE  Inv'
<1>1. ChainTyped'
  BY DEF Inv, ChainTyped, chainVars
<1>2. \A j \in Ticks : tick[j]'.pc \in {"idle", "asked", "insert", "read", "store", "save"}
  BY DEF TicksTyped, TickTyped, Idle
<1>3. TypeOK'
  BY <1>2 DEF Inv, TypeOK, chainVars
<1> QED BY <1>1, <1>3 DEF Inv

\* A finished tick is idle.
LEMMA FinishTyped ==
  ASSUME Inv, NEW i \in Ticks, Finish(i), UNCHANGED chainVars
  PROVE  TicksTyped' /\ scheduled' \in BOOLEAN
<1>1. TickTyped(Idle)
  BY DEF TickTyped
<1> QED BY <1>1, TickSet DEF Finish, Inv

\* The events of a page are on the chain.
LEMMA PageOnChain ==
  ASSUME Inv, NEW i \in Ticks
  PROVE  /\ tick[i].pc = "insert" => tick[i].page \subseteq chain
         /\ tick[i].pc \in {"read", "store"} =>
              tick[i].page \subseteq chain /\ tick[i].event \in chain
         /\ tick[i].pc = "read" => tick[i].event.kind # "created"
         /\ tick[i].pc = "store" => /\ tick[i].asOf \in 0 .. height
                                    /\ tick[i].asOf >= tick[i].event.ledger
         /\ tick[i].pc = "save" => tick[i].value \in 0 .. height
BY DEF Inv, TicksTyped, TickTyped, Idle

\* The steps up to the first await of a page.
LEMMA AskedTyped ==
  ASSUME Inv, NEW i \in Ticks, StartTick(i) \/ Receive(i) \/ RpcFails(i)
  PROVE  Inv'
<1>1. ASSUME NEW t, TickTyped(t), UNCHANGED chainVars, tick' = [tick EXCEPT ![i] = t]
      PROVE  TicksTyped'
  BY <1>1, TickSet DEF Inv
<1>2. CASE StartTick(i)
  <2>1. TicksTyped'
    <3> DEFINE t == [pc |-> "asked", start |-> lastLedger + 1]
    <3>1. TickTyped(t)
      BY DEF TickTyped
    <3> HIDE DEF t
    <3> QED BY <1>1, <1>2, <3>1 DEF StartTick, t
  <2> QED BY <1>2, <2>1, TickStepTyped
          DEF StartTick, Inv, TypeOK, dbVars, SnapshotsNotOlder, chainVars
<1>3. CASE Receive(i)
  <2>1. TicksTyped' /\ scheduled' \in BOOLEAN
    <3> DEFINE t == [pc |-> "insert", page |-> EventsFrom(tick[i].start)]
    <3>1. TickTyped(t)
      BY DEF TickTyped, EventsFrom
    <3>2. CASE EventsFrom(tick[i].start) = {}
      BY <1>3, <3>2, FinishTyped DEF Receive
    <3>3. CASE EventsFrom(tick[i].start) # {}
      <4>1. tick' = [tick EXCEPT ![i] = t] /\ UNCHANGED scheduled /\ UNCHANGED chainVars
        BY <1>3, <3>3 DEF Receive
      <4> HIDE DEF t
      <4> QED BY <1>1, <3>1, <4>1 DEF Inv, TypeOK
    <3> QED BY <3>2, <3>3
  <2> QED BY <1>3, <2>1, TickStepTyped
          DEF Receive, Inv, TypeOK, dbVars, SnapshotsNotOlder, chainVars
<1>4. CASE RpcFails(i)
  <2>1. TicksTyped' /\ scheduled' \in BOOLEAN
    BY <1>4, FinishTyped DEF RpcFails
  <2> QED BY <1>4, <2>1, TickStepTyped
          DEF RpcFails, Inv, TypeOK, dbVars, SnapshotsNotOlder, chainVars
<1> QED BY <1>2, <1>3, <1>4

\* The steps that write the rows of an event.
LEMMA InsertTyped ==
  ASSUME Inv, NEW i \in Ticks, Insert(i) \/ InsertFails(i)
  PROVE  Inv'
<1>1. PICK e \in First(tick[i].page) :
        \/ Inserted(i, e, tick[i].page \ {e})
        \/ UNCHANGED rows /\ Advance(i, e, tick[i].page \ {e})
  BY DEF Insert, InsertFails, dbVars
<1> DEFINE rest == tick[i].page \ {e}
<1>2. e \in chain /\ rest \in SUBSET chain
  BY PageOnChain DEF Insert, InsertFails, First
<1>3. UNCHANGED chainVars
  BY DEF Insert, InsertFails
<1>4. CASE /\ e.kind = "trade" /\ RefersToRow(e) /\ rows' = rows \cup {e} /\ UNCHANGED lastLedger
           /\ tick' = [tick EXCEPT ![i] = [pc |-> "read", event |-> e, page |-> rest]]
  <2> DEFINE t == [pc |-> "read", event |-> e, page |-> rest]
  <2>1. TickTyped(t)
    BY <1>2, <1>4 DEF TickTyped
  <2>2. TicksTyped'
    <3>1. tick' = [tick EXCEPT ![i] = t]
      BY <1>4
    <3> HIDE DEF t
    <3> QED BY <1>3, <2>1, <3>1, TickSet DEF Inv
  <2>3. rows' \subseteq chain /\ lastLedger' \in 0 .. height
    BY <1>2, <1>4 DEF Inv, TypeOK
  <2> HIDE DEF t, rest
  <2> QED BY <2>2, <2>3, TickStepTyped
          DEF Insert, InsertFails, Inv, TypeOK, dbVars, SnapshotsNotOlder, chainVars
<1>5. CASE rows' \in {rows, rows \cup {e}} /\ Advance(i, e, rest)
  <2>1. TicksTyped' /\ lastLedger' \in 0 .. height
    <3> HIDE DEF rest
    <3> QED BY <1>2, <1>3, <1>5, AdvanceTyped
  <2>2. rows' \subseteq chain
    BY <1>2, <1>5 DEF Inv, TypeOK
  <2> HIDE DEF rest
  <2> QED BY <2>1, <2>2, TickStepTyped
          DEF Insert, InsertFails, Inv, TypeOK, dbVars, SnapshotsNotOlder, chainVars
<1> QED BY <1>1, <1>4, <1>5 DEF Inserted

\* The snapshot shows the reserves as of the last change, and its event is one.
LEMMA SnapshotTyped ==
  ASSUME Inv, NEW i \in Ticks, ReadReserves(i) \/ StoreSnapshot(i) \/ SnapshotFails(i)
  PROVE  Inv'
<1> DEFINE e == tick[i].event
           rest == tick[i].page
<1>1. e \in chain /\ rest \in SUBSET chain
  BY PageOnChain DEF ReadReserves, StoreSnapshot, SnapshotFails
<1>2. UNCHANGED chainVars
  BY DEF ReadReserves, StoreSnapshot, SnapshotFails
<1>3. CASE ReadReserves(i)
  <2> DEFINE t == [pc |-> "store", event |-> e, page |-> rest, asOf |-> LastChange(e.pair)]
  <2>1. e.kind # "created"
    BY <1>3, PageOnChain DEF ReadReserves
  <2>2. LastChange(e.pair) \in 0 .. height /\ LastChange(e.pair) >= e.ledger
    BY <1>1, <2>1, LastChangeIsLast DEF Inv
  <2>3. TickTyped(t)
    BY <1>1, <2>2 DEF TickTyped
  <2>4. TicksTyped'
    <3>1. tick' = [tick EXCEPT ![i] = t]
      BY <1>3 DEF ReadReserves
    <3> HIDE DEF t
    <3> QED BY <1>2, <2>3, <3>1, TickSet DEF Inv
  <2> QED BY <1>3, <2>4, TickStepTyped
          DEF ReadReserves, Inv, TypeOK, dbVars, SnapshotsNotOlder, chainVars
<1>4. CASE StoreSnapshot(i)
  <2> DEFINE s == Snapshot(tick[i], e.ledger)
  <2>1. TicksTyped' /\ lastLedger' \in 0 .. height
    <3>1. Advance(i, e, rest)
      BY <1>4 DEF StoreSnapshot
    <3> HIDE DEF e, rest
    <3> QED BY <1>1, <1>2, <3>1, AdvanceTyped
  <2>2. snapshots' = snapshots \cup {s}
    BY <1>4 DEF StoreSnapshot
  <2>3. tick[i].asOf \in 0 .. height /\ tick[i].asOf >= e.ledger
    BY <1>4, PageOnChain DEF StoreSnapshot
  <2>4. e.pair \in Pairs /\ e.ledger \in 1 .. height
    BY <1>1 DEF Inv, ChainTyped
  <2>5. s \in [pair : Pairs, asOf : 0 .. height, ledger : 1 .. height] /\ s.asOf >= s.ledger
    BY <2>3, <2>4 DEF Snapshot
  <2> HIDE DEF s
  <2>6. snapshots' \subseteq [pair : Pairs, asOf : 0 .. height, ledger : 1 .. height]
    BY <2>2, <2>5 DEF Inv, TypeOK
  <2>7. SnapshotsNotOlder'
    BY <2>2, <2>5 DEF Inv, SnapshotsNotOlder
  <2> QED BY <1>4, <2>1, <2>6, <2>7, TickStepTyped DEF StoreSnapshot, Inv, TypeOK, chainVars
<1>5. CASE SnapshotFails(i)
  <2>1. TicksTyped' /\ lastLedger' \in 0 .. height
    <3>1. Advance(i, e, rest)
      BY <1>5 DEF SnapshotFails
    <3> HIDE DEF e, rest
    <3> QED BY <1>1, <1>2, <3>1, AdvanceTyped
  <2> QED BY <1>5, <2>1, TickStepTyped
          DEF SnapshotFails, Inv, TypeOK, dbVars, SnapshotsNotOlder, chainVars
<1> QED BY <1>3, <1>4, <1>5

\* The cursor becomes a ledger of the chain.
LEMMA SaveTyped ==
  ASSUME Inv, NEW i \in Ticks, SaveCursor(i) \/ SaveFails(i)
  PROVE  Inv'
<1>1. TicksTyped' /\ scheduled' \in BOOLEAN
  BY FinishTyped DEF SaveCursor, SaveFails
<1>2. cursor' \in 0 .. height
  BY PageOnChain DEF SaveCursor, SaveFails, Inv, TypeOK, dbVars
<1> QED BY <1>1, <1>2, TickStepTyped
        DEF SaveCursor, SaveFails, Inv, TypeOK, dbVars, SnapshotsNotOlder, chainVars

\* What a sequence over S holds.
LEMMA ElementsOfSeq ==
  ASSUME NEW S, NEW q \in Seq(S), NEW k \in DOMAIN q
  PROVE  k \in Nat /\ q[k] \in S
OBVIOUS

\* A ledger closes above all that is known.
LEMMA CloseTyped ==
  ASSUME Inv, NEW block \in Blocks, CloseLedger(block)
  PROVE  Inv' /\ chain \subseteq chain'
<1>1. height \in Nat /\ height + 1 \in Nat /\ height' = height + 1 /\ height' \in 0 .. MaxHeight
  BY ConfigAssumption DEF Inv, ChainTyped, CloseLedger
<1>2. \A n \in 0 .. height : n \in 0 .. height'
  BY <1>1
<1>3. \A n \in 1 .. height : n \in 1 .. height'
  BY <1>1
<1>4. height + 1 \in 1 .. height'
  BY <1>1
<1>5. ChainTyped' /\ chain \subseteq chain'
  <2>1. block \in Seq([kind : Kinds, pair : Pairs])
    BY ConfigAssumption
  <2>2. \A k \in DOMAIN block : k \in Nat /\ block[k].kind \in Kinds /\ block[k].pair \in Pairs
    <3> DEFINE S == [kind : Kinds, pair : Pairs]
    <3>1. block \in Seq(S)
      BY <2>1
    <3>2. \A k \in DOMAIN block : k \in Nat /\ block[k] \in S
      <4> HIDE DEF S
      <4> QED BY <3>1, ElementsOfSeq
    <3> QED BY <3>2
  <2>3. \A k \in DOMAIN block :
          Event(height + 1, k, block[k]) \in [ledger : 1 .. height', pos : Nat, kind : Kinds, pair : Pairs]
    BY <1>4, <2>2 DEF Event
  <2>4. \A e \in chain : e \in [ledger : 1 .. height', pos : Nat, kind : Kinds, pair : Pairs]
    BY <1>3 DEF Inv, ChainTyped
  <2> QED BY <1>1, <2>3, <2>4 DEF ChainTyped, CloseLedger
<1>6. TicksTyped'
  BY <1>2, <1>5 DEF Inv, TicksTyped, TickTyped, CloseLedger
<1>7. \A s \in snapshots : s \in [pair : Pairs, asOf : 0 .. height', ledger : 1 .. height']
  BY <1>2, <1>3 DEF Inv, TypeOK
<1>8. TypeOK'
  BY <1>1, <1>2, <1>5, <1>7 DEF Inv, TypeOK, CloseLedger, ChainTyped
<1> QED BY <1>5, <1>6, <1>8 DEF Inv, SnapshotsNotOlder, CloseLedger

\* The invariant holds at first, and every step keeps it.
LEMMA InitInv == Init => Inv
<1> SUFFICES ASSUME Init PROVE Inv
  OBVIOUS
<1>1. height = 0 /\ 0 \in 0 .. MaxHeight /\ 0 \in 0 .. MaxCrashes /\ 0 \in 0 .. height
  BY ConfigAssumption DEF Init
<1>2. TicksTyped
  BY DEF Init, TicksTyped, TickTyped
<1>3. TypeOK
  BY <1>1 DEF Init, TypeOK, Idle
<1> QED BY <1>1, <1>2, <1>3 DEF Init, Inv, ChainTyped, SnapshotsNotOlder

\* Every step of the indexer, and of the chain it reads, keeps the invariant.
LEMMA NextInv == Inv /\ [Next]_vars => Inv'
<1> SUFFICES ASSUME Inv, [Next]_vars PROVE Inv'
  OBVIOUS
<1>1. CASE UNCHANGED vars
  BY <1>1 DEF Inv, TypeOK, ChainTyped, TicksTyped, TickTyped, SnapshotsNotOlder, vars
<1>2. CASE Crash
  <2>1. crashes' \in 0 .. MaxCrashes
    BY <1>2, ConfigAssumption DEF Crash, Inv, TypeOK
  <2>2. 0 \in 0 .. height
    BY DEF Inv, ChainTyped
  <2> QED BY <1>2, <2>1, <2>2
          DEF Crash, Inv, TypeOK, ChainTyped, TicksTyped, TickTyped, SnapshotsNotOlder, dbVars, chainVars, Idle
<1>3. CASE Restart
  BY <1>3 DEF Restart, Inv, TypeOK, ChainTyped, TicksTyped, TickTyped, SnapshotsNotOlder, dbVars, chainVars
<1> QED
  BY <1>1, <1>2, <1>3, CloseTyped, AskedTyped, InsertTyped, SnapshotTyped, SaveTyped DEF Next

\* The types of the indexer, as they are proved.
THEOREM IndexerInv == Spec => []Inv
BY InitInv, NextInv, PTL DEF Spec

\* Whatever fails, whoever is killed and however many ticks overlap, cursor and
\* lastLedger stay on the chain and only events of it are stored.
THEOREM IndexerTyped == Spec => []TypeOK
<1>1. Inv => TypeOK
  BY DEF Inv
<1> QED BY <1>1, IndexerInv, PTL

\* No snapshot shows reserves from before the ledger it is filed under, for any
\* number of overlapping ticks and any failures.
THEOREM SnapshotsAreNotOlder == Spec => []SnapshotsNotOlder
<1>1. Inv => SnapshotsNotOlder
  BY DEF Inv
<1> QED BY <1>1, IndexerInv, PTL

-----------------------------------------------------------------------------
(* The cursor *)

(* One tick at a time, and inserts that do not fail.                       *)
OneTick == (\A i, j \in Ticks : i = j) /\ "insert" \notin Faults

(* No ledger has events both on a page and after it.                       *)
PagesEndWithLedgers ==
  \A start \in Nat : \A e \in EventsFrom(start) : \A f \in chain :
    f.ledger = e.ledger /\ Matches(f) => f \in EventsFrom(start)

Wanted(f) == f.kind # "sync" /\ Matches(f)

(* A pair is on the chain before it trades.                                *)
CreatedFirst ==
  \A e \in chain : e.kind # "created" =>
    \E f \in chain : f.kind = "created" /\ f.pair = e.pair /\ Before(f, e)

(* Every event to store is stored, on the page, or in a ledger after it.   *)
Covered(page) ==
  \A f \in chain : Wanted(f) => f \in rows \/ f \in page \/ \A e \in page : f.ledger > e.ledger

(* The event under way, and all of the ledgers up to it that is not on the *)
(* rest of the page.                                                       *)
CoveredBut(e, page) ==
  \A f \in chain : Wanted(f) =>
    f \in rows \/ f \in page \/ (f.ledger > e.ledger /\ \A g \in page : f.ledger > g.ledger)

NotBehind(page) == \A e \in page : lastLedger <= e.ledger

Reached(t) ==
  /\ t.pc = "idle" => Stored(lastLedger)
  /\ t.pc = "asked" => Stored(lastLedger) /\ t.start = lastLedger + 1
  /\ t.pc = "insert" => Covered(t.page) /\ NotBehind(t.page)
  /\ t.pc \in {"read", "store"} =>
       /\ CoveredBut(t.event, t.page)
       /\ lastLedger <= t.event.ledger /\ \A g \in t.page : t.event.ledger <= g.ledger
  /\ t.pc = "save" => Stored(lastLedger) /\ t.value = lastLedger

CursorInv ==
  /\ IsFiniteSet(chain) /\ CreatedFirst /\ CursorCovers
  /\ ~up => \A i \in Ticks : tick[i] = Idle
  /\ \A i \in Ticks : Reached(tick[i])

\* A page has every event to store of the ledgers before its own.
LEMMA PageIsPrefix ==
  ASSUME Inv, IsFiniteSet(chain), NEW start \in Nat,
         NEW e \in EventsFrom(start), NEW f \in chain,
         f.ledger < e.ledger, f.ledger >= start, Matches(f)
  PROVE  f \in EventsFrom(start)
<1> DEFINE found == {x \in chain : x.ledger >= start /\ Matches(x)}
           ahead(x) == {y \in found : Before(y, x)}
<1>1. e \in found /\ Cardinality(ahead(e)) < PageSize
  BY DEF EventsFrom
<1>2. \A x \in chain : x.ledger \in Nat /\ x.pos \in Nat
  BY DEF Inv, ChainTyped
<1>3. ahead(f) \subseteq ahead(e)
  BY <1>1, <1>2 DEF Before
<1>4. IsFiniteSet(ahead(e))
  BY FS_Subset
<1>5. Cardinality(ahead(f)) <= Cardinality(ahead(e)) /\ Cardinality(ahead(f)) \in Nat
      /\ Cardinality(ahead(e)) \in Nat
  <2> HIDE DEF ahead
  <2> QED BY <1>3, <1>4, FS_Subset, FS_CardinalityType
<1>6. Cardinality(ahead(f)) < PageSize
  <2> HIDE DEF ahead
  <2> QED BY <1>1, <1>5, ConfigAssumption
<1>7. f \in found
  OBVIOUS
<1> QED BY <1>6, <1>7 DEF EventsFrom

\* A page has every event to store from lastLedger on up to its own.
LEMMA PageHasAll ==
  ASSUME Inv, IsFiniteSet(chain), PagesEndWithLedgers,
         NEW e \in EventsFrom(lastLedger + 1), NEW f \in chain,
         Matches(f), ~(f.ledger <= lastLedger), f.ledger <= e.ledger
  PROVE  f \in EventsFrom(lastLedger + 1)
<1> DEFINE start == lastLedger + 1
<1>1. lastLedger \in Nat /\ start \in Nat
  BY DEF Inv, TypeOK, ChainTyped
<1>2. \A x \in chain : x.ledger \in Nat
  BY DEF Inv, ChainTyped
<1>3. f.ledger >= start
  BY <1>1, <1>2
<1>4. e \in chain
  BY DEF EventsFrom
<1>5. f.ledger = e.ledger \/ f.ledger < e.ledger
  BY <1>2, <1>4
<1> HIDE DEF start
<1>6. e \in EventsFrom(start)
  BY DEF start
<1>7. CASE f.ledger = e.ledger
  <2>1. f \in EventsFrom(start)
    BY <1>1, <1>6, <1>7 DEF PagesEndWithLedgers
  <2> QED BY <2>1 DEF start
<1>8. CASE f.ledger < e.ledger
  <2>1. f \in EventsFrom(start)
    BY <1>1, <1>3, <1>6, <1>8, PageIsPrefix
  <2> QED BY <2>1 DEF start
<1> QED BY <1>5, <1>7, <1>8

\* The reply of the node covers what is to be stored.
LEMMA PageCovers ==
  ASSUME Inv, IsFiniteSet(chain), PagesEndWithLedgers, Stored(lastLedger)
  PROVE  Covered(EventsFrom(lastLedger + 1)) /\ NotBehind(EventsFrom(lastLedger + 1))
<1> DEFINE page == EventsFrom(lastLedger + 1)
<1>1. lastLedger \in Nat
  BY DEF Inv, TypeOK, ChainTyped
<1>2. \A x \in chain : x.ledger \in Nat
  BY DEF Inv, ChainTyped
<1>3. ASSUME NEW f \in chain, Wanted(f), f \notin rows, NEW e \in page, f.ledger <= e.ledger
      PROVE  f \in page
  <2>1. ~(f.ledger <= lastLedger)
    BY <1>3 DEF Stored, Wanted
  <2> QED BY <1>3, <2>1, PageHasAll DEF Wanted
<1>4. Covered(page)
  <2>1. \A f \in chain, e \in page : f.ledger <= e.ledger \/ f.ledger > e.ledger
    BY <1>2 DEF EventsFrom
  <2> HIDE DEF page
  <2> QED BY <1>3, <2>1 DEF Covered
<1>5. NotBehind(page)
  BY <1>1, <1>2 DEF NotBehind, EventsFrom
<1> QED BY <1>4, <1>5

\* What is stored stays stored.
LEMMA StoredStays ==
  ASSUME NEW l, Stored(l), UNCHANGED chainVars, rows \subseteq rows'
  PROVE  \A e \in chain' : e.ledger <= l /\ e.kind # "sync" /\ Matches(e) => e \in rows'
BY DEF Stored, chainVars

\* The end of an event moves lastLedger to its ledger, all of which is stored
\* when the page ends.
LEMMA AdvanceReaches ==
  ASSUME Inv, NEW i \in Ticks, NEW e \in chain, NEW rest \in SUBSET chain,
         Advance(i, e, rest), UNCHANGED chainVars,
         lastLedger <= e.ledger, \A g \in rest : e.ledger <= g.ledger,
         \A f \in chain : Wanted(f) =>
           f \in rows' \/ f \in rest \/ (f.ledger > e.ledger /\ \A g \in rest : f.ledger > g.ledger)
  PROVE  Reached(tick[i])'
<1>1. \A x \in chain : x.ledger \in Nat
  BY DEF Inv, ChainTyped
<1>2. lastLedger' = e.ledger
  <2>1. lastLedger \in Nat /\ e.ledger \in Nat
    BY <1>1 DEF Inv, TypeOK
  <2> QED BY <2>1 DEF Advance, Later
<1>3. CASE rest = {}
  <2>1. tick'[i] = [pc |-> "save", value |-> lastLedger']
    BY <1>3 DEF Advance, Inv, TicksTyped
  <2>2. \A f \in chain : f.ledger <= e.ledger /\ Wanted(f) => f \in rows'
    BY <1>1, <1>3
  <2>3. Stored(lastLedger)'
    BY <1>2, <2>2 DEF Stored, Wanted, Matches, chainVars
  <2> QED BY <2>1, <2>3 DEF Reached
<1>4. CASE rest # {}
  <2>1. tick'[i] = [pc |-> "insert", page |-> rest]
    BY <1>4 DEF Advance, Inv, TicksTyped
  <2>2. \A f \in chain' : Wanted(f)' => f \in rows' \/ f \in rest \/ \A g \in rest : f.ledger > g.ledger
    BY DEF chainVars, Wanted, Matches
  <2>3. \A g \in rest : lastLedger' <= g.ledger
    BY <1>2
  <2> QED BY <2>1, <2>2, <2>3 DEF Reached, Covered, NotBehind
<1> QED BY <1>3, <1>4

\* A trade on the page finds the row of its pair.
LEMMA TradeRefers ==
  ASSUME Inv, CreatedFirst, NEW page \in SUBSET chain, Covered(page),
         NEW e \in First(page), e.kind # "created"
  PROVE  RefersToRow(e)
<1>1. e \in chain /\ e \in page
  BY DEF First
<1>2. PICK c \in chain : c.kind = "created" /\ c.pair = e.pair /\ Before(c, e)
  BY <1>1 DEF CreatedFirst
<1>3. Wanted(c)
  BY <1>2 DEF Wanted, Matches
<1>4. c \notin page
  BY <1>2 DEF First
<1>5. ~(c.ledger > e.ledger)
  <2>1. c.ledger \in Nat /\ e.ledger \in Nat
    BY <1>1 DEF Inv, ChainTyped
  <2> QED BY <1>2, <2>1 DEF Before
<1>6. c \in rows
  BY <1>1, <1>3, <1>4, <1>5 DEF Covered
<1> QED BY <1>2, <1>6 DEF RefersToRow

\* The insert stores the first event of the page.
LEMMA InsertReaches ==
  ASSUME Inv, CursorInv, NEW i \in Ticks, Insert(i)
  PROVE  Reached(tick[i])' /\ rows \subseteq rows'
<1> DEFINE page == tick[i].page
<1>1. PICK e \in First(page) : Inserted(i, e, page \ {e})
  BY DEF Insert
<1> DEFINE rest == page \ {e}
<1>2. page \in SUBSET chain /\ e \in page /\ e \in chain /\ rest \in SUBSET chain
  BY PageOnChain DEF Insert, First
<1>3. Covered(page) /\ NotBehind(page)
  BY DEF Insert, CursorInv, Reached
<1>4. UNCHANGED chainVars
  BY DEF Insert
<1>5. \A x \in chain : x.ledger \in Nat
  BY DEF Inv, ChainTyped
<1>6. lastLedger <= e.ledger /\ \A g \in rest : e.ledger <= g.ledger
  <2>1. \A g \in rest : ~(g.ledger < e.ledger)
    BY DEF First, Before
  <2> QED BY <1>2, <1>3, <1>5, <2>1 DEF NotBehind
<1>7. rows \subseteq rows'
  BY <1>1 DEF Inserted
<1>8. e.kind \in Kinds
  BY <1>2 DEF Inv, ChainTyped
<1>9. Wanted(e) => e \in rows'
  <2>1. e.kind # "created" => RefersToRow(e)
    <3> HIDE DEF page
    <3> QED BY <1>2, <1>3, TradeRefers DEF CursorInv
  <2> QED BY <1>1, <1>8, <2>1 DEF Wanted, Inserted
<1>10. \A f \in chain : Wanted(f) =>
         f \in rows' \/ f \in rest \/ (f.ledger > e.ledger /\ \A g \in rest : f.ledger > g.ledger)
  <2> HIDE DEF page
  <2> QED BY <1>2, <1>3, <1>7, <1>9 DEF Covered
<1>11. CASE Advance(i, e, rest)
  <2> HIDE DEF rest
  <2> QED BY <1>2, <1>4, <1>6, <1>7, <1>10, <1>11, AdvanceReaches
<1>12. CASE tick' = [tick EXCEPT ![i] = [pc |-> "read", event |-> e, page |-> rest]]
            /\ UNCHANGED lastLedger
  <2>1. tick'[i] = [pc |-> "read", event |-> e, page |-> rest]
    BY <1>12 DEF Inv, TicksTyped
  <2>2. \A f \in chain' : Wanted(f)' =>
          f \in rows' \/ f \in rest \/ (f.ledger > e.ledger /\ \A g \in rest : f.ledger > g.ledger)
    BY <1>4, <1>10 DEF Wanted, Matches, chainVars
  <2> HIDE DEF rest
  <2> QED BY <1>6, <1>7, <1>12, <2>1, <2>2 DEF Reached, CoveredBut
<1> QED BY <1>1, <1>11, <1>12 DEF Inserted

\* The end of a snapshot, stored or not, ends its event.
LEMMA SnapshotReaches ==
  ASSUME Inv, CursorInv, NEW i \in Ticks,
         ReadReserves(i) \/ StoreSnapshot(i) \/ SnapshotFails(i)
  PROVE  Reached(tick[i])' /\ UNCHANGED rows
<1> DEFINE e == tick[i].event
           rest == tick[i].page
<1>1. e \in chain /\ rest \in SUBSET chain
  BY PageOnChain DEF ReadReserves, StoreSnapshot, SnapshotFails
<1>2. UNCHANGED <<chainVars, rows>>
  BY DEF ReadReserves, StoreSnapshot, SnapshotFails, dbVars
<1>3. /\ CoveredBut(e, rest)
      /\ lastLedger <= e.ledger /\ \A g \in rest : e.ledger <= g.ledger
  BY DEF CursorInv, Reached, ReadReserves, StoreSnapshot, SnapshotFails
<1>4. \A f \in chain : Wanted(f) =>
        f \in rows' \/ f \in rest \/ (f.ledger > e.ledger /\ \A g \in rest : f.ledger > g.ledger)
  <2> HIDE DEF e, rest
  <2> QED BY <1>2, <1>3 DEF CoveredBut
<1>5. CASE ReadReserves(i)
  <2> DEFINE t == [pc |-> "store", event |-> e, page |-> rest, asOf |-> LastChange(e.pair)]
  <2>1. tick'[i] = t /\ UNCHANGED lastLedger
    BY <1>5 DEF ReadReserves, Inv, TicksTyped
  <2>2. tick'[i].pc = "store" /\ tick'[i].event = e /\ tick'[i].page = rest
    BY <2>1
  <2>3. \A f \in chain' : Wanted(f)' =>
          f \in rows' \/ f \in rest \/ (f.ledger > e.ledger /\ \A g \in rest : f.ledger > g.ledger)
    BY <1>2, <1>4 DEF Wanted, Matches, chainVars
  <2> HIDE DEF e, rest, t
  <2> QED BY <1>2, <1>3, <2>1, <2>2, <2>3 DEF Reached, CoveredBut
<1>6. CASE Advance(i, e, rest)
  <2> HIDE DEF e, rest
  <2> QED BY <1>1, <1>2, <1>3, <1>4, <1>6, AdvanceReaches
<1> QED BY <1>5, <1>6 DEF StoreSnapshot, SnapshotFails

\* The steps of the only tick there is.
LEMMA TickReaches ==
  ASSUME Inv, CursorInv, OneTick, PagesEndWithLedgers, NEW i \in Ticks,
         \/ StartTick(i) \/ Receive(i) \/ RpcFails(i)
         \/ Insert(i) \/ InsertFails(i)
         \/ ReadReserves(i) \/ StoreSnapshot(i) \/ SnapshotFails(i)
         \/ SaveCursor(i) \/ SaveFails(i)
  PROVE  CursorInv'
<1>1. UNCHANGED <<chainVars, up>>
  BY DEF StartTick, Receive, RpcFails, Insert, InsertFails, ReadReserves, StoreSnapshot,
         SnapshotFails, SaveCursor, SaveFails
<1>2. ASSUME Reached(tick[i])', rows \subseteq rows', CursorCovers', up
      PROVE  CursorInv'
  BY <1>1, <1>2 DEF CursorInv, OneTick, CreatedFirst, chainVars
<1>3. up
  BY DEF CursorInv, Idle, StartTick, Receive, RpcFails, Insert, InsertFails, ReadReserves,
         StoreSnapshot, SnapshotFails, SaveCursor, SaveFails
<1>4. ASSUME UNCHANGED cursor, rows \subseteq rows' PROVE CursorCovers'
  BY <1>1, <1>4 DEF CursorInv, CursorCovers, Stored, Matches, chainVars
<1>5. ASSUME Finish(i), UNCHANGED <<rows, lastLedger>>, Stored(lastLedger)
      PROVE  Reached(tick[i])'
  <2>1. tick'[i] = Idle
    BY <1>5 DEF Finish, Inv, TicksTyped
  <2>2. Stored(lastLedger)'
    BY <1>1, <1>5 DEF Stored, Matches, chainVars
  <2> QED BY <2>1, <2>2 DEF Reached, Idle
<1>6. CASE StartTick(i)
  <2>1. tick'[i] = [pc |-> "asked", start |-> lastLedger + 1]
    BY <1>6 DEF StartTick, Inv, TicksTyped
  <2>2. Stored(lastLedger)'
    BY <1>1, <1>6 DEF StartTick, CursorInv, Reached, Idle, Stored, Matches, chainVars, dbVars
  <2>3. Reached(tick[i])'
    BY <1>6, <2>1, <2>2 DEF Reached, StartTick
  <2> QED BY <1>2, <1>3, <1>4, <1>6, <2>3 DEF StartTick, dbVars
<1>7. CASE Receive(i)
  <2>1. Stored(lastLedger) /\ tick[i].start = lastLedger + 1
    BY <1>7 DEF Receive, CursorInv, Reached
  <2>2. UNCHANGED <<rows, cursor, lastLedger>>
    BY <1>7 DEF Receive, dbVars
  <2>3. Reached(tick[i])'
    <3> DEFINE page == EventsFrom(lastLedger + 1)
    <3>1. CASE page = {}
      BY <1>5, <1>7, <2>1, <2>2, <3>1 DEF Receive
    <3>2. CASE page # {}
      <4>1. tick'[i] = [pc |-> "insert", page |-> page]
        BY <1>7, <2>1, <3>2 DEF Receive, Inv, TicksTyped
      <4>2. Covered(page) /\ NotBehind(page)
        BY <2>1, PageCovers DEF CursorInv
      <4> HIDE DEF page
      <4>3. \A f \in chain' : Wanted(f)' => f \in rows' \/ f \in page \/ \A e \in page : f.ledger > e.ledger
        BY <1>1, <2>2, <4>2 DEF Covered, Wanted, Matches, chainVars
      <4> QED BY <2>2, <4>1, <4>2, <4>3 DEF Reached, Covered, NotBehind
    <3> QED BY <3>1, <3>2
  <2> QED BY <1>2, <1>3, <1>4, <2>2, <2>3
<1>8. CASE RpcFails(i)
  <2>1. Stored(lastLedger)
    BY <1>8 DEF RpcFails, CursorInv, Reached
  <2> QED BY <1>2, <1>3, <1>4, <1>5, <1>8, <2>1 DEF RpcFails, dbVars
<1>9. CASE Insert(i)
  BY <1>2, <1>3, <1>4, <1>9, InsertReaches DEF Insert
<1>10. CASE ReadReserves(i) \/ StoreSnapshot(i) \/ SnapshotFails(i)
  <2>1. UNCHANGED cursor
    BY <1>10 DEF ReadReserves, StoreSnapshot, SnapshotFails, dbVars
  <2> QED BY <1>2, <1>3, <1>4, <1>10, <2>1, SnapshotReaches
<1>11. CASE SaveCursor(i) \/ SaveFails(i)
  <2>1. Stored(lastLedger) /\ tick[i].value = lastLedger
    BY <1>11 DEF SaveCursor, SaveFails, CursorInv, Reached
  <2>2. Finish(i) /\ UNCHANGED <<rows, lastLedger>> /\ cursor' \in {cursor, lastLedger}
    BY <1>11, <2>1 DEF SaveCursor, SaveFails, dbVars
  <2>3. CursorCovers'
    BY <1>1, <2>1, <2>2 DEF CursorInv, CursorCovers, Stored, Matches, chainVars
  <2> QED BY <1>2, <1>3, <1>5, <2>1, <2>2, <2>3
<1> QED BY <1>6, <1>7, <1>8, <1>9, <1>10, <1>11 DEF InsertFails, OneTick

\* The events of a new ledger come after all that a tick knows of.
LEMMA CloseReaches ==
  ASSUME Inv, CursorInv, NEW block \in Blocks, CloseLedger(block)
  PROVE  CursorInv'
<1> DEFINE new == {Event(height + 1, k, block[k]) : k \in DOMAIN block}
<1>1. chain' = chain \cup new
  BY DEF CloseLedger
<1>2. block \in Seq([kind : Kinds, pair : Pairs])
  BY ConfigAssumption
<1>3. DOMAIN block = 1 .. Len(block) /\ Len(block) \in Nat
  BY <1>2
<1>4. IsFiniteSet(chain')
  <2>1. IsFiniteSet(DOMAIN block)
    BY <1>3, FS_Interval
  <2>2. IsFiniteSet(new)
    <3> DEFINE g == [k \in DOMAIN block |-> Event(height + 1, k, block[k])]
    <3>1. g \in Surjection(DOMAIN block, new)
      BY DEF Surjection
    <3> HIDE DEF g, new
    <3> QED BY <2>1, <3>1, FS_Surjection
  <2> HIDE DEF new
  <2> QED BY <1>1, <2>2, FS_Union DEF CursorInv
<1>5. height \in Nat /\ \A f \in new : f.ledger = height + 1
  BY DEF Inv, ChainTyped, Event
<1>6. CreatedFirst'
  <2> SUFFICES ASSUME NEW e \in chain', e.kind # "created"
               PROVE  \E f \in chain' : f.kind = "created" /\ f.pair = e.pair /\ Before(f, e)
    BY DEF CreatedFirst
  <2>1. CASE e \in chain
    BY <1>1, <2>1 DEF CursorInv, CreatedFirst
  <2>2. CASE e \in new
    <3>1. PICK k \in DOMAIN block : e = Event(height + 1, k, block[k])
      BY <2>2
    <3>2. block[k].kind # "created"
      BY <3>1 DEF Event
    <3>3. \/ \E j \in 1 .. k - 1 : block[j].kind = "created" /\ block[j].pair = block[k].pair
          \/ Created(block[k].pair)
      BY <3>2 DEF CloseLedger, LegalBlock
    <3>4. CASE \E j \in 1 .. k - 1 : block[j].kind = "created" /\ block[j].pair = block[k].pair
      <4>1. PICK j \in 1 .. k - 1 : block[j].kind = "created" /\ block[j].pair = block[k].pair
        BY <3>4
      <4>2. j \in DOMAIN block /\ j < k
        BY <1>3
      <4> DEFINE f == Event(height + 1, j, block[j])
      <4>3. f \in chain'
        BY <1>1, <4>2
      <4>4. f.kind = "created" /\ f.pair = e.pair /\ Before(f, e)
        BY <3>1, <4>1, <4>2 DEF Event, Before
      <4> QED BY <4>3, <4>4
    <3>5. CASE Created(block[k].pair)
      <4>1. PICK f \in chain : f.kind = "created" /\ f.pair = block[k].pair
        BY <3>5 DEF Created
      <4>2. f.ledger \in 1 .. height /\ e.ledger = height + 1 /\ e.pair = block[k].pair
        BY <3>1 DEF Inv, ChainTyped, Event
      <4>3. Before(f, e)
        BY <1>5, <4>2 DEF Before
      <4> QED BY <1>1, <4>1, <4>2, <4>3
    <3> QED BY <3>3, <3>4, <3>5
  <2> QED BY <1>1, <2>1, <2>2
<1>7. \A l \in 0 .. height : \A f \in new : f.ledger > l
  BY <1>5
<1>8. \A e \in chain : \A f \in new : f.ledger > e.ledger
  BY <1>5 DEF Inv, ChainTyped
<1>9. ASSUME NEW l \in 0 .. height, Stored(l)
      PROVE  \A e \in chain' : e.ledger <= l /\ e.kind # "sync" /\ Matches(e) => e \in rows
  <2>1. \A f \in new : ~(f.ledger <= l)
    BY <1>5
  <2> HIDE DEF new
  <2> QED BY <1>1, <1>9, <2>1 DEF Stored
<1>10. CursorCovers'
  BY <1>9 DEF CursorInv, CursorCovers, Stored, Matches, CloseLedger, Inv, TypeOK
<1>11. ASSUME NEW i \in Ticks PROVE Reached(tick[i])'
  <2> DEFINE t == tick[i]
  <2>1. UNCHANGED <<tick, rows, lastLedger>> /\ Reached(t)
    BY DEF CloseLedger, CursorInv
  <2>2. Stored(lastLedger) => Stored(lastLedger)'
    BY <1>9, <2>1 DEF Stored, Matches, Inv, TypeOK
  <2> HIDE DEF new
  <2>3. CASE t.pc \in {"idle", "asked", "save"}
    BY <2>1, <2>2, <2>3 DEF Reached
  <2>4. CASE t.pc = "insert"
    <3>1. Covered(t.page) /\ NotBehind(t.page) /\ t.page \subseteq chain
      BY <2>1, <2>4, PageOnChain DEF Reached
    <3>2. Covered(t.page)'
      BY <1>1, <1>8, <2>1, <3>1 DEF Covered, Wanted, Matches
    <3> QED BY <2>1, <2>4, <3>1, <3>2 DEF Reached, NotBehind
  <2>5. CASE t.pc \in {"read", "store"}
    <3>1. CoveredBut(t.event, t.page) /\ t.page \subseteq chain /\ t.event \in chain
      BY <2>1, <2>5, PageOnChain DEF Reached
    <3>2. CoveredBut(t.event, t.page)'
      BY <1>1, <1>8, <2>1, <3>1 DEF CoveredBut, Wanted, Matches
    <3> QED BY <2>1, <2>5, <3>2 DEF Reached
  <2>6. t.pc \in {"idle", "asked", "insert", "read", "store", "save"}
    BY DEF Inv, TypeOK
  <2> QED BY <2>3, <2>4, <2>5, <2>6
<1> QED BY <1>4, <1>6, <1>10, <1>11 DEF CursorInv, CloseLedger

\* Nothing is below the first ledger.
LEMMA NothingBelow ==
  ASSUME ChainTyped, lastLedger = 0
  PROVE  Stored(lastLedger)
<1>1. \A e \in chain : ~(e.ledger <= 0)
  BY DEF ChainTyped
<1> QED BY <1>1 DEF Stored

\* The cursor holds at first.
LEMMA InitCursor == Init => CursorInv
BY FS_EmptySet DEF Init, CursorInv, CreatedFirst, CursorCovers, Stored, Reached, Idle

\* Every step keeps the cursor.
LEMMA NextCursor ==
  ASSUME OneTick
  PROVE  Inv /\ Inv' /\ CursorInv /\ PagesEndWithLedgers /\ [Next]_vars => CursorInv'
<1> SUFFICES ASSUME Inv, Inv', CursorInv, PagesEndWithLedgers, [Next]_vars PROVE CursorInv'
  OBVIOUS
<1>1. CASE UNCHANGED vars
  BY <1>1 DEF CursorInv, CreatedFirst, CursorCovers, Stored, Reached, Covered, CoveredBut,
              NotBehind, Wanted, Matches, vars
<1>2. CASE Crash
  <2>1. Stored(lastLedger)'
    BY <1>2, NothingBelow DEF Crash, Inv, ChainTyped, Stored, Matches, chainVars
  <2>2. \A i \in Ticks : tick'[i] = Idle
    BY <1>2 DEF Crash
  <2>3. \A i \in Ticks : Reached(tick[i])'
    BY <2>1, <2>2 DEF Reached, Idle
  <2> QED BY <1>2, <2>2, <2>3
          DEF Crash, CursorInv, CreatedFirst, CursorCovers, Stored, Matches, chainVars, dbVars
<1>3. CASE Restart
  <2>1. \A i \in Ticks : tick'[i] = Idle
    BY <1>3 DEF Restart, CursorInv
  <2>2. Stored(lastLedger)' /\ CursorCovers'
    BY <1>3 DEF Restart, CursorInv, CursorCovers, Stored, Matches, chainVars, dbVars
  <2>3. \A i \in Ticks : Reached(tick[i])'
    BY <2>1, <2>2 DEF Reached, Idle
  <2> QED BY <1>3, <2>2, <2>3 DEF Restart, CursorInv, CreatedFirst, chainVars
<1> QED BY <1>1, <1>2, <1>3, CloseReaches, TickReaches DEF Next

\* Without overlapping ticks, with inserts that do not fail and with pages that
\* end where a ledger does, every event behind the cursor is stored, however
\* often the process is killed and whatever else fails.
THEOREM CursorIsSafe ==
  ASSUME OneTick
  PROVE  Spec /\ []PagesEndWithLedgers => []CursorCovers
<1>1. CursorInv => CursorCovers
  BY DEF CursorInv
<1> QED BY <1>1, InitCursor, NextCursor, IndexerInv, PTL DEF Spec

-----------------------------------------------------------------------------
(***************************************************************************)
(* The snapshots.  A trade behind the cursor has a snapshot of its ledger: *)
(* it is taken again if the process was killed before it was stored.  As   *)
(* no snapshot is filed after the last change of its pair, and none shows  *)
(* reserves from before its ledger, the newest one shows that change.      *)
(***************************************************************************)

(* Pairs change by trades only; nobody calls sync.                         *)
NoSyncs == \A e \in chain : e.kind # "sync"

Traded(e) == e.kind = "trade" /\ e.pair \in Followed

Pictured(e) == \E s \in snapshots : s.pair = e.pair /\ s.ledger = e.ledger

Shown(l) == \A e \in chain : e.ledger <= l /\ Traded(e) => Pictured(e)

(* What has a snapshot, is on the page, or comes after it.                 *)
ShownBut(page) ==
  \A f \in chain : Traded(f) =>
    Pictured(f) \/ f \in page \/ \A g \in page : f.ledger > g.ledger

(* The event under way, and all of the ledgers up to it that is not on the *)
(* rest of the page.                                                       *)
ShownButFor(e, page) ==
  \A f \in chain : Traded(f) =>
    \/ Pictured(f) \/ f = e \/ f \in page
    \/ f.ledger > e.ledger /\ \A g \in page : f.ledger > g.ledger

Showing(t) ==
  /\ t.pc \in {"idle", "asked", "save"} => Shown(lastLedger)
  /\ t.pc = "insert" => ShownBut(t.page)
  /\ t.pc \in {"read", "store"} => ShownButFor(t.event, t.page)
  /\ t.pc = "store" => t.asOf <= LastChange(t.event.pair)

ShowInv ==
  /\ Shown(cursor)
  /\ \A s \in snapshots : s.asOf <= LastChange(s.pair)
  /\ \A i \in Ticks : Showing(tick[i])

\* The end of an event, of which there is a snapshot if it is a trade.
LEMMA AdvanceShows ==
  ASSUME Inv, NEW i \in Ticks, NEW e \in chain, NEW rest \in SUBSET chain,
         Advance(i, e, rest), UNCHANGED chainVars,
         lastLedger <= e.ledger, \A g \in rest : e.ledger <= g.ledger,
         \A f \in chain : Traded(f) =>
           Pictured(f)' \/ f \in rest \/ (f.ledger > e.ledger /\ \A g \in rest : f.ledger > g.ledger)
  PROVE  Showing(tick[i])'
<1>1. \A x \in chain : x.ledger \in Nat
  BY DEF Inv, ChainTyped
<1>2. lastLedger' = e.ledger
  <2>1. lastLedger \in Nat /\ e.ledger \in Nat
    BY <1>1 DEF Inv, TypeOK
  <2> QED BY <2>1 DEF Advance, Later
<1>3. CASE rest = {}
  <2>1. tick'[i] = [pc |-> "save", value |-> lastLedger']
    BY <1>3 DEF Advance, Inv, TicksTyped
  <2>2. \A f \in chain : f.ledger <= e.ledger /\ Traded(f) => Pictured(f)'
    BY <1>1, <1>3
  <2>3. Shown(lastLedger)'
    BY <1>2, <2>2 DEF Shown, Traded, Pictured, chainVars
  <2> QED BY <2>1, <2>3 DEF Showing
<1>4. CASE rest # {}
  <2>1. tick'[i] = [pc |-> "insert", page |-> rest]
    BY <1>4 DEF Advance, Inv, TicksTyped
  <2>2. ShownBut(rest)'
    BY DEF ShownBut, chainVars, Traded, Pictured
  <2> QED BY <2>1, <2>2 DEF Showing
<1> QED BY <1>3, <1>4

\* After the insert of a trade its snapshot follows.
LEMMA InsertShows ==
  ASSUME Inv, CursorInv, ShowInv, NEW i \in Ticks, Insert(i)
  PROVE  Showing(tick[i])'
<1> DEFINE page == tick[i].page
<1>1. PICK e \in First(page) : Inserted(i, e, page \ {e})
  BY DEF Insert
<1> DEFINE rest == page \ {e}
<1>2. page \in SUBSET chain /\ e \in page /\ e \in chain /\ rest \in SUBSET chain
  BY PageOnChain DEF Insert, First
<1>3. Covered(page) /\ NotBehind(page) /\ ShownBut(page)
  BY DEF Insert, CursorInv, Reached, ShowInv, Showing
<1>4. UNCHANGED <<chainVars, snapshots>>
  BY DEF Insert
<1>5. \A x \in chain : x.ledger \in Nat
  BY DEF Inv, ChainTyped
<1>6. lastLedger <= e.ledger /\ \A g \in rest : e.ledger <= g.ledger
  <2>1. \A g \in rest : ~(g.ledger < e.ledger)
    BY DEF First, Before
  <2> QED BY <1>2, <1>3, <1>5, <2>1 DEF NotBehind
<1>7. \A f \in chain : Traded(f) =>
        \/ Pictured(f)' \/ f = e \/ f \in rest
        \/ f.ledger > e.ledger /\ \A g \in rest : f.ledger > g.ledger
  <2> HIDE DEF page
  <2> QED BY <1>2, <1>3, <1>4 DEF ShownBut, Pictured
<1>8. CASE Advance(i, e, rest) /\ ~Traded(e)
  <2>1. \A f \in chain : Traded(f) =>
          Pictured(f)' \/ f \in rest \/ (f.ledger > e.ledger /\ \A g \in rest : f.ledger > g.ledger)
    <3> HIDE DEF rest
    <3> QED BY <1>7, <1>8
  <2> HIDE DEF rest
  <2> QED BY <1>2, <1>4, <1>6, <1>8, <2>1, AdvanceShows
<1>9. CASE tick' = [tick EXCEPT ![i] = [pc |-> "read", event |-> e, page |-> rest]]
  <2>1. tick'[i] = [pc |-> "read", event |-> e, page |-> rest]
    BY <1>9 DEF Inv, TicksTyped
  <2> HIDE DEF rest
  <2>2. \A f \in chain' : Traded(f)' =>
          \/ Pictured(f)' \/ f = e \/ f \in rest
          \/ f.ledger > e.ledger /\ \A g \in rest : f.ledger > g.ledger
    BY <1>4, <1>7 DEF Traded, chainVars
  <2>3. tick'[i].pc = "read" /\ tick'[i].event = e /\ tick'[i].page = rest
    BY <2>1
  <2> QED BY <2>2, <2>3 DEF Showing, ShownButFor
<1>10. e.kind # "created" => RefersToRow(e)
  <2> HIDE DEF page
  <2> QED BY <1>2, <1>3, TradeRefers DEF CursorInv
<1> QED BY <1>1, <1>8, <1>9, <1>10 DEF Inserted, Traded

\* The reserves are read before they are stored, and both are steps of the
\* same event, which has a snapshot then.
LEMMA SnapshotShows ==
  ASSUME Inv, CursorInv, ShowInv, NEW i \in Ticks, ReadReserves(i) \/ StoreSnapshot(i)
  PROVE  Showing(tick[i])' /\ \A s \in snapshots' : s.asOf <= LastChange(s.pair)'
<1>1. PICK e \in chain, rest \in SUBSET chain : e = tick[i].event /\ rest = tick[i].page
  BY PageOnChain DEF ReadReserves, StoreSnapshot
<1>2. UNCHANGED chainVars
  BY DEF ReadReserves, StoreSnapshot
<1>3. \A p : LastChange(p)' = LastChange(p)
  BY <1>2 DEF LastChange, Changes, chainVars
<1>4. ShownButFor(e, rest) /\ lastLedger <= e.ledger /\ \A g \in rest : e.ledger <= g.ledger
  BY <1>1 DEF CursorInv, Reached, ShowInv, Showing, ReadReserves, StoreSnapshot
<1>5. CASE ReadReserves(i)
  <2>1. PICK t : /\ t = [pc |-> "store", event |-> e, page |-> rest, asOf |-> LastChange(e.pair)]
                 /\ tick'[i] = t /\ UNCHANGED snapshots
    BY <1>1, <1>5 DEF ReadReserves, Inv, TicksTyped, dbVars
  <2>2. t.pc = "store" /\ t.event = e /\ t.page = rest /\ t.asOf = LastChange(e.pair)
    BY <2>1
  <2>3. ShownButFor(t.event, t.page)'
    BY <1>2, <1>4, <2>1, <2>2 DEF ShownButFor, Traded, Pictured, chainVars
  <2>4. LastChange(e.pair) \in Nat
    BY LastChangeIsLast DEF Inv, ChainTyped
  <2>5. t.asOf <= LastChange(t.event.pair)'
    BY <1>3, <2>2, <2>4
  <2>6. Showing(t)'
    BY <2>2, <2>3, <2>5 DEF Showing
  <2>7. Showing(tick[i])'
    BY <2>1, <2>6 DEF Showing, ShownButFor, Traded, Pictured, LastChange, Changes
  <2> QED BY <1>3, <2>1, <2>7 DEF ShowInv
<1>6. CASE StoreSnapshot(i)
  <2>1. PICK s : s = Snapshot(tick[i], e.ledger) /\ snapshots' = snapshots \cup {s}
    BY <1>1, <1>6 DEF StoreSnapshot
  <2>2. s.pair = e.pair /\ s.ledger = e.ledger /\ s.asOf = tick[i].asOf
    BY <1>1, <2>1 DEF Snapshot
  <2>3. tick[i].asOf <= LastChange(e.pair)
    BY <1>1, <1>6 DEF StoreSnapshot, ShowInv, Showing
  <2>4. \A x \in snapshots' : x.asOf <= LastChange(x.pair)'
    BY <1>3, <2>1, <2>2, <2>3 DEF ShowInv
  <2>5. Pictured(e)' /\ \A f : Pictured(f) => Pictured(f)'
    BY <2>1, <2>2 DEF Pictured
  <2>6. \A f \in chain : Traded(f) =>
          Pictured(f)' \/ f \in rest \/ (f.ledger > e.ledger /\ \A g \in rest : f.ledger > g.ledger)
    BY <1>4, <2>5 DEF ShownButFor
  <2>7. Advance(i, e, rest)
    BY <1>1, <1>6 DEF StoreSnapshot
  <2>8. Showing(tick[i])'
    BY <1>2, <1>4, <2>6, <2>7, AdvanceShows
  <2> QED BY <2>4, <2>8
<1> QED BY <1>5, <1>6

\* The steps of the only tick there is, whose snapshots do not fail.
LEMMA TickShows ==
  ASSUME Inv, CursorInv, ShowInv, OneTick, "snapshot" \notin Faults, PagesEndWithLedgers,
         NEW i \in Ticks,
         \/ StartTick(i) \/ Receive(i) \/ RpcFails(i)
         \/ Insert(i) \/ InsertFails(i)
         \/ ReadReserves(i) \/ StoreSnapshot(i) \/ SnapshotFails(i)
         \/ SaveCursor(i) \/ SaveFails(i)
  PROVE  ShowInv'
<1>1. UNCHANGED chainVars
  BY DEF StartTick, Receive, RpcFails, Insert, InsertFails, ReadReserves, StoreSnapshot,
         SnapshotFails, SaveCursor, SaveFails
<1>2. /\ \A p : LastChange(p)' = LastChange(p)
      /\ \A f : Traded(f)' <=> Traded(f)
  BY <1>1 DEF LastChange, Changes, Traded, chainVars
<1>3. ASSUME Showing(tick[i])', UNCHANGED <<snapshots, cursor>>
      PROVE  ShowInv'
  BY <1>1, <1>2, <1>3 DEF ShowInv, OneTick, Shown, Pictured, chainVars
<1>4. ASSUME Finish(i), UNCHANGED <<snapshots, lastLedger>>, Shown(lastLedger)
      PROVE  Showing(tick[i])'
  <2>1. tick'[i] = Idle
    BY <1>4 DEF Finish, Inv, TicksTyped
  <2>2. Shown(lastLedger)'
    BY <1>1, <1>2, <1>4 DEF Shown, Pictured, chainVars
  <2> QED BY <2>1, <2>2 DEF Showing, Idle
<1>5. CASE StartTick(i)
  <2>1. tick'[i] = [pc |-> "asked", start |-> lastLedger + 1]
    BY <1>5 DEF StartTick, Inv, TicksTyped
  <2>2. UNCHANGED <<snapshots, cursor, lastLedger>>
    BY <1>5 DEF StartTick, dbVars
  <2>3. Shown(lastLedger)
    BY <1>5 DEF StartTick, ShowInv, Showing, Idle
  <2>4. Shown(lastLedger)'
    BY <1>1, <1>2, <2>2, <2>3 DEF Shown, Pictured, chainVars
  <2>5. Showing(tick[i])'
    BY <2>1, <2>4 DEF Showing
  <2> QED BY <1>3, <2>2, <2>5
<1>6. CASE Receive(i)
  <2>1. Shown(lastLedger) /\ tick[i].start = lastLedger + 1
    BY <1>6 DEF Receive, CursorInv, Reached, ShowInv, Showing
  <2>2. UNCHANGED <<snapshots, cursor, lastLedger>>
    BY <1>6 DEF Receive, dbVars
  <2> DEFINE page == EventsFrom(lastLedger + 1)
  <2>3. CASE page = {}
    BY <1>3, <1>4, <1>6, <2>1, <2>2, <2>3 DEF Receive
  <2>4. CASE page # {}
    <3>1. tick'[i] = [pc |-> "insert", page |-> page]
      BY <1>6, <2>1, <2>4 DEF Receive, Inv, TicksTyped
    <3>2. ASSUME NEW f \in chain, Traded(f), ~Pictured(f), f \notin page, NEW g \in page
          PROVE  f.ledger > g.ledger
      <4>1. ~(f.ledger <= lastLedger) /\ Matches(f)
        BY <2>1, <3>2 DEF Shown, Traded, Matches
      <4>2. ~(f.ledger <= g.ledger)
        BY <3>2, <4>1, PageHasAll DEF CursorInv
      <4>3. f.ledger \in Nat /\ g.ledger \in Nat
        BY DEF EventsFrom, Inv, ChainTyped
      <4> QED BY <4>2, <4>3
    <3> HIDE DEF page
    <3>3. \A f \in chain' : Traded(f)' =>
            Pictured(f)' \/ f \in page \/ \A g \in page : f.ledger > g.ledger
      BY <1>1, <1>2, <2>2, <3>2 DEF Pictured, chainVars
    <3>4. tick'[i].pc = "insert" /\ tick'[i].page = page
      BY <3>1
    <3>5. Showing(tick[i])'
      BY <3>3, <3>4 DEF Showing, ShownBut
    <3> QED BY <1>3, <2>2, <3>5
  <2> QED BY <2>3, <2>4
<1>7. CASE RpcFails(i)
  <2>1. Shown(lastLedger)
    BY <1>7 DEF RpcFails, ShowInv, Showing
  <2> QED BY <1>3, <1>4, <1>7, <2>1 DEF RpcFails, dbVars
<1>8. CASE Insert(i)
  BY <1>3, <1>8, InsertShows DEF Insert
<1>9. CASE ReadReserves(i) \/ StoreSnapshot(i)
  <2>1. UNCHANGED cursor /\ snapshots \subseteq snapshots'
    BY <1>9 DEF ReadReserves, StoreSnapshot, dbVars
  <2>2. Shown(cursor)'
    BY <1>1, <1>2, <2>1 DEF ShowInv, Shown, Pictured, chainVars
  <2>3. \A s \in snapshots' : s.asOf <= LastChange(s.pair)'
    BY <1>9, SnapshotShows
  <2>4. Showing(tick[i])'
    BY <1>9, SnapshotShows
  <2> QED BY <2>2, <2>3, <2>4 DEF ShowInv, OneTick
<1>10. CASE SaveCursor(i) \/ SaveFails(i)
  <2>1. Shown(lastLedger) /\ tick[i].value = lastLedger
    BY <1>10 DEF SaveCursor, SaveFails, CursorInv, Reached, ShowInv, Showing
  <2>2. Finish(i) /\ UNCHANGED <<snapshots, lastLedger>> /\ cursor' \in {cursor, lastLedger}
    BY <1>10, <2>1 DEF SaveCursor, SaveFails, dbVars
  <2>3. Shown(cursor)'
    BY <1>1, <1>2, <2>1, <2>2 DEF ShowInv, Shown, Pictured, chainVars
  <2>4. Showing(tick[i])'
    BY <1>4, <2>1, <2>2
  <2>5. \A s \in snapshots' : s.asOf <= LastChange(s.pair)'
    BY <1>2, <2>2 DEF ShowInv
  <2> QED BY <2>3, <2>4, <2>5 DEF ShowInv, OneTick
<1> QED BY <1>5, <1>6, <1>7, <1>8, <1>9, <1>10 DEF InsertFails, SnapshotFails, OneTick

\* The last change of a pair does not come earlier as the chain grows.
LEMMA LastChangeGrows ==
  ASSUME ChainTyped, ChainTyped', chain \subseteq chain', NEW p
  PROVE  LastChange(p) <= LastChange(p)' /\ LastChange(p) \in Nat /\ LastChange(p)' \in Nat
<1> DEFINE T == {0} \cup {e.ledger : e \in {f \in chain : f.pair = p /\ f.kind # "created"}}
           U == {0} \cup {e.ledger : e \in {f \in chain' : f.pair = p /\ f.kind # "created"}}
<1>1. /\ height \in Nat /\ \A e \in chain : e.ledger \in 0 .. height
      /\ height' \in Nat /\ \A e \in chain' : e.ledger \in 0 .. height'
  BY DEF ChainTyped
<1>2. T \in SUBSET (0 .. height) /\ U \in SUBSET (0 .. height') /\ T \subseteq U /\ T # {} /\ U # {}
  BY <1>1
<1>3. LastChange(p) = Max(T) /\ LastChange(p)' = Max(U)
  BY DEF LastChange, Changes
<1> HIDE DEF T, U
<1>4. Max(T) \in T /\ Max(U) \in U /\ \A y \in U : Max(U) >= y
  BY <1>1, <1>2, MaxOfNaturals
<1>5. Max(T) \in 0 .. height /\ Max(U) \in 0 .. height' /\ Max(T) \in U
  BY <1>2, <1>4
<1>6. Max(T) \in Nat /\ Max(U) \in Nat
  BY <1>1, <1>5
<1>7. Max(U) >= Max(T)
  BY <1>4, <1>5
<1> QED BY <1>3, <1>6, <1>7

\* A new ledger comes after all that has a snapshot or is to have one.
LEMMA CloseShows ==
  ASSUME Inv, Inv', CursorInv, ShowInv, NEW block \in Blocks, CloseLedger(block)
  PROVE  ShowInv'
<1>1. height' = height + 1 /\ height \in Nat /\ chain \subseteq chain'
  BY DEF CloseLedger, Inv, ChainTyped
<1>2. UNCHANGED <<tick, snapshots, cursor, lastLedger>>
  BY DEF CloseLedger
<1>3. \A f \in chain' : f \in chain \/ f.ledger = height + 1
  BY DEF CloseLedger, Event
<1>4. \A p : LastChange(p) <= LastChange(p)' /\ LastChange(p) \in Nat /\ LastChange(p)' \in Nat
  BY <1>1, LastChangeGrows DEF Inv
<1>5. ASSUME NEW l \in 0 .. height, Shown(l)
      PROVE  \A e \in chain' : e.ledger <= l /\ Traded(e)' => Pictured(e)'
  <2>1. ~(height + 1 <= l)
    BY <1>1
  <2> QED BY <1>2, <1>3, <1>5, <2>1 DEF Shown, Traded, Pictured
<1>6. Shown(cursor)'
  BY <1>2, <1>5 DEF ShowInv, Shown, Inv, TypeOK
<1>7. \A s \in snapshots' : s.asOf <= LastChange(s.pair)'
  <2> SUFFICES ASSUME NEW s \in snapshots
               PROVE  s.asOf <= LastChange(s.pair)'
    BY <1>2
  <2>1. s.asOf \in Nat
    BY <1>1 DEF Inv, TypeOK
  <2>2. s.asOf <= LastChange(s.pair)
    BY DEF ShowInv
  <2> QED BY <1>4, <2>1, <2>2
<1>8. ASSUME NEW i \in Ticks PROVE Showing(tick[i])'
  <2>1. PICK t : t = tick[i]
    OBVIOUS
  <2>2. t = tick'[i] /\ Showing(t)
    BY <1>2, <2>1 DEF ShowInv
  <2>3. t.pc \in {"idle", "asked", "save"} => Shown(lastLedger)'
    BY <1>2, <1>5, <2>2 DEF Showing, Shown, Inv, TypeOK
  <2>4. \A g \in chain : height + 1 > g.ledger
    BY <1>1 DEF Inv, ChainTyped
  <2>5. ASSUME t.pc = "insert" PROVE ShownBut(t.page)'
    <3>1. t.page \subseteq chain /\ ShownBut(t.page)
      BY <2>1, <2>2, <2>5, PageOnChain DEF Showing
    <3> QED BY <1>2, <1>3, <2>4, <3>1 DEF ShownBut, Traded, Pictured
  <2>6. ASSUME t.pc \in {"read", "store"} PROVE ShownButFor(t.event, t.page)'
    <3>1. t.page \subseteq chain /\ t.event \in chain /\ ShownButFor(t.event, t.page)
      BY <2>1, <2>2, <2>6, PageOnChain DEF Showing
    <3> QED BY <1>2, <1>3, <2>4, <3>1 DEF ShownButFor, Traded, Pictured
  <2>7. ASSUME t.pc = "store" PROVE t.asOf <= LastChange(t.event.pair)'
    <3>1. t.asOf \in Nat
      BY <1>1, <2>1, <2>7, PageOnChain
    <3>2. t.asOf <= LastChange(t.event.pair)
      BY <2>2, <2>7 DEF Showing
    <3> QED BY <1>4, <3>1, <3>2
  <2>8. Showing(t)'
    BY <2>3, <2>5, <2>6, <2>7 DEF Showing
  <2> QED BY <2>2, <2>8 DEF Showing, ShownBut, ShownButFor, Traded, Pictured, Shown, LastChange, Changes
<1> QED BY <1>6, <1>7, <1>8 DEF ShowInv

\* There is nothing to show at first.
LEMMA InitShows == Init => ShowInv
BY DEF Init, ShowInv, Shown, Showing, Idle

\* Every step keeps what is shown.
LEMMA NextShows ==
  ASSUME OneTick, "snapshot" \notin Faults
  PROVE  Inv /\ Inv' /\ CursorInv /\ ShowInv /\ PagesEndWithLedgers /\ [Next]_vars => ShowInv'
<1> SUFFICES ASSUME Inv, Inv', CursorInv, ShowInv, PagesEndWithLedgers, [Next]_vars PROVE ShowInv'
  OBVIOUS
<1>1. CASE UNCHANGED vars
  BY <1>1 DEF ShowInv, Shown, ShownBut, ShownButFor, Showing, Traded, Pictured, LastChange, Changes, vars
<1>2. CASE Crash \/ Restart
  <2>1. UNCHANGED <<chainVars, snapshots, cursor>>
    BY <1>2 DEF Crash, Restart, dbVars
  <2>2. Shown(cursor)' /\ \A s \in snapshots' : s.asOf <= LastChange(s.pair)'
    BY <2>1 DEF ShowInv, Shown, Traded, Pictured, LastChange, Changes, chainVars
  <2>3. Shown(lastLedger)'
    <3>1. CASE Crash
      <4>1. lastLedger' = 0
        BY <3>1 DEF Crash
      <4>2. \A e \in chain' : ~(e.ledger <= 0)
        BY DEF Inv, ChainTyped
      <4> QED BY <4>1, <4>2 DEF Shown
    <3>2. CASE Restart
      BY <2>2, <3>2, <2>1 DEF Restart, Shown
    <3> QED BY <1>2, <3>1, <3>2
  <2>4. \A i \in Ticks : tick'[i] = Idle
    BY <1>2 DEF Crash, Restart, CursorInv
  <2>5. \A i \in Ticks : Showing(tick[i])'
    BY <2>3, <2>4 DEF Showing, Idle
  <2> QED BY <2>2, <2>5 DEF ShowInv
<1> QED BY <1>1, <1>2, CloseShows, TickShows DEF Next

\* The newest of the snapshots is the one of the last trade.
LEMMA ShownIsCurrent ==
  ASSUME Inv, ShowInv, NoSyncs
  PROVE  SnapshotsCurrent
<1> SUFFICES ASSUME NEW p \in Followed, LastChange(p) \in 1 .. cursor
             PROVE  Newest(p) # {} /\ \A s \in Newest(p) : s.asOf = LastChange(p)
  BY DEF SnapshotsCurrent
<1> DEFINE l == LastChange(p)
<1>1. l \in Nat /\ cursor \in Nat /\ 1 <= l /\ l <= cursor
  BY DEF Inv, TypeOK, ChainTyped
<1>2. PICK e \in chain : e.pair = p /\ e.kind # "created" /\ e.ledger = l
  <2>1. l # 0
    BY <1>1
  <2> QED BY <2>1, LastChangeIsLast DEF Inv
<1>3. Traded(e)
  BY <1>2 DEF Inv, ChainTyped, NoSyncs, Traded, Kinds
<1>4. PICK s \in snapshots : s.pair = p /\ s.ledger = l
  BY <1>1, <1>2, <1>3 DEF ShowInv, Shown, Pictured
<1>5. \A t \in snapshots : t.pair = p =>
        t.ledger \in Nat /\ t.asOf \in Nat /\ t.ledger <= t.asOf /\ t.asOf <= l
  BY DEF Inv, ChainTyped, TypeOK, SnapshotsNotOlder, ShowInv
<1> HIDE DEF l
<1>6. s \in Newest(p)
  BY <1>1, <1>4, <1>5 DEF Newest
<1>7. ASSUME NEW t \in Newest(p) PROVE t.asOf = l
  <2>1. t \in snapshots /\ t.pair = p /\ s.ledger <= t.ledger
    BY <1>4, <1>7 DEF Newest
  <2> QED BY <1>1, <1>4, <1>5, <2>1
<1> QED BY <1>6, <1>7 DEF l

\* Where neither inserts nor snapshots fail and pairs change by trades only,
\* the newest snapshot of a followed pair shows its reserves as they are,
\* once the cursor has passed their last change: for one tick at a time, any
\* chain and any number of crashes.
THEOREM SnapshotsAreCurrent ==
  ASSUME OneTick, "snapshot" \notin Faults
  PROVE  Spec /\ []PagesEndWithLedgers /\ []NoSyncs => []SnapshotsCurrent
<1>1. Inv /\ ShowInv /\ NoSyncs => SnapshotsCurrent
  BY ShownIsCurrent
<1> QED BY <1>1, InitCursor, NextCursor, InitShows, NextShows, IndexerInv, PTL DEF Spec
=============================================================================

------------------------------- MODULE Indexer -------------------------------
(***************************************************************************)
(* The event indexer (indexer/src/horizon.ts): every five seconds a tick   *)
(* asks an RPC node for a page of events from the ledger after the last    *)
(* one seen, writes each to Postgres, snapshots the reserves of its pair,  *)
(* and saves the last ledger seen as the cursor to restart from.           *)
(*                                                                         *)
(* Every await of the code is a step here: ticks of the same process       *)
(* interleave at them, the chain grows between them, and the process may   *)
(* be killed between them.  A query that an await waits for is one step.   *)
(* Events carry their ledger and their position in it, so that the chain   *)
(* and a page of it are sets.                                              *)
(***************************************************************************)
EXTENDS Naturals, Sequences, FiniteSetsExt

CONSTANTS
  Pairs,            \* pair contracts
  Followed,         \* the pairs of the configuration; the factory always is
  Blocks,           \* what a ledger may hold: sequences of [kind, pair]
  PageSize,         \* events per getEvents reply, 200 in the code
  Ticks,            \* ticks that may be under way at a time
  Faults,           \* what may fail: some of "rpc", "insert", "snapshot", "save"
  MaxHeight,        \* bound: the last ledger considered
  MaxCrashes        \* bound: how often the process is killed

Kinds == {"created", "trade", "sync"}

ASSUME ConfigAssumption ==
  /\ Followed \subseteq Pairs /\ Blocks \subseteq Seq([kind : Kinds, pair : Pairs])
  /\ PageSize \in Nat \ {0} /\ MaxHeight \in Nat /\ MaxCrashes \in Nat
  /\ Faults \subseteq {"rpc", "insert", "snapshot", "save"}

VARIABLES
  height, chain,      \* the last closed ledger, and all events so far
  up,                 \* whether the process runs
  lastLedger,         \* its variable of that name
  scheduled,          \* whether setInterval has been called
  tick,               \* the ticks of the process
  rows,               \* the tables pairs, swaps, liquidity_events: events stored
  snapshots,          \* the table pair_snapshots
  cursor,             \* last_indexed_ledger in the table indexer_state
  crashes

chainVars == <<height, chain>>
dbVars == <<rows, snapshots, cursor>>
vars == <<height, chain, up, lastLedger, scheduled, tick, rows, snapshots, cursor, crashes>>

Idle == [pc |-> "idle"]

Init ==
  /\ height = 0 /\ chain = {}
  /\ up = TRUE /\ lastLedger = 0 /\ scheduled = FALSE
  /\ tick = [i \in Ticks |-> Idle]
  /\ rows = {} /\ snapshots = {} /\ cursor = 0
  /\ crashes = 0

-----------------------------------------------------------------------------
(* The chain.  A pair is created before it trades, and once.               *)

Event(ledger, pos, what) == [ledger |-> ledger, pos |-> pos, kind |-> what.kind, pair |-> what.pair]

Before(e, f) == e.ledger < f.ledger \/ (e.ledger = f.ledger /\ e.pos < f.pos)

Created(p) == \E e \in chain : e.kind = "created" /\ e.pair = p

LegalBlock(block) ==
  \A i \in DOMAIN block :
    LET before == \E j \in 1 .. i - 1 : block[j].kind = "created" /\ block[j].pair = block[i].pair
    IN  (block[i].kind = "created") # (before \/ Created(block[i].pair))

CloseLedger(block) ==
  /\ height < MaxHeight
  /\ LegalBlock(block)
  /\ height' = height + 1
  /\ chain' = chain \cup {Event(height + 1, i, block[i]) : i \in DOMAIN block}
  /\ UNCHANGED <<up, lastLedger, scheduled, tick, rows, snapshots, cursor, crashes>>

(* The ledgers that changed the reserves of p, and the last of them.       *)
Changes(p) == {e.ledger : e \in {f \in chain : f.pair = p /\ f.kind # "created"}}

LastChange(p) == Max({0} \cup Changes(p))

(* What the filter of getEvents lets through.                              *)
Matches(e) == e.kind = "created" \/ e.pair \in Followed

(* The first events that match, as many as a page holds.                   *)
EventsFrom(start) ==
  LET found == {e \in chain : e.ledger >= start /\ Matches(e)}
  IN  {e \in found : Cardinality({f \in found : Before(f, e)}) < PageSize}

-----------------------------------------------------------------------------
(* A tick.                                                                 *)

Finish(i) ==
  /\ tick' = [tick EXCEPT ![i] = Idle]
  /\ scheduled' = TRUE

\* Mutation of StartTick: the last ledger seen is asked for again.
StartTickSameLedger(i) ==
  /\ up /\ tick[i] = Idle
  /\ ~scheduled => \A j \in Ticks : tick[j] = Idle
  /\ tick' = [tick EXCEPT ![i] = [pc |-> "asked", start |-> lastLedger]]
  /\ UNCHANGED <<chainVars, up, lastLedger, scheduled, dbVars, crashes>>

(* setInterval starts a tick whether or not the one before has ended; only *)
(* the first one is awaited.                                               *)
StartTick(i) ==
  /\ up /\ tick[i] = Idle
  /\ ~scheduled => \A j \in Ticks : tick[j] = Idle
  /\ tick' = [tick EXCEPT ![i] = [pc |-> "asked", start |-> lastLedger + 1]]
  /\ UNCHANGED <<chainVars, up, lastLedger, scheduled, dbVars, crashes>>

(* getEvents replies.                                                      *)
Receive(i) ==
  /\ tick[i].pc = "asked"
  /\ LET page == EventsFrom(tick[i].start) IN
       IF page = {}
       THEN Finish(i)
       ELSE /\ tick' = [tick EXCEPT ![i] = [pc |-> "insert", page |-> page]]
            /\ UNCHANGED scheduled
  /\ UNCHANGED <<chainVars, up, lastLedger, dbVars, crashes>>

RpcFails(i) ==
  /\ "rpc" \in Faults /\ tick[i].pc = "asked"
  /\ Finish(i)
  /\ UNCHANGED <<chainVars, up, lastLedger, dbVars, crashes>>

Later(m, n) == IF m >= n THEN m ELSE n

\* Mutation of Advance: the ledger of the event counts as the next to read.
AdvanceToNext(i, e, rest) ==
  /\ lastLedger' = Later(lastLedger, e.ledger + 1)
  /\ tick' = [tick EXCEPT ![i] = IF rest = {} THEN [pc |-> "save", value |-> lastLedger']
                                              ELSE [pc |-> "insert", page |-> rest]]

\* Mutation of Advance: what is saved is the last ledger of the chain.
AdvanceToTip(i, e, rest) ==
  /\ lastLedger' = Later(lastLedger, e.ledger)
  /\ tick' = [tick EXCEPT ![i] = IF rest = {} THEN [pc |-> "save", value |-> height]
                                              ELSE [pc |-> "insert", page |-> rest]]

(* processEvent is done with the event e, its errors caught; when the page *)
(* is, the value to save is read from lastLedger.                          *)
Advance(i, e, rest) ==
  /\ lastLedger' = Later(lastLedger, e.ledger)
  /\ tick' = [tick EXCEPT ![i] = IF rest = {} THEN [pc |-> "save", value |-> lastLedger']
                                              ELSE [pc |-> "insert", page |-> rest]]

(* The events of a page are processed in their order.                      *)
First(page) == {e \in page : \A f \in page : ~Before(f, e)}

(* The row of a trade refers to the row of its pair.                       *)
RefersToRow(e) == \E r \in rows : r.kind = "created" /\ r.pair = e.pair

\* Mutation of Inserted: an event that is already stored gets no snapshot.
InsertedOnce(i, e, rest) ==
  \/ /\ e.kind = "trade" /\ RefersToRow(e) /\ e \notin rows
     /\ rows' = rows \cup {e}
     /\ tick' = [tick EXCEPT ![i] = [pc |-> "read", event |-> e, page |-> rest]]
     /\ UNCHANGED lastLedger
  \/ /\ e.kind # "trade" \/ ~RefersToRow(e) \/ e \in rows
     /\ rows' = IF e.kind = "created" THEN rows \cup {e} ELSE rows
     /\ Advance(i, e, rest)

(* INSERT ... ON CONFLICT DO NOTHING: a trade, which a snapshot follows; a *)
(* new pair; or nothing, for an event that is ignored and for a trade      *)
(* whose pair has no row.                                                  *)
Inserted(i, e, rest) ==
  \/ /\ e.kind = "trade" /\ RefersToRow(e)
     /\ rows' = rows \cup {e}
     /\ tick' = [tick EXCEPT ![i] = [pc |-> "read", event |-> e, page |-> rest]]
     /\ UNCHANGED lastLedger
  \/ /\ e.kind = "created"
     /\ rows' = rows \cup {e}
     /\ Advance(i, e, rest)
  \/ /\ e.kind = "sync" \/ (e.kind = "trade" /\ ~RefersToRow(e))
     /\ Advance(i, e, rest)
     /\ UNCHANGED rows

Insert(i) ==
  /\ tick[i].pc = "insert"
  /\ \E e \in First(tick[i].page) : Inserted(i, e, tick[i].page \ {e})
  /\ UNCHANGED <<chainVars, up, scheduled, snapshots, cursor, crashes>>

InsertFails(i) ==
  /\ "insert" \in Faults /\ tick[i].pc = "insert"
  /\ \E e \in First(tick[i].page) : Advance(i, e, tick[i].page \ {e})
  /\ UNCHANGED <<chainVars, up, scheduled, dbVars, crashes>>

(* snapshotReserves: get_reserves, then the insert.                        *)
ReadReserves(i) ==
  /\ tick[i].pc = "read"
  /\ tick' = [tick EXCEPT ![i] = [pc |-> "store", event |-> tick[i].event, page |-> tick[i].page,
                                  asOf |-> LastChange(tick[i].event.pair)]]
  /\ UNCHANGED <<chainVars, up, lastLedger, scheduled, dbVars, crashes>>

Snapshot(t, ledger) == [pair |-> t.event.pair, asOf |-> t.asOf, ledger |-> ledger]

\* Mutation of StoreSnapshot: it is filed under the last ledger seen.
StoreUnderLastLedger(i) ==
  /\ tick[i].pc = "store"
  /\ snapshots' = snapshots \cup {Snapshot(tick[i], Later(lastLedger, tick[i].event.ledger))}
  /\ Advance(i, tick[i].event, tick[i].page)
  /\ UNCHANGED <<chainVars, up, scheduled, rows, cursor, crashes>>

StoreSnapshot(i) ==
  /\ tick[i].pc = "store"
  /\ snapshots' = snapshots \cup {Snapshot(tick[i], tick[i].event.ledger)}
  /\ Advance(i, tick[i].event, tick[i].page)
  /\ UNCHANGED <<chainVars, up, scheduled, rows, cursor, crashes>>

SnapshotFails(i) ==
  /\ "snapshot" \in Faults /\ tick[i].pc \in {"read", "store"}
  /\ Advance(i, tick[i].event, tick[i].page)
  /\ UNCHANGED <<chainVars, up, scheduled, dbVars, crashes>>

SaveCursor(i) ==
  /\ tick[i].pc = "save"
  /\ cursor' = tick[i].value
  /\ Finish(i)
  /\ UNCHANGED <<chainVars, up, lastLedger, rows, snapshots, crashes>>

SaveFails(i) ==
  /\ "save" \in Faults /\ tick[i].pc = "save"
  /\ Finish(i)
  /\ UNCHANGED <<chainVars, up, lastLedger, dbVars, crashes>>

-----------------------------------------------------------------------------
(* The process is killed, and started again from the cursor.               *)

Crash ==
  /\ up /\ crashes < MaxCrashes
  /\ up' = FALSE /\ crashes' = crashes + 1
  /\ lastLedger' = 0 /\ scheduled' = FALSE
  /\ tick' = [i \in Ticks |-> Idle]
  /\ UNCHANGED <<chainVars, dbVars>>

Restart ==
  /\ ~up
  /\ up' = TRUE /\ lastLedger' = cursor
  /\ UNCHANGED <<chainVars, scheduled, tick, dbVars, crashes>>

Next ==
  \/ \E block \in Blocks : CloseLedger(block)
  \/ \E i \in Ticks :
       \/ StartTick(i) \/ Receive(i) \/ RpcFails(i)
       \/ Insert(i) \/ InsertFails(i)
       \/ ReadReserves(i) \/ StoreSnapshot(i) \/ SnapshotFails(i)
       \/ SaveCursor(i) \/ SaveFails(i)
  \/ Crash
  \/ Restart

Spec == Init /\ [][Next]_vars

(***************************************************************************)
(* Timers fire and queries end, one way or another; a node that is asked   *)
(* again and again replies in the end.  Nothing restarts a killed process. *)
(***************************************************************************)
Fairness ==
  \A i \in Ticks :
    /\ WF_vars(StartTick(i))
    /\ SF_vars(Receive(i))
    /\ WF_vars(Insert(i) \/ InsertFails(i))
    /\ WF_vars(ReadReserves(i) \/ StoreSnapshot(i) \/ SnapshotFails(i))
    /\ WF_vars(SaveCursor(i) \/ SaveFails(i))

LiveSpec == Spec /\ Fairness
-----------------------------------------------------------------------------
(* Properties *)

(* The events the indexer means to store.                                  *)
Stored(l) == \A e \in chain : e.ledger <= l /\ e.kind # "sync" /\ Matches(e) => e \in rows

TypeOK ==
  /\ height \in 0 .. MaxHeight
  /\ chain \subseteq [ledger : 1 .. height, pos : Nat, kind : Kinds, pair : Pairs]
  /\ up \in BOOLEAN /\ scheduled \in BOOLEAN
  /\ lastLedger \in 0 .. height /\ cursor \in 0 .. height
  /\ rows \subseteq chain
  /\ snapshots \subseteq [pair : Pairs, asOf : 0 .. height, ledger : 1 .. height]
  /\ crashes \in 0 .. MaxCrashes
  /\ \A i \in Ticks : tick[i].pc \in {"idle", "asked", "insert", "read", "store", "save"}

\* What lies behind the cursor is never asked for again, so all of it is
\* stored, wherever the process was killed.
CursorCovers == Stored(cursor)

(* The snapshots of a pair with the highest ledger, of which the API       *)
(* serves one.                                                             *)
Newest(p) ==
  {s \in snapshots : s.pair = p /\ \A t \in snapshots : t.pair = p => t.ledger <= s.ledger}

\* The newest snapshot of a pair shows the reserves as they are once the
\* cursor has passed their last change: a kill between the row of a trade and
\* its snapshot is made good.
SnapshotsCurrent ==
  \A p \in Followed :
    LastChange(p) \in 1 .. cursor =>
      Newest(p) # {} /\ \A s \in Newest(p) : s.asOf = LastChange(p)

\* A snapshot never shows reserves from before the ledger it is filed under,
\* with ticks interleaving and everything failing that can.
SnapshotsNotOlder == \A s \in snapshots : s.asOf >= s.ledger

\* A process that is not killed any more stores every event there is: no
\* page, failed poll or failed save makes it stop.
EventuallyStored ==
  <>[]up => \A l \in 1 .. MaxHeight : height >= l ~> Stored(l)

-----------------------------------------------------------------------------
(* What the documents say and the indexer does not do *)

\* ROADMAP.md, 868: the indexer syncs all events of the deployment.  When no
\* tick is under way, no event behind the cursor is missing.
DocAllEventsIndexed ==
  (\A i \in Ticks : tick[i] = Idle) =>
    \A e \in chain : e.ledger <= cursor /\ e.kind # "sync" => e \in rows
=============================================================================

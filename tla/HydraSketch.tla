---------------------------- MODULE HydraSketch ----------------------------
(***************************************************************************)
(* HydraSketch.go: D x W counters.  A record is inserted, for each         *)
(* sub-tuple of its key, into one counter of every row, and into the       *)
(* global counter if there is one; a query takes the median over the rows. *)
(* ParallelUpdate feeds records to workers through a bounded channel.      *)
(***************************************************************************)
EXTENDS HydraCounter

CONSTANTS
  Config,     \* the configurations NewHydra is called with
  Key,        \* keys of records
  ValueOf,    \* ValueOf[k]: common.FromString of the key k
  Delta,      \* counts of updates
  Jobs,       \* the jobs of one ParallelUpdate
  Worker,
  ChanCap,    \* capacity of its channel (1024)
  MaxUpdates  \* model bound: updates in a behaviour, the jobs aside

VARIABLES
  sk,    \* the sketch, and the state of ParallelUpdate
  seen   \* history: the updates in the order they were made

vars == <<sk, seen>>

Off == "off"

(* The counter a configuration asks for (count-min when it names none).    *)
resolveCounterTemplate(cfg) == IF cfg.type = "" THEN "cm" ELSE cfg.type

NewHydra(cfg) ==
  LET type == resolveCounterTemplate(cfg)
  IN  [cells |-> [r \in Row |-> [c \in 0..W-1 |-> SetTopK(NewCounter(type), cfg.topK)]],
       big |-> IF cfg.global THEN <<SetTopK(NewCounter(type), cfg.topK)>> ELSE << >>,
       enableTopK |-> cfg.topK, fanout |-> cfg.fanout]

Idle == [pc |-> Off, todo |-> << >>, ch |-> << >>, held |-> [w \in Worker |-> << >>]]

-----------------------------------------------------------------------------
(* One insertion into a counter of each row.                               *)
InsertRows(cells, pos, v, number, count) ==
  [r \in Row |-> [cells[r] EXCEPT ![pos[r]] = InsertWithHash(@, v, number, count)]]

InsertBig(big, v, number, count) ==
  [i \in DOMAIN big |-> InsertWithHash(big[i], v, number, count)]

UpdateValue(h, key, v, delta) ==
  IF delta <= 0 THEN h ELSE
  [h EXCEPT
     !.cells = FoldSeq(LAMBDA s, cells : InsertRows(cells, PosOf[s], v, FloatOf[v], delta),
                       @, expandSubkeys(key, h.fanout)),
     !.big = InsertBig(@, v, FloatOf[v], delta)]

(* By hash alone: routed by the hash itself, whatever the seed.            *)
UpdateWithHash(h, v, delta) ==
  IF delta <= 0 THEN h ELSE
  [h EXCEPT !.cells = InsertRows(@, HashPos[v], v, v, delta),
            !.big = InsertBig(@, v, v, delta)]

QueryKey(h, s, kind, v) ==
  Median([r \in Row |-> Query(h.cells[r][PosOf[s][r]], kind, v)])

GetCardinality(h) ==
  IF h.big = << >> THEN 0 ELSE Query(h.big[1], "cardinality", 0)

SetTopKEnabled(h, on) ==
  [h EXCEPT !.enableTopK = on,
            !.cells = [r \in Row |-> [c \in 0..W-1 |-> SetTopK(@[r][c], on)]],
            !.big = [i \in DOMAIN @ |-> SetTopK(@[i], on)]]

-----------------------------------------------------------------------------
hydraSnapshot(h) ==
  [type |-> h.cells[1][0].type, enableTopK |-> h.enableTopK, fanout |-> h.fanout,
   cells |-> [r \in Row |-> [c \in 0..W-1 |-> cellToProto(h.cells[r][c])]],
   big |-> [i \in DOMAIN h.big |-> cellToProto(h.big[i])]]

Deserialize(snap) ==
  LET counter(bytes) == SetTopK(decodeCounter(snap.type, bytes), snap.enableTopK)
  IN  [cells |-> [r \in Row |-> [c \in 0..W-1 |-> counter(snap.cells[r][c])]],
       big |-> [i \in DOMAIN snap.big |-> counter(snap.big[i])],
       enableTopK |-> snap.enableTopK, fanout |-> snap.fanout]

(* A snapshot of version 1 has a grid of UnivMon sketches and does not say *)
(* whether keys fan out; they do.                                          *)
DeserializeV1(snap) ==
  Deserialize([type |-> "universal", enableTopK |-> snap.enableTopK, fanout |-> TRUE,
               cells |-> snap.cells, big |-> snap.big])

Init ==
  /\ \/ \E cfg \in Config : sk = [h |-> NewHydra(cfg), par |-> Idle]
     \/ \E cfg \in {c \in Config : c.type = "universal"} :
          sk = [h |-> DeserializeV1(hydraSnapshot(NewHydra(cfg))), par |-> Idle]
  /\ seen = << >>

-----------------------------------------------------------------------------
Logged(raw, key, v, count) ==
  seen' = IF count <= 0 THEN seen ELSE
          Append(seen, [raw |-> raw, key |-> key, v |-> v, count |-> count,
                        fanout |-> sk.h.fanout])

Update(key, v, delta) ==
  /\ Len(seen) < MaxUpdates
  /\ sk' = [sk EXCEPT !.h = UpdateValue(@, key, v, delta)]
  /\ Logged(FALSE, key, v, delta)

UpdateHash(v, delta) ==
  /\ Len(seen) < MaxUpdates
  /\ sk' = [sk EXCEPT !.h = UpdateWithHash(@, v, delta)]
  /\ Logged(TRUE, << >>, v, delta)

Switch(on) ==
  /\ sk' = [sk EXCEPT !.h = SetTopKEnabled(@, on)]
  /\ UNCHANGED seen

(* Saved and read back, no ParallelUpdate being under way.                 *)
Restart ==
  /\ sk.par.pc = Off
  /\ sk' = [sk EXCEPT !.h = Deserialize(hydraSnapshot(@))]
  /\ UNCHANGED seen

-----------------------------------------------------------------------------
ParStart ==
  /\ sk.par = Idle /\ seen = << >>
  /\ sk' = [sk EXCEPT !.par.pc = "send", !.par.todo = Jobs]
  /\ UNCHANGED seen

ParSend ==
  /\ sk.par.pc = "send" /\ sk.par.todo # << >> /\ Len(sk.par.ch) < ChanCap
  /\ sk' = [sk EXCEPT !.par.ch = Append(@, Head(sk.par.todo)), !.par.todo = Tail(@)]
  /\ UNCHANGED seen

ParClose ==
  /\ sk.par.pc = "send" /\ sk.par.todo = << >>
  /\ sk' = [sk EXCEPT !.par.pc = "wait"]
  /\ UNCHANGED seen

(* A worker takes a job, and applies it when it gets the lock.             *)
ParTake(w) ==
  /\ sk.par.ch # << >> /\ sk.par.held[w] = << >>
  /\ sk' = [sk EXCEPT !.par.held[w] = <<Head(sk.par.ch)>>, !.par.ch = Tail(@)]
  /\ UNCHANGED seen

ParApply(w) ==
  /\ sk.par.held[w] # << >>
  /\ LET j == sk.par.held[w][1] IN
       /\ sk' = [sk EXCEPT !.h = UpdateValue(@, j.key, ValueOf[j.key], j.count),
                           !.par.held[w] = << >>]
       /\ Logged(FALSE, j.key, ValueOf[j.key], j.count)

(* Workers end once the channel is closed and empty; then wg.Wait returns. *)
ParReturn ==
  /\ sk.par.pc = "wait" /\ sk.par.ch = << >>
  /\ \A w \in Worker : sk.par.held[w] = << >>
  /\ sk' = [sk EXCEPT !.par.pc = "returned"]
  /\ UNCHANGED seen

Next ==
  \/ \E k \in Key, v \in Value, n \in Delta : Update(k, v, n)
  \/ \E v \in Value, n \in Delta : UpdateHash(v, n)
  \/ \E on \in BOOLEAN : Switch(on)
  \/ Restart
  \/ ParStart \/ ParSend \/ ParClose \/ ParReturn
  \/ \E w \in Worker : ParTake(w) \/ ParApply(w)

-----------------------------------------------------------------------------
(* Every counter holds exactly the records whose sub-tuples are kept in    *)
(* it, through restarts and whatever the workers' order; the global one    *)
(* holds each record once.  So where a sub-tuple is alone in most rows,    *)
(* QueryKey is its true count.  ParallelUpdate returns with all jobs in.   *)
SubpopulationsExact ==
  /\ \A r \in Row, col \in 0..W-1, v \in Value :
       LET c == sk.h.cells[r][col]
       IN  /\ c.weight[v] = Expected(seen, c.type, LAMBDA u : Hits(u, r, col), v)
           /\ c.type = "universal" => c.topK = sk.h.enableTopK
  /\ \A i \in DOMAIN sk.h.big, v \in Value :
       LET c == sk.h.big[i]
       IN  c.weight[v] = Expected(seen, c.type, LAMBDA u : 1, v)
  /\ \A s \in DOMAIN PosOf, v \in Value :
       LET c == sk.h.cells[1][0]
           self(u) == IF u.raw THEN 0 ELSE Cardinality({x \in Picks(u) : x[2] = s})
           clean == {r \in Row : \A u \in Range(seen) : Hits(u, r, PosOf[s][r]) = self(u)}
       IN  c.type \in {"cm", "universal"} /\ 2 * Cardinality(clean) > Cardinality(Row) =>
             QueryKey(sk.h, s, "frequency", v) = Expected(seen, c.type, self, v)
  /\ sk.h.big # << >> /\ sk.h.big[1].type = "hll" =>
       GetCardinality(sk.h) = Cardinality({u.v : u \in Range(seen)})
  /\ sk.par.pc = "returned" =>
       \A k \in Key :
         Cardinality({i \in DOMAIN Jobs : Jobs[i].key = k})
           <= Cardinality({i \in DOMAIN seen : seen[i].key = k /\ seen[i].v = ValueOf[k]})
=============================================================================

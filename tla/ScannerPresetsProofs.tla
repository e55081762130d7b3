------------------------- MODULE ScannerPresetsProofs -------------------------
(***************************************************************************)
(* What the service of the saved presets promises, for any number of       *)
(* presets and requests and however many calls of Firestore fail: a        *)
(* "durable" status is true, an accepted value is stored or queued, what   *)
(* was deleted with no other request about it stays deleted, and Firestore *)
(* never goes back to an older value.                                      *)
(*                                                                         *)
(* The actions are made of a few moves (Executes, Flushes, Untombs,        *)
(* WriteAnswered, ...), each shown to keep the invariant Good of a state   *)
(* st, s, q (collection, maps, requests); an answer and what a request     *)
(* does after it are two moves, with the request "turning" between them.   *)
(***************************************************************************)
EXTENDS ScannerPresets, TLAPS

\* "turning": a request between the answer of a write and what it does next.
PresetPcs == {"idle", "updating", "updateRead", "removing", "removeRead", "writing", "flushing",
              "untombing", "turning", "deleting", "done"}

PresetRequests ==
  [pc : PresetPcs, preset : Presets \cup {NoOp}, gen : Nat, seen : Nat, had : BOOLEAN,
   todo : SUBSET Presets, at : Presets \cup {NoOp}, token : PresetOps \cup {NoOp}, value : Nat]

PresetWrites == [op : PresetOps, value : Nat, state : {"queued", "applied"}]
PresetFlights == [op : PresetOps \cup {NoOp}, value : Nat]

PresetMaps ==
  [memory : [Presets -> Nat], pending : [Presets -> Nat], inFlight : [Presets -> PresetFlights],
   tombs : SUBSET Presets, gen : [Presets -> Nat], token : [Presets -> PresetOps \cup {NoOp}],
   chain : [Presets -> Seq(PresetWrites)], last : [Presets -> Nat], unavailable : BOOLEAN]

RequestTypes(q) ==
  /\ q \in [PresetOps -> PresetRequests]
  /\ \A o \in PresetOps : /\ q[o].pc # "idle" => q[o].preset \in Presets
                          /\ q[o].pc \in {"flushing", "untombing"} => q[o].at \in Presets

Owned(q, p, e) ==
  LET r == q[e.op] IN
  \/ r.pc = "writing" /\ r.preset = p /\ e.value = r.value /\ e.value # 0
  \/ r.pc = "flushing" /\ r.at = p /\ e.value = r.seen /\ e.value # 0
  \/ r.pc = "untombing" /\ r.at = p /\ e.value = 0
  \/ r.pc = "deleting" /\ r.preset = p /\ e.value = 0

\* Every write of a chain belongs to a request waiting for it, only the first may be executed.
Fronted(c, x) ==
  \A i \in DOMAIN c : /\ c[i].state = "applied" => i = 1 /\ x = c[i].value
                      /\ \A j \in DOMAIN c : c[j].op = c[i].op => i = j

ChainInv(st, s, q) ==
  \A p \in Presets : /\ Fronted(s.chain[p], st[p])
                     /\ \A i \in DOMAIN s.chain[p] : Owned(q, p, s.chain[p][i])

\* The values of a chain, deletions aside, do not decrease.
Ordered(c, x, n) ==
  /\ x <= n
  /\ \A i \in DOMAIN c :
       /\ c[i].value <= n
       /\ c[i].value # 0 => x <= c[i].value
       /\ \A j \in DOMAIN c : i < j /\ c[j].value # 0 => c[i].value <= c[j].value

OrderInv(st, s) ==
  \A p \in Presets : /\ s.last[p] >= 1
                     /\ s.memory[p] \in {0, s.last[p]} /\ s.pending[p] \in {0, s.last[p]}
                     /\ Ordered(s.chain[p], st[p], s.last[p])

Accepted(q, o, p) ==
  o \in PresetOps /\ q[o].preset = p /\ q[o].pc \in {"writing", "flushing", "untombing", "turning", "done"}

TokenInv(s, q) ==
  /\ \A p \in Presets : /\ s.token[p] # NoOp => Accepted(q, s.token[p], p)
                        /\ s.pending[p] # 0 => s.token[p] # NoOp
  /\ \A o \in PresetOps :
       /\ q[o].pc = "writing" /\ s.token[q[o].preset] = o =>
            q[o].value = s.last[q[o].preset] /\ s.pending[q[o].preset] = 0
       /\ q[o].pc = "flushing" =>
            /\ Accepted(q, q[o].token, q[o].at) /\ q[q[o].token].pc # "writing"
            /\ q[o].gen <= s.gen[q[o].at]
            /\ s.token[q[o].at] = q[o].token =>
                 /\ q[o].seen = s.last[q[o].at] /\ s.pending[q[o].at] = 0
                 /\ \A x \in PresetOps \ {o} : q[x].pc = "flushing" /\ q[x].at = q[o].at => q[x].token # q[o].token

Base(st, s, q) ==
  /\ st \in [Presets -> Nat] /\ s \in PresetMaps /\ RequestTypes(q)
  /\ ChainInv(st, s, q) /\ OrderInv(st, s) /\ TokenInv(s, q)

-----------------------------------------------------------------------------
(* Chains. *)

LEMMA WriteFields ==
  \A e \in PresetWrites : e.op \in PresetOps /\ e.value \in Nat /\ e.state \in {"queued", "applied"}
  BY DEF PresetWrites

LEMMA Appended ==
  ASSUME NEW c \in Seq(PresetWrites), NEW e \in PresetWrites, NEW d, d = Append(c, e)
  PROVE /\ d \in Seq(PresetWrites) /\ Len(d) = Len(c) + 1 /\ d[Len(d)] = e
        /\ Len(d) \in DOMAIN d /\ Len(c) \in Nat
        /\ \A i \in DOMAIN d : i \in Nat /\ i >= 1 /\ (i = Len(d) \/ (i \in DOMAIN c /\ d[i] = c[i] /\ i < Len(d)))
        /\ \A i \in DOMAIN c : i \in DOMAIN d /\ d[i] = c[i] /\ i < Len(d)
        /\ \A i \in DOMAIN c : c[i] \in PresetWrites
  OBVIOUS

LEMMA Popped ==
  ASSUME NEW c \in Seq(PresetWrites), c # <<>>, NEW d, d = Tail(c)
  PROVE /\ d \in Seq(PresetWrites) /\ Len(d) = Len(c) - 1 /\ Head(c) = c[1] /\ 1 \in DOMAIN c
        /\ Head(c) \in PresetWrites /\ Len(c) \in Nat
        /\ \A i \in DOMAIN d : i \in Nat /\ i >= 1 /\ i + 1 \in DOMAIN c /\ d[i] = c[i + 1] /\ d[i] \in PresetWrites
        /\ \A i \in DOMAIN c : i # 1 => i - 1 \in DOMAIN d /\ d[i - 1] = c[i]
  OBVIOUS

LEMMA HeadExecuted ==
  ASSUME NEW c \in Seq(PresetWrites), c # <<>>, NEW d, d = [c EXCEPT ![1].state = "applied"]
  PROVE /\ d \in Seq(PresetWrites) /\ DOMAIN d = DOMAIN c /\ Head(c) = c[1] /\ 1 \in DOMAIN c
        /\ Len(d) = Len(c)
        /\ d[1].state = "applied" /\ d[1].op = c[1].op /\ d[1].value = c[1].value
        /\ \A i \in DOMAIN c : /\ i \in Nat /\ i >= 1 /\ d[i].op = c[i].op /\ d[i].value = c[i].value
                               /\ i # 1 => d[i] = c[i]
                               /\ c[i] \in PresetWrites /\ d[i] \in PresetWrites
<1>1. c[1] \in PresetWrites /\ DOMAIN c = 1..Len(c) /\ Len(c) \in Nat /\ Len(c) >= 1 /\ Head(c) = c[1]
  OBVIOUS
<1>2. PICK e \in PresetWrites : e = [c[1] EXCEPT !.state = "applied"]
  BY <1>1 DEF PresetWrites
<1>3. e.state = "applied" /\ e.op = c[1].op /\ e.value = c[1].value
  BY <1>1, <1>2 DEF PresetWrites
<1>4. d = [c EXCEPT ![1] = e]
  BY <1>2
<1>5. d \in Seq(PresetWrites) /\ Len(d) = Len(c)
  BY <1>1, <1>4
<1>6. d[1] = e /\ \A i \in DOMAIN c : i # 1 => d[i] = c[i]
  BY <1>1, <1>4
<1>7. \A i \in DOMAIN c : c[i] \in PresetWrites
  OBVIOUS
<1> QED BY <1>1, <1>3, <1>5, <1>6, <1>7

LEMMA FrontedAppend ==
  ASSUME NEW c \in Seq(PresetWrites), NEW e \in PresetWrites, NEW x \in Nat, Fronted(c, x),
         e.state = "queued", \A i \in DOMAIN c : c[i].op # e.op
  PROVE Fronted(Append(c, e), x)
  BY Appended DEF Fronted

LEMMA FrontedTail ==
  ASSUME NEW c \in Seq(PresetWrites), NEW x \in Nat, Fronted(c, x), c # <<>>
  PROVE /\ Fronted(Tail(c), x)
        /\ \A i \in DOMAIN Tail(c) : Tail(c)[i].op # c[1].op /\ Tail(c)[i].state = "queued"
<1>1. PICK d : d = Tail(c)
  OBVIOUS
<1>2. \A i \in DOMAIN d : i \in Nat /\ i >= 1 /\ i + 1 \in DOMAIN c /\ d[i] = c[i + 1] /\ d[i].state \in {"queued", "applied"}
  BY <1>1, Popped, WriteFields
<1>3. 1 \in DOMAIN c
  BY <1>1, Popped
<1>4. ASSUME NEW i \in DOMAIN d PROVE d[i].state # "applied" /\ d[i].op # c[1].op
  <2>1. i \in Nat /\ i >= 1 /\ i + 1 \in DOMAIN c /\ d[i] = c[i + 1] /\ i + 1 # 1
    BY <1>2
  <2>2. c[i + 1].state = "applied" => i + 1 = 1
    BY <2>1 DEF Fronted
  <2>3. c[i + 1].op = c[1].op => i + 1 = 1
    BY <2>1, <1>3 DEF Fronted
  <2> QED BY <2>1, <2>2, <2>3
<1>5. ASSUME NEW i \in DOMAIN d, NEW j \in DOMAIN d, d[j].op = d[i].op PROVE i = j
  <2>1. i + 1 \in DOMAIN c /\ j + 1 \in DOMAIN c /\ c[i + 1].op = c[j + 1].op /\ i \in Nat /\ j \in Nat
    BY <1>2, <1>5
  <2>2. i + 1 = j + 1
    BY <2>1 DEF Fronted
  <2> QED BY <2>1, <2>2
<1>6. Fronted(d, x)
  BY <1>4, <1>5 DEF Fronted
<1> QED BY <1>1, <1>2, <1>4, <1>6

LEMMA OrderedAppend ==
  ASSUME NEW c \in Seq(PresetWrites), NEW e \in PresetWrites, NEW x \in Nat, NEW n \in Nat, NEW m \in Nat,
         Ordered(c, x, n), n <= m, e.value \in {0, m}
  PROVE Ordered(Append(c, e), x, m)
<1>1. PICK d : d = Append(c, e)
  OBVIOUS
<1>2. /\ \A i \in DOMAIN d : i \in Nat /\ (i = Len(d) \/ (i \in DOMAIN c /\ d[i] = c[i] /\ i < Len(d)))
      /\ d[Len(d)] = e /\ Len(d) \in Nat
      /\ \A i \in DOMAIN c : c[i].value \in Nat
  BY <1>1, Appended, WriteFields
<1>3. x <= m
  BY DEF Ordered
<1>4. ASSUME NEW i \in DOMAIN d
      PROVE d[i].value <= m /\ (d[i].value # 0 => x <= d[i].value) /\ d[i].value \in Nat
  BY <1>2, <1>3 DEF Ordered, PresetWrites
<1>5. ASSUME NEW i \in DOMAIN d, NEW j \in DOMAIN d, i < j, d[j].value # 0 PROVE d[i].value <= d[j].value
  <2>1. CASE j = Len(d)
    BY <1>2, <1>4, <1>5, <2>1
  <2>2. CASE j # Len(d)
    BY <1>2, <1>5, <2>2 DEF Ordered
  <2> QED BY <2>1, <2>2
<1>6. Ordered(d, x, m)
  BY <1>3, <1>4, <1>5 DEF Ordered
<1> QED BY <1>1, <1>6

LEMMA OrderedTail ==
  ASSUME NEW c \in Seq(PresetWrites), NEW x \in Nat, NEW n \in Nat, Ordered(c, x, n), c # <<>>
  PROVE Ordered(Tail(c), x, n)
<1>1. PICK d : d = Tail(c)
  OBVIOUS
<1>2. \A i \in DOMAIN d : i \in Nat /\ i + 1 \in DOMAIN c /\ d[i] = c[i + 1]
  BY <1>1, Popped
<1> QED BY <1>1, <1>2 DEF Ordered

-----------------------------------------------------------------------------
(* The moves that actions are made of: s and t are the maps before and after, q and u *)
(* the requests, o the request that moves, p its preset.                              *)

Others(q, u, o) == \A x \in PresetOps : x # o => u[x] = q[x]

Waits(r) == r.pc \in {"writing", "flushing", "untombing", "deleting"}

NewWrite(o, v) == [op |-> o, value |-> v, state |-> "queued"]
Enqueued(s, t, p, o, v) == t.chain = [s.chain EXCEPT ![p] = Append(@, NewWrite(o, v))]

LEMMA OwnedElsewhere ==
  ASSUME NEW q, NEW u, NEW o \in PresetOps, Others(q, u, o), NEW e \in PresetWrites, NEW p \in Presets,
         Owned(q, p, e)
  PROVE /\ e.op # o => Owned(u, p, e)
        /\ ~Waits(q[o]) => e.op # o
        /\ e.op = o => \A x \in Presets : x # p => ~\E f \in PresetWrites : f.op = o /\ Owned(q, x, f)
  BY WriteFields DEF Others, Owned, Waits

LEMMA ChainAppend ==
  ASSUME NEW st \in [Presets -> Nat], NEW s \in PresetMaps, NEW t \in PresetMaps, NEW q, NEW u,
         NEW o \in PresetOps, NEW p \in Presets, NEW v \in Nat,
         ChainInv(st, s, q), Others(q, u, o), ~Waits(q[o]), Enqueued(s, t, p, o, v), Owned(u, p, NewWrite(o, v))
  PROVE ChainInv(st, t, u)
<1>1. PICK e \in PresetWrites : e = NewWrite(o, v) /\ e.op = o /\ e.state = "queued"
  BY DEF PresetWrites, NewWrite
<1>2. s.chain \in [Presets -> Seq(PresetWrites)] /\ t.chain = [s.chain EXCEPT ![p] = Append(@, e)]
  BY <1>1 DEF PresetMaps, Enqueued
<1>3. \A x \in Presets : \A i \in DOMAIN s.chain[x] :
        s.chain[x][i] \in PresetWrites /\ s.chain[x][i].op # o /\ Owned(u, x, s.chain[x][i])
  <2>1. ASSUME NEW x \in Presets, NEW i \in DOMAIN s.chain[x]
        PROVE s.chain[x][i] \in PresetWrites /\ Owned(q, x, s.chain[x][i])
    BY <1>2, <2>1 DEF ChainInv
  <2> QED BY <2>1, OwnedElsewhere
<1>4. ASSUME NEW x \in Presets PROVE Fronted(t.chain[x], st[x]) /\ \A i \in DOMAIN t.chain[x] : Owned(u, x, t.chain[x][i])
  <2>1. CASE x = p
    <3>1. t.chain[x] = Append(s.chain[x], e) /\ s.chain[x] \in Seq(PresetWrites)
      BY <1>2, <2>1
    <3>2. Fronted(t.chain[x], st[x])
      BY <1>1, <1>3, <3>1, FrontedAppend DEF ChainInv
    <3>3. \A i \in DOMAIN t.chain[x] : t.chain[x][i] = e \/ (i \in DOMAIN s.chain[x] /\ t.chain[x][i] = s.chain[x][i])
      BY <3>1, Appended
    <3> QED BY <1>1, <1>3, <2>1, <3>2, <3>3
  <2>2. CASE x # p
    <3>1. t.chain[x] = s.chain[x]
      BY <1>2, <2>2
    <3> QED BY <1>3, <3>1 DEF ChainInv
  <2> QED BY <2>1, <2>2
<1> QED BY <1>4 DEF ChainInv

LEMMA ChainKeep ==
  ASSUME NEW st \in [Presets -> Nat], NEW s \in PresetMaps, NEW t \in PresetMaps, NEW q, NEW u,
         NEW o \in PresetOps, ChainInv(st, s, q), Others(q, u, o), ~Waits(q[o]), t.chain = s.chain
  PROVE ChainInv(st, t, u)
<1>1. ASSUME NEW x \in Presets, NEW i \in DOMAIN s.chain[x]
      PROVE s.chain[x][i] \in PresetWrites /\ Owned(q, x, s.chain[x][i])
  <2>1. s.chain[x] \in Seq(PresetWrites)
    BY DEF PresetMaps
  <2> QED BY <2>1 DEF ChainInv
<1> QED BY <1>1, OwnedElsewhere DEF ChainInv

LEMMA ChainPop ==
  ASSUME NEW st \in [Presets -> Nat], NEW s \in PresetMaps, NEW t \in PresetMaps, NEW q, NEW u,
         NEW o \in PresetOps, NEW p \in Presets, ChainInv(st, s, q), Others(q, u, o),
         s.chain[p] # <<>>, Head(s.chain[p]).op = o, t.chain = [s.chain EXCEPT ![p] = Tail(@)]
  PROVE ChainInv(st, t, u)
<1>1. s.chain \in [Presets -> Seq(PresetWrites)]
  BY DEF PresetMaps
<1>2. ASSUME NEW x \in Presets, NEW i \in DOMAIN s.chain[x]
      PROVE s.chain[x][i] \in PresetWrites /\ Owned(q, x, s.chain[x][i])
  BY <1>1 DEF ChainInv
<1>3. Head(s.chain[p]) = s.chain[p][1] /\ 1 \in DOMAIN s.chain[p] /\ s.chain[p][1].op = o
  BY <1>1, Popped
<1>4. ASSUME NEW x \in Presets PROVE Fronted(t.chain[x], st[x]) /\ \A i \in DOMAIN t.chain[x] : Owned(u, x, t.chain[x][i])
  <2>1. CASE x = p
    <3>1. t.chain[p] = Tail(s.chain[p])
      BY <1>1
    <3>2. Fronted(t.chain[p], st[p]) /\ \A i \in DOMAIN t.chain[p] : t.chain[p][i].op # o
      BY <1>1, <1>3, <3>1, FrontedTail DEF ChainInv
    <3>3. ASSUME NEW i \in DOMAIN t.chain[p] PROVE Owned(q, p, t.chain[p][i]) /\ t.chain[p][i] \in PresetWrites
      <4>1. i + 1 \in DOMAIN s.chain[p] /\ t.chain[p][i] = s.chain[p][i + 1]
        BY <1>1, <3>1, Popped
      <4> QED BY <4>1, <1>2
    <3> QED BY <2>1, <3>2, <3>3, OwnedElsewhere
  <2>2. CASE x # p
    <3>1. t.chain[x] = s.chain[x]
      BY <1>1, <2>2
    <3>2. \A i \in DOMAIN s.chain[x] : s.chain[x][i].op # o
      BY <1>2, <1>3, <2>2, OwnedElsewhere
    <3>3. \A i \in DOMAIN s.chain[x] : Owned(u, x, s.chain[x][i])
      BY <1>2, <3>2, OwnedElsewhere
    <3>4. Fronted(s.chain[x], st[x])
      BY DEF ChainInv
    <3> QED BY <3>1, <3>3, <3>4
  <2> QED BY <2>1, <2>2
<1> QED BY <1>4 DEF ChainInv

\* Firestore executes the first write of the chain of p.
Executes(st, sx, s, t, p) ==
  /\ s.chain[p] # <<>> /\ Head(s.chain[p]).state = "queued"
  /\ t = [s EXCEPT !.chain[p][1].state = "applied"]
  /\ sx = [st EXCEPT ![p] = Head(s.chain[p]).value]

LEMMA ExecutesFields ==
  ASSUME NEW st \in [Presets -> Nat], NEW sx, NEW s \in PresetMaps, NEW t, NEW p \in Presets, Executes(st, sx, s, t, p)
  PROVE /\ t \in PresetMaps /\ sx \in [Presets -> Nat]
        /\ t.memory = s.memory /\ t.pending = s.pending /\ t.inFlight = s.inFlight /\ t.tombs = s.tombs
        /\ t.gen = s.gen /\ t.token = s.token /\ t.last = s.last
        /\ \A x \in Presets : x # p => t.chain[x] = s.chain[x]
        /\ DOMAIN t.chain[p] = DOMAIN s.chain[p] /\ 1 \in DOMAIN s.chain[p]
        /\ \A i \in DOMAIN s.chain[p] :
             /\ i \in Nat /\ i >= 1 /\ t.chain[p][i].op = s.chain[p][i].op /\ t.chain[p][i].value = s.chain[p][i].value
             /\ i # 1 => t.chain[p][i] = s.chain[p][i]
             /\ s.chain[p][i].value \in Nat
        /\ sx = [st EXCEPT ![p] = s.chain[p][1].value]
<1>1. s.chain[p] \in Seq(PresetWrites) /\ s.chain[p] # <<>>
  BY DEF PresetMaps, Executes
<1>2. PICK d \in Seq(PresetWrites) : d = [s.chain[p] EXCEPT ![1].state = "applied"]
  BY <1>1, HeadExecuted
<1>3. t = [s EXCEPT !.chain = [s.chain EXCEPT ![p] = d]]
  BY <1>2 DEF Executes, PresetMaps
<1>4. Head(s.chain[p]) = s.chain[p][1] /\ s.chain[p][1].value \in Nat
  BY <1>1, Popped, WriteFields
<1>5. t.chain = [s.chain EXCEPT ![p] = d] /\ sx = [st EXCEPT ![p] = s.chain[p][1].value]
  BY <1>3, <1>4 DEF Executes, PresetMaps
<1>6. t.chain[p] = d /\ \A x \in Presets : x # p => t.chain[x] = s.chain[x]
  BY <1>5 DEF PresetMaps
<1>7. /\ DOMAIN d = DOMAIN s.chain[p] /\ 1 \in DOMAIN s.chain[p]
      /\ \A i \in DOMAIN s.chain[p] :
           /\ i \in Nat /\ i >= 1 /\ d[i].op = s.chain[p][i].op /\ d[i].value = s.chain[p][i].value
           /\ i # 1 => d[i] = s.chain[p][i]
           /\ s.chain[p][i].value \in Nat
  BY <1>1, <1>2, HeadExecuted, WriteFields
<1>8. /\ t \in PresetMaps /\ sx \in [Presets -> Nat]
      /\ t.memory = s.memory /\ t.pending = s.pending /\ t.inFlight = s.inFlight /\ t.tombs = s.tombs
      /\ t.gen = s.gen /\ t.token = s.token /\ t.last = s.last
  BY <1>2, <1>3, <1>4, <1>5 DEF PresetMaps
<1> QED BY <1>5, <1>6, <1>7, <1>8

LEMMA ExecutesBase ==
  ASSUME NEW st, NEW sx, NEW s, NEW t, NEW q, NEW p \in Presets,
         Base(st, s, q), Executes(st, sx, s, t, p)
  PROVE Base(sx, t, q) /\ (sx[p] # 0 => sx[p] >= st[p])
<1>1. /\ st \in [Presets -> Nat] /\ s \in PresetMaps /\ RequestTypes(q)
      /\ ChainInv(st, s, q) /\ OrderInv(st, s) /\ TokenInv(s, q)
  BY DEF Base
<1>2. /\ t \in PresetMaps /\ sx \in [Presets -> Nat]
      /\ t.memory = s.memory /\ t.pending = s.pending /\ t.inFlight = s.inFlight /\ t.tombs = s.tombs
      /\ t.gen = s.gen /\ t.token = s.token /\ t.last = s.last
      /\ \A x \in Presets : x # p => t.chain[x] = s.chain[x]
      /\ DOMAIN t.chain[p] = DOMAIN s.chain[p] /\ 1 \in DOMAIN s.chain[p]
      /\ \A i \in DOMAIN s.chain[p] :
           /\ i \in Nat /\ i >= 1 /\ t.chain[p][i].op = s.chain[p][i].op /\ t.chain[p][i].value = s.chain[p][i].value
           /\ i # 1 => t.chain[p][i] = s.chain[p][i]
           /\ s.chain[p][i].value \in Nat
      /\ sx = [st EXCEPT ![p] = s.chain[p][1].value]
  BY <1>1, ExecutesFields
<1>4. /\ DOMAIN t.chain[p] = DOMAIN s.chain[p] /\ 1 \in DOMAIN s.chain[p]
      /\ \A i \in DOMAIN s.chain[p] :
           /\ i \in Nat /\ i >= 1 /\ t.chain[p][i].op = s.chain[p][i].op /\ t.chain[p][i].value = s.chain[p][i].value
           /\ i # 1 => t.chain[p][i] = s.chain[p][i]
           /\ s.chain[p][i].value \in Nat
  BY <1>2
<1>5. \A x \in Presets : x # p => t.chain[x] = s.chain[x] /\ sx[x] = st[x]
  BY <1>1, <1>2
<1>6. sx[p] = s.chain[p][1].value
  BY <1>1, <1>2
<1>7. ChainInv(sx, t, q)
  <2>1. Fronted(t.chain[p], sx[p])
    <3>1. Fronted(s.chain[p], st[p])
      BY <1>1 DEF ChainInv
    <3>2. ASSUME NEW i \in DOMAIN t.chain[p], t.chain[p][i].state = "applied" PROVE i = 1 /\ sx[p] = t.chain[p][i].value
      BY <1>4, <1>6, <3>1, <3>2 DEF Fronted
    <3>3. \A i, j \in DOMAIN t.chain[p] : t.chain[p][j].op = t.chain[p][i].op => i = j
      BY <1>4, <3>1 DEF Fronted
    <3> QED BY <3>2, <3>3 DEF Fronted
  <2>2. \A i \in DOMAIN t.chain[p] : Owned(q, p, t.chain[p][i])
    BY <1>1, <1>4, SMTT(30) DEF Owned, ChainInv
  <2> QED BY <1>1, <1>5, <2>1, <2>2 DEF ChainInv
<1>8. OrderInv(sx, t)
  <2>1. Ordered(s.chain[p], st[p], s.last[p])
    BY <1>1 DEF OrderInv
  <2>2. Ordered(t.chain[p], sx[p], t.last[p])
    <3>1. \A i \in DOMAIN t.chain[p] : t.chain[p][i].value <= t.last[p]
      BY <1>2, <1>4, <2>1 DEF Ordered
    <3>2. \A i \in DOMAIN t.chain[p] : t.chain[p][i].value # 0 => sx[p] <= t.chain[p][i].value
      <4>1. ASSUME NEW i \in DOMAIN s.chain[p], s.chain[p][i].value # 0 PROVE s.chain[p][1].value <= s.chain[p][i].value
        <5>1. i \in Nat /\ i >= 1 /\ (i = 1 \/ 1 < i) /\ s.chain[p][i].value \in Nat
          BY <1>4
        <5>2. 1 < i => s.chain[p][1].value <= s.chain[p][i].value
          BY <4>1, <1>4, <2>1 DEF Ordered
        <5> QED BY <5>1, <5>2
      <4> QED BY <4>1, <1>4, <1>6
    <3>3. \A i, j \in DOMAIN t.chain[p] : i < j /\ t.chain[p][j].value # 0 => t.chain[p][i].value <= t.chain[p][j].value
      BY <1>4, <2>1 DEF Ordered
    <3>4. sx[p] <= t.last[p]
      BY <1>2, <1>4, <1>6, <2>1 DEF Ordered
    <3> QED BY <3>1, <3>2, <3>3, <3>4 DEF Ordered
  <2> QED BY <1>1, <1>2, <1>5, <2>2 DEF OrderInv
<1>9. TokenInv(t, q)
  BY <1>1, <1>2, SMTT(30) DEF TokenInv, Accepted
<1>10. sx[p] # 0 => sx[p] >= st[p]
  BY <1>1, <1>4, <1>6 DEF OrderInv, Ordered
<1> QED BY <1>1, <1>2, <1>7, <1>8, <1>9, <1>10 DEF Base

\* No request but o may put a value back that it took from preset p under token k.
Unclaimed(q, o, k, p) ==
  /\ k # o => q[k].pc # "writing"
  /\ \A x \in PresetOps \ {o} : q[x].pc = "flushing" /\ q[x].at = p => q[x].token # k

LEMMA TokenQuiet ==
  ASSUME NEW s \in PresetMaps, NEW t \in PresetMaps, NEW q, NEW u, NEW o \in PresetOps,
         RequestTypes(q), RequestTypes(u), TokenInv(s, q), Others(q, u, o),
         u[o].pc \notin {"writing", "flushing"},
         \A p \in Presets : Accepted(q, o, p) => Accepted(u, o, p),
         t.last = s.last,
         \A p \in Presets : /\ t.token[p] \in {NoOp, s.token[p]} /\ t.gen[p] >= s.gen[p]
                            /\ t.pending[p] # 0 => /\ t.token[p] # NoOp
                                                   /\ t.pending[p] = s.pending[p] \/ Unclaimed(q, o, s.token[p], p)
  PROVE TokenInv(t, u)
<1>1. ASSUME NEW p \in Presets
      PROVE (t.token[p] # NoOp => Accepted(u, t.token[p], p)) /\ (t.pending[p] # 0 => t.token[p] # NoOp)
  BY DEF TokenInv, Accepted, Others
<1>2. ASSUME NEW x \in PresetOps, u[x].pc = "writing", t.token[u[x].preset] = x
      PROVE u[x].value = t.last[u[x].preset] /\ t.pending[u[x].preset] = 0
  <2>1. x # o /\ u[x] = q[x] /\ q[x].preset \in Presets
    BY <1>2 DEF Others, RequestTypes
  <2>2. s.token[q[x].preset] = x
    BY <1>2, <2>1, PresetAssumption
  <2>3. q[x].value = s.last[q[x].preset] /\ s.pending[q[x].preset] = 0
    BY <1>2, <2>1, <2>2 DEF TokenInv
  <2> QED BY <1>2, <2>1, <2>2, <2>3 DEF Unclaimed
<1>3. ASSUME NEW x \in PresetOps, u[x].pc = "flushing"
      PROVE /\ Accepted(u, u[x].token, u[x].at) /\ u[u[x].token].pc # "writing"
            /\ u[x].gen <= t.gen[u[x].at]
            /\ t.token[u[x].at] = u[x].token =>
                 /\ u[x].seen = t.last[u[x].at] /\ t.pending[u[x].at] = 0
                 /\ \A y \in PresetOps \ {x} : u[y].pc = "flushing" /\ u[y].at = u[x].at => u[y].token # u[x].token
  <2>1. x # o /\ u[x] = q[x] /\ q[x].at \in Presets /\ q[x].gen \in Nat
    BY <1>3 DEF Others, RequestTypes, PresetRequests
  <2>2. Accepted(q, q[x].token, q[x].at) /\ q[q[x].token].pc # "writing" /\ q[x].gen <= s.gen[q[x].at]
    BY <1>3, <2>1 DEF TokenInv
  <2>3. Accepted(u, u[x].token, u[x].at) /\ u[u[x].token].pc # "writing"
    BY <2>1, <2>2 DEF Accepted, Others
  <2>4. u[x].gen <= t.gen[u[x].at]
    <3>1. s.gen[q[x].at] \in Nat /\ t.gen[q[x].at] \in Nat /\ t.gen[q[x].at] >= s.gen[q[x].at]
      BY <2>1 DEF PresetMaps
    <3> QED BY <2>1, <2>2, <3>1
  <2>5. ASSUME t.token[u[x].at] = u[x].token
        PROVE /\ u[x].seen = t.last[u[x].at] /\ t.pending[u[x].at] = 0
              /\ \A y \in PresetOps \ {x} : u[y].pc = "flushing" /\ u[y].at = u[x].at => u[y].token # u[x].token
    <3>1. s.token[q[x].at] = q[x].token
      BY <2>1, <2>2, <2>5, PresetAssumption DEF Accepted
    <3>2. /\ q[x].seen = s.last[q[x].at] /\ s.pending[q[x].at] = 0
          /\ \A y \in PresetOps \ {x} : q[y].pc = "flushing" /\ q[y].at = q[x].at => q[y].token # q[x].token
      BY <1>3, <2>1, <3>1 DEF TokenInv
    <3>3. t.pending[q[x].at] = 0
      BY <1>3, <2>1, <3>1, <3>2 DEF Unclaimed
    <3> QED BY <2>1, <3>2, <3>3 DEF Others
  <2> QED BY <2>3, <2>4, <2>5
<1> QED BY <1>1, <1>2, <1>3 DEF TokenInv

\* The request ends or goes on, and no write is issued or answered.
LEMMA QuietBase ==
  ASSUME NEW st, NEW s, NEW t \in PresetMaps, NEW q, NEW u, NEW o \in PresetOps,
         Base(st, s, q), Others(q, u, o), RequestTypes(u),
         ~Waits(q[o]), u[o].pc \notin {"writing", "flushing"},
         \A p \in Presets : Accepted(q, o, p) => Accepted(u, o, p),
         t.chain = s.chain, t.last = s.last, t.token = s.token,
         \A p \in Presets : /\ t.memory[p] \in {0, s.memory[p]} /\ t.pending[p] \in {0, s.pending[p]}
                            /\ t.gen[p] >= s.gen[p]
  PROVE Base(st, t, u)
<1>1. /\ st \in [Presets -> Nat] /\ s \in PresetMaps /\ RequestTypes(q)
      /\ ChainInv(st, s, q) /\ OrderInv(st, s) /\ TokenInv(s, q)
  BY DEF Base
<1>2. ChainInv(st, t, u)
  BY <1>1, ChainKeep
<1>3. OrderInv(st, t)
  BY <1>1 DEF OrderInv
<1>4. \A p \in Presets : t.pending[p] # 0 => t.token[p] # NoOp /\ t.pending[p] = s.pending[p]
  BY <1>1 DEF TokenInv
<1>5. TokenInv(t, u)
  BY <1>1, <1>4, TokenQuiet
<1> QED BY <1>1, <1>2, <1>3, <1>5 DEF Base

\* The request has a deletion issued.
LEMMA ErasingBase ==
  ASSUME NEW st, NEW s, NEW t \in PresetMaps, NEW q, NEW u, NEW o \in PresetOps, NEW p \in Presets,
         Base(st, s, q), Others(q, u, o), RequestTypes(u),
         ~Waits(q[o]), u[o].pc \notin {"writing", "flushing"},
         \A x \in Presets : Accepted(q, o, x) => Accepted(u, o, x),
         Enqueued(s, t, p, o, 0), Owned(u, p, NewWrite(o, 0)),
         t.last = s.last, t.token = s.token, t.memory = s.memory, t.pending = s.pending,
         \A x \in Presets : t.gen[x] >= s.gen[x]
  PROVE Base(st, t, u)
<1>1. /\ st \in [Presets -> Nat] /\ s \in PresetMaps /\ RequestTypes(q)
      /\ ChainInv(st, s, q) /\ OrderInv(st, s) /\ TokenInv(s, q)
  BY DEF Base
<1>2. ChainInv(st, t, u)
  BY <1>1, ChainAppend
<1>3. OrderInv(st, t)
  <2>1. NewWrite(o, 0) \in PresetWrites /\ NewWrite(o, 0).value = 0
    BY DEF NewWrite, PresetWrites
  <2>2. s.chain[p] \in Seq(PresetWrites) /\ st[p] \in Nat /\ s.last[p] \in Nat
    BY <1>1 DEF PresetMaps
  <2>3. t.chain[p] = Append(s.chain[p], NewWrite(o, 0)) /\ \A x \in Presets : x # p => t.chain[x] = s.chain[x]
    BY <1>1 DEF PresetMaps, Enqueued
  <2>4. Ordered(t.chain[p], st[p], s.last[p])
    BY <1>1, <2>1, <2>2, <2>3, OrderedAppend DEF OrderInv
  <2> QED BY <1>1, <2>3, <2>4 DEF OrderInv
<1>4. \A x \in Presets : t.pending[x] # 0 => t.token[x] # NoOp /\ t.pending[x] = s.pending[x]
  BY <1>1 DEF TokenInv
<1>5. TokenInv(t, u)
  BY <1>1, <1>4, TokenQuiet
<1> QED BY <1>1, <1>2, <1>3, <1>5 DEF Base

\* The write that the request waits for is answered.
HeadAnswered(s, t, q, u, o, p) ==
  /\ s.chain[p] # <<>> /\ Head(s.chain[p]).op = o /\ t.chain = [s.chain EXCEPT ![p] = Tail(@)]
  /\ Others(q, u, o)

LEMMA AnsweredBase ==
  ASSUME NEW st, NEW s, NEW t \in PresetMaps, NEW q, NEW u, NEW o \in PresetOps, NEW p \in Presets,
         Base(st, s, q), HeadAnswered(s, t, q, u, o, p), RequestTypes(u),
         u[o].pc \notin {"writing", "flushing"},
         \A x \in Presets : Accepted(q, o, x) => Accepted(u, o, x),
         t.last = s.last,
         \A x \in Presets : /\ t.memory[x] \in {0, s.memory[x]}
                            /\ t.token[x] \in {NoOp, s.token[x]} /\ t.gen[x] >= s.gen[x]
                            /\ t.pending[x] # 0 =>
                                 /\ t.token[x] # NoOp
                                 /\ t.pending[x] = s.pending[x]
                                      \/ (t.pending[x] = s.last[x] /\ Unclaimed(q, o, s.token[x], x))
  PROVE Base(st, t, u)
<1>1. /\ st \in [Presets -> Nat] /\ s \in PresetMaps /\ RequestTypes(q)
      /\ ChainInv(st, s, q) /\ OrderInv(st, s) /\ TokenInv(s, q)
  BY DEF Base
<1>2. ChainInv(st, t, u)
  BY <1>1, ChainPop DEF HeadAnswered
<1>3. OrderInv(st, t)
  <2>1. s.chain[p] \in Seq(PresetWrites) /\ st[p] \in Nat /\ s.last[p] \in Nat
    BY <1>1 DEF PresetMaps
  <2>2. t.chain[p] = Tail(s.chain[p]) /\ \A x \in Presets : x # p => t.chain[x] = s.chain[x]
    BY <1>1 DEF PresetMaps, HeadAnswered
  <2>3. Ordered(t.chain[p], st[p], s.last[p])
    BY <1>1, <2>1, <2>2, OrderedTail DEF OrderInv, HeadAnswered
  <2>4. \A x \in Presets : t.pending[x] \in {0, s.last[x]}
    BY <1>1 DEF OrderInv
  <2> QED BY <1>1, <2>2, <2>3, <2>4 DEF OrderInv
<1>4. TokenInv(t, u)
  BY <1>1, TokenQuiet DEF HeadAnswered
<1> QED BY <1>1, <1>2, <1>3, <1>4 DEF Base

\* The request takes the waiting value of p and issues its write.
Flushes(s, t, q, u, o, p) ==
  /\ q[o].pc = "turning" /\ s.pending[p] # 0
  /\ t.memory = s.memory /\ t.tombs = s.tombs /\ t.gen = s.gen /\ t.token = s.token /\ t.last = s.last
  /\ t.pending = [s.pending EXCEPT ![p] = 0]
  /\ t.inFlight = [s.inFlight EXCEPT ![p] = [op |-> o, value |-> s.pending[p]]]
  /\ Enqueued(s, t, p, o, s.pending[p])
  /\ Others(q, u, o)
  /\ u[o].pc = "flushing" /\ u[o].preset = q[o].preset /\ u[o].value = q[o].value /\ u[o].at = p
  /\ u[o].gen = s.gen[p] /\ u[o].seen = s.pending[p] /\ u[o].token = s.token[p]

LEMMA FlushesBase ==
  ASSUME NEW st, NEW s, NEW t \in PresetMaps, NEW q, NEW u, NEW o \in PresetOps, NEW p \in Presets,
         Base(st, s, q), RequestTypes(u), Flushes(s, t, q, u, o, p)
  PROVE Base(st, t, u)
<1>1. /\ st \in [Presets -> Nat] /\ s \in PresetMaps /\ RequestTypes(q)
      /\ ChainInv(st, s, q) /\ OrderInv(st, s) /\ TokenInv(s, q)
  BY DEF Base
<1>2. PICK v \in Nat : v = s.pending[p] /\ v # 0 /\ v = s.last[p]
  BY <1>1 DEF PresetMaps, OrderInv, Flushes
<1>3. NewWrite(o, v) \in PresetWrites /\ NewWrite(o, v).value = v /\ Owned(u, p, NewWrite(o, v))
  BY <1>2 DEF NewWrite, PresetWrites, Owned, Flushes
<1>4. Enqueued(s, t, p, o, v) /\ Others(q, u, o) /\ ~Waits(q[o])
  BY <1>2 DEF Flushes, Waits
<1>5. ChainInv(st, t, u)
  BY <1>1, <1>3, <1>4, ChainAppend
<1>6. OrderInv(st, t)
  <2>2. s.chain[p] \in Seq(PresetWrites) /\ st[p] \in Nat /\ s.last[p] \in Nat
    BY <1>1 DEF PresetMaps
  <2>3. t.chain[p] = Append(s.chain[p], NewWrite(o, v)) /\ \A x \in Presets : x # p => t.chain[x] = s.chain[x]
    BY <1>1, <1>4 DEF PresetMaps, Enqueued
  <2>4. Ordered(t.chain[p], st[p], s.last[p])
    BY <1>1, <1>2, <1>3, <2>2, <2>3, OrderedAppend DEF OrderInv
  <2>5. \A x \in Presets : t.pending[x] \in {0, s.pending[x]}
    BY <1>1 DEF Flushes, PresetMaps
  <2> QED BY <1>1, <2>3, <2>4, <2>5 DEF OrderInv, Flushes
<1>7. TokenInv(t, u)
  <2>1. PICK k \in PresetOps : k = s.token[p] /\ Accepted(q, k, p)
    BY <1>1, <1>2 DEF TokenInv, PresetMaps, Accepted
  <2>2. t.pending[p] = 0 /\ \A x \in Presets : x # p => t.pending[x] = s.pending[x]
    BY <1>1 DEF Flushes, PresetMaps
  <2>3. \A x \in PresetOps, y \in Presets : Accepted(q, x, y) => Accepted(u, x, y)
    BY DEF Accepted, Flushes, Others
  <2>4. q[k].pc # "writing" /\ \A x \in PresetOps : q[x].pc = "flushing" /\ q[x].at = p => q[x].token # k
    <3>1. q[k].preset = p /\ s.token[p] = k /\ s.pending[p] # 0
      BY <1>2, <2>1 DEF Accepted
    <3>2. q[k].pc # "writing"
      BY <1>1, <3>1 DEF TokenInv
    <3>3. ASSUME NEW x \in PresetOps, q[x].pc = "flushing", q[x].at = p, q[x].token = k PROVE FALSE
      <4>1. s.token[q[x].at] = q[x].token
        BY <3>1, <3>3
      <4>2. s.pending[q[x].at] = 0
        BY <1>1, <3>3, <4>1 DEF TokenInv
      <4> QED BY <3>1, <3>3, <4>2
    <3> QED BY <3>2, <3>3
  <2>5. ASSUME NEW x \in PresetOps, u[x].pc = "writing", t.token[u[x].preset] = x
        PROVE u[x].value = t.last[u[x].preset] /\ t.pending[u[x].preset] = 0
    <3>1. x # o /\ u[x] = q[x] /\ q[x].preset \in Presets
      BY <1>1, <2>5 DEF Others, RequestTypes, Flushes
    <3> QED BY <1>1, <2>2, <2>5, <3>1 DEF TokenInv, Flushes
  <2>6. ASSUME NEW x \in PresetOps, u[x].pc = "flushing"
        PROVE /\ Accepted(u, u[x].token, u[x].at) /\ u[u[x].token].pc # "writing"
              /\ u[x].gen <= t.gen[u[x].at]
              /\ t.token[u[x].at] = u[x].token =>
                   /\ u[x].seen = t.last[u[x].at] /\ t.pending[u[x].at] = 0
                   /\ \A y \in PresetOps \ {x} : u[y].pc = "flushing" /\ u[y].at = u[x].at => u[y].token # u[x].token
    <3>1. CASE x = o
      <4>1. u[x].token = k /\ u[x].at = p /\ t.token[p] = k /\ u[x].gen = t.gen[p] /\ t.gen[p] \in Nat
        BY <2>1, <3>1 DEF Flushes, PresetMaps
      <4>2. u[k].pc # "writing"
        BY <2>4 DEF Flushes, Others
      <4>3. \A y \in PresetOps \ {x} : u[y].pc = "flushing" /\ u[y].at = p => u[y].token # k
        BY <2>4, <3>1 DEF Flushes, Others
      <4>4. u[x].seen = t.last[p] /\ Accepted(u, k, p)
        BY <1>2, <2>1, <2>3, <3>1 DEF Flushes
      <4> QED BY <2>2, <4>1, <4>2, <4>3, <4>4
    <3>2. CASE x # o
      <4>1. u[x] = q[x] /\ q[x].at \in Presets /\ q[x].token \in PresetOps
        BY <1>1, <2>6, <3>2 DEF Others, RequestTypes, Flushes, TokenInv, Accepted
      <4>2. Accepted(u, q[x].token, q[x].at) /\ u[q[x].token].pc # "writing" /\ q[x].gen <= t.gen[q[x].at]
        BY <1>1, <2>3, <2>6, <4>1 DEF TokenInv, Flushes, Others
      <4>3. ASSUME t.token[q[x].at] = q[x].token
            PROVE /\ q[x].seen = t.last[q[x].at] /\ t.pending[q[x].at] = 0
                  /\ \A y \in PresetOps \ {x} : u[y].pc = "flushing" /\ u[y].at = q[x].at => u[y].token # q[x].token
        <5>1. q[x].at # p
          BY <2>1, <2>4, <2>6, <4>1, <4>3 DEF Flushes
        <5>2. /\ q[x].seen = s.last[q[x].at] /\ s.pending[q[x].at] = 0
              /\ \A y \in PresetOps \ {x} : q[y].pc = "flushing" /\ q[y].at = q[x].at => q[y].token # q[x].token
          BY <1>1, <2>6, <4>1, <4>3 DEF TokenInv, Flushes
        <5>3. \A y \in PresetOps \ {x} : u[y].pc = "flushing" /\ u[y].at = q[x].at => u[y].token # q[x].token
          BY <5>1, <5>2 DEF Flushes, Others
        <5>4. q[x].seen = t.last[q[x].at] /\ t.pending[q[x].at] = 0
          BY <2>2, <4>1, <5>1, <5>2 DEF Flushes
        <5> QED BY <5>3, <5>4
      <4> QED BY <4>1, <4>2, <4>3
    <3> QED BY <3>1, <3>2
  <2>7. \A x \in Presets : (t.token[x] # NoOp => Accepted(u, t.token[x], x)) /\ (t.pending[x] # 0 => t.token[x] # NoOp)
    BY <1>1, <2>2, <2>3 DEF TokenInv, Flushes, Accepted
  <2> QED BY <2>5, <2>6, <2>7 DEF TokenInv
<1> QED BY <1>1, <1>5, <1>6, <1>7 DEF Base

\* An update of p is accepted: its value is the next one.
Accepts(s, t, q, u, o, p) ==
  /\ q[o].pc \in {"idle", "updating", "updateRead"}
  /\ t.memory = [s.memory EXCEPT ![p] = s.last[p] + 1] /\ t.last = [s.last EXCEPT ![p] = s.last[p] + 1]
  /\ t.token = [s.token EXCEPT ![p] = o] /\ t.tombs = s.tombs \ {p} /\ t.gen = s.gen
  /\ Others(q, u, o) /\ u[o].preset = p
  /\ \/ /\ t.pending = [s.pending EXCEPT ![p] = 0]
        /\ t.inFlight = [s.inFlight EXCEPT ![p] = [op |-> o, value |-> s.last[p] + 1]]
        /\ Enqueued(s, t, p, o, s.last[p] + 1)
        /\ u[o].pc = "writing" /\ u[o].value = s.last[p] + 1 /\ u[o].gen = q[o].gen
     \/ /\ t.pending = [s.pending EXCEPT ![p] = s.last[p] + 1] /\ t.inFlight = s.inFlight /\ t.chain = s.chain
        /\ u[o].pc = "done"

LEMMA AcceptsBase ==
  ASSUME NEW st, NEW s, NEW t \in PresetMaps, NEW q, NEW u, NEW o \in PresetOps, NEW p \in Presets,
         Base(st, s, q), RequestTypes(u), Accepts(s, t, q, u, o, p)
  PROVE Base(st, t, u)
<1>1. /\ st \in [Presets -> Nat] /\ s \in PresetMaps /\ RequestTypes(q)
      /\ ChainInv(st, s, q) /\ OrderInv(st, s) /\ TokenInv(s, q)
  BY DEF Base
<1>2. PICK v \in Nat : v = s.last[p] + 1 /\ v # 0 /\ s.last[p] <= v /\ v >= 1
  BY <1>1 DEF PresetMaps
<1>3. Others(q, u, o) /\ ~Waits(q[o])
  BY DEF Accepts, Waits
<1>4. /\ t.memory[p] = v /\ t.last[p] = v /\ t.token[p] = o /\ t.pending[p] \in {0, v}
      /\ \A x \in Presets : x # p => /\ t.memory[x] = s.memory[x] /\ t.last[x] = s.last[x]
                                     /\ t.token[x] = s.token[x] /\ t.pending[x] = s.pending[x]
  BY <1>1, <1>2 DEF Accepts, PresetMaps
<1>5. ChainInv(st, t, u)
  <2>1. CASE t.chain = s.chain
    BY <1>1, <1>3, <2>1, ChainKeep
  <2>2. CASE Enqueued(s, t, p, o, v) /\ u[o].pc = "writing" /\ u[o].value = v
    <3>1. Owned(u, p, NewWrite(o, v))
      BY <1>2, <2>2 DEF NewWrite, Owned, Accepts
    <3> QED BY <1>1, <1>3, <2>2, <3>1, ChainAppend
  <2> QED BY <1>2, <2>1, <2>2 DEF Accepts
<1>6. OrderInv(st, t)
  <2>1. s.chain[p] \in Seq(PresetWrites) /\ st[p] \in Nat /\ s.last[p] \in Nat /\ Ordered(s.chain[p], st[p], s.last[p])
    BY <1>1 DEF PresetMaps, OrderInv
  <2>2. Ordered(t.chain[p], st[p], v) /\ \A x \in Presets : x # p => t.chain[x] = s.chain[x]
    <3>1. CASE t.chain = s.chain
      <4>1. \A i \in DOMAIN s.chain[p] : s.chain[p][i].value \in Nat
        BY <2>1, WriteFields
      <4> QED BY <1>2, <2>1, <3>1, <4>1 DEF Ordered
    <3>2. CASE Enqueued(s, t, p, o, v)
      <4>1. NewWrite(o, v) \in PresetWrites /\ NewWrite(o, v).value = v
        BY DEF NewWrite, PresetWrites
      <4>2. t.chain[p] = Append(s.chain[p], NewWrite(o, v)) /\ \A x \in Presets : x # p => t.chain[x] = s.chain[x]
        BY <1>1, <3>2 DEF PresetMaps, Enqueued
      <4> QED BY <1>2, <2>1, <4>1, <4>2, OrderedAppend
    <3> QED BY <1>2, <3>1, <3>2 DEF Accepts
  <2> QED BY <1>1, <1>2, <1>4, <2>2 DEF OrderInv
<1>7. TokenInv(t, u)
  <2>1. \A x \in Presets : ~Accepted(q, o, x)
    BY DEF Accepted, Accepts
  <2>2. \A x \in PresetOps, y \in Presets : Accepted(q, x, y) => x # o /\ Accepted(u, x, y)
    BY <2>1 DEF Accepted, Accepts, Others
  <2>3. Accepted(u, o, p)
    BY DEF Accepted, Accepts
  <2>4. \A x \in Presets : (t.token[x] # NoOp => Accepted(u, t.token[x], x)) /\ (t.pending[x] # 0 => t.token[x] # NoOp)
    BY <1>1, <1>4, <2>2, <2>3, PresetAssumption DEF TokenInv, Accepted
  <2>5. ASSUME NEW x \in PresetOps, u[x].pc = "writing", t.token[u[x].preset] = x
        PROVE u[x].value = t.last[u[x].preset] /\ t.pending[u[x].preset] = 0
    <3>1. CASE x = o
      <4>1. u[x].preset = p /\ u[x].value = v /\ t.pending[p] = 0
        BY <1>1, <1>2, <2>5, <3>1 DEF Accepts, PresetMaps
      <4> QED BY <1>4, <4>1
    <3>2. CASE x # o
      <4>1. u[x] = q[x] /\ q[x].preset \in Presets /\ q[x].preset # p
        BY <1>1, <1>4, <2>5, <3>2 DEF Others, RequestTypes, Accepts
      <4> QED BY <1>1, <1>4, <2>5, <4>1 DEF TokenInv
    <3> QED BY <3>1, <3>2
  <2>6. ASSUME NEW x \in PresetOps, u[x].pc = "flushing"
        PROVE /\ Accepted(u, u[x].token, u[x].at) /\ u[u[x].token].pc # "writing"
              /\ u[x].gen <= t.gen[u[x].at]
              /\ t.token[u[x].at] = u[x].token =>
                   /\ u[x].seen = t.last[u[x].at] /\ t.pending[u[x].at] = 0
                   /\ \A y \in PresetOps \ {x} : u[y].pc = "flushing" /\ u[y].at = u[x].at => u[y].token # u[x].token
    <3>1. x # o /\ u[x] = q[x] /\ q[x].at \in Presets /\ q[x].token \in PresetOps /\ q[x].token # o
      BY <1>1, <2>2, <2>6 DEF Others, RequestTypes, Accepts, TokenInv, Accepted
    <3>2. Accepted(u, q[x].token, q[x].at) /\ u[q[x].token].pc # "writing" /\ q[x].gen <= t.gen[q[x].at]
      BY <1>1, <2>2, <2>6, <3>1 DEF TokenInv, Accepts, Others
    <3>3. ASSUME t.token[q[x].at] = q[x].token
          PROVE /\ q[x].seen = t.last[q[x].at] /\ t.pending[q[x].at] = 0
                /\ \A y \in PresetOps \ {x} : u[y].pc = "flushing" /\ u[y].at = q[x].at => u[y].token # q[x].token
      <4>1. q[x].at # p
        BY <1>4, <3>1, <3>3
      <4>2. /\ q[x].seen = s.last[q[x].at] /\ s.pending[q[x].at] = 0
            /\ \A y \in PresetOps \ {x} : q[y].pc = "flushing" /\ q[y].at = q[x].at => q[y].token # q[x].token
        BY <1>1, <1>4, <2>6, <3>1, <3>3, <4>1 DEF TokenInv
      <4>3. \A y \in PresetOps \ {x} : u[y].pc = "flushing" /\ u[y].at = q[x].at => u[y].token # q[x].token
        BY <4>2 DEF Accepts, Others
      <4> QED BY <1>4, <3>1, <4>1, <4>2, <4>3
    <3> QED BY <3>1, <3>2, <3>3
  <2> QED BY <2>4, <2>5, <2>6 DEF TokenInv
<1> QED BY <1>1, <1>5, <1>6, <1>7 DEF Base

-----------------------------------------------------------------------------
(* What PresetsSafe needs, with dis the presets whose deletion was answered, set those *)
(* of which no two requests had overlapped until then, crowd those of which two did.   *)

Removes(r) == r.pc \in {"removing", "removeRead", "deleting"}
Removing(q, p) == \E o \in PresetOps : q[o].preset = p /\ Removes(q[o])
Underway(r) == r.pc \in {"writing", "flushing", "untombing", "turning"}

\* A preset some deletion was answered for, or is sure to be.  Once so, always so.
Dooms(s, r, p) ==
  r.preset = p /\ (r.pc = "deleting" \/ (r.pc \in {"removing", "removeRead"} /\ s.memory[p] # 0))
Leaving(s, q, dis, p) == p \in dis \/ \E o \in PresetOps : Dooms(s, q[o], p)

\* The last write of the chain of p carries the newest value, and o will put it back if it fails.
Carries(s, q, p, o) ==
  LET c == s.chain[p]
  IN /\ c # <<>> /\ c[Len(c)].op = o /\ c[Len(c)].value = s.last[p]
     /\ s.inFlight[p] = [op |-> o, value |-> s.last[p]]
     /\ \/ q[o].pc = "writing" /\ s.token[p] = o
        \/ q[o].pc = "flushing" /\ s.token[p] = q[o].token

Calm(s, r, p) ==
  /\ r.preset = p /\ r.pc \in {"updating", "updateRead", "writing"} => r.gen = 0
  /\ r.pc = "flushing" /\ r.at = p => r.gen = 0
  /\ r.pc = "untombing" => p \notin r.todo /\ p # r.at
  /\ s.memory[p] = 0 => ~(r.pc = "writing" /\ r.preset = p) /\ ~(r.pc = "flushing" /\ r.at = p)

Newest(st, s, q, p) ==
  /\ s.memory[p] = 0 => s.pending[p] = 0
  /\ s.memory[p] # 0 => \/ s.pending[p] = s.last[p]
                        \/ \E o \in PresetOps : Carries(s, q, p, o)
                        \/ s.chain[p] = <<>> /\ st[p] = s.last[p]

\* A preset that is not leaving has no tombstone, and its newest value is not lost.
StayInv(st, s, q, dis) ==
  \A p \in Presets : ~Leaving(s, q, dis, p) =>
    /\ p \notin s.tombs /\ s.gen[p] = 0
    /\ \A o \in PresetOps : Calm(s, q[o], p)
    /\ Newest(st, s, q, p)

AloneInv(q, crowd) ==
  \A o, x \in PresetOps :
    o # x /\ q[o].pc \notin {"idle", "done"} /\ q[x].pc \notin {"idle", "done"} /\ q[o].preset = q[x].preset
      => q[o].preset \in crowd

AllZero(c) == \A i \in DOMAIN c : c[i].value = 0
Cleared(st, s, p) == st[p] = 0 /\ s.inFlight[p] = NoWrite /\ AllZero(s.chain[p])
Erased(st, s, p) == p \in s.tombs \/ Cleared(st, s, p)

\* Nobody puts a value of p back into the queue.
NoRestore(s, q, p) ==
  s.pending[p] = 0 /\ \A o \in PresetOps : q[o].pc = "flushing" /\ q[o].at = p => q[o].gen # s.gen[p]

UncrowdedInv(st, s, q, dis, set, crowd) ==
  \A p \in Presets \ crowd :
    /\ s.memory[p] = 0 \/ Removing(q, p) => NoRestore(s, q, p)
    /\ p \in dis => p \in set
    /\ \A o \in PresetOps : q[o].preset = p =>
         /\ q[o].pc = "writing" => s.memory[p] # 0
         /\ q[o].pc \in {"removing", "removeRead"} =>
              (s.memory[p] # 0 => q[o].had) /\ (q[o].had => Erased(st, s, p))
         /\ q[o].pc = "deleting" => Erased(st, s, p)

\* Behind a deletion there are only deletions.
Zeros(c) == \A i, j \in DOMAIN c : i < j /\ c[i].value = 0 => c[j].value = 0
ZeroInv(s, set, crowd) == \A p \in Presets : p \notin crowd \/ p \in set => Zeros(s.chain[p])

FlightInv(s, q) ==
  \A p \in Presets : s.inFlight[p] # NoWrite =>
    \E o \in PresetOps :
      /\ s.inFlight[p].op = o
      /\ \/ q[o].preset = p /\ Underway(q[o]) /\ s.inFlight[p].value = q[o].value
         \/ /\ q[o].pc = "flushing" /\ q[o].at = p /\ s.inFlight[p].value = q[o].seen
            /\ \E i \in DOMAIN s.chain[p] : s.chain[p][i].op = o

GoneInv(st, s, q, dis, set) ==
  \A p \in set :
    /\ p \in dis /\ s.memory[p] = 0 /\ NoRestore(s, q, p) /\ Erased(st, s, p)
    /\ \A o \in PresetOps : q[o].preset = p =>
         /\ ~Underway(q[o])
         /\ q[o].pc \in {"updating", "updateRead"} => Cleared(st, s, p)
         /\ q[o].pc = "updateRead" => q[o].seen = 0

Good(st, s, q, dis, set, crowd) ==
  /\ Base(st, s, q)
  /\ set \subseteq Presets /\ dis \subseteq Presets /\ crowd \subseteq Presets
  /\ StayInv(st, s, q, dis)
  /\ AloneInv(q, crowd)
  /\ UncrowdedInv(st, s, q, dis, set, crowd)
  /\ ZeroInv(s, set, crowd)
  /\ FlightInv(s, q)
  /\ GoneInv(st, s, q, dis, set)

LEMMA StillLeaving ==
  ASSUME NEW s \in PresetMaps, NEW t \in PresetMaps, NEW q, NEW u, NEW o \in PresetOps, NEW dis, NEW gone,
         Others(q, u, o), dis \subseteq gone, NEW p \in Presets, Leaving(s, q, dis, p),
         s.memory[p] # 0 => t.memory[p] # 0 \/ p \in gone,
         Dooms(s, q[o], p) => Dooms(t, u[o], p) \/ p \in gone
  PROVE Leaving(t, u, gone, p)
<1>1. CASE p \in dis
  BY <1>1 DEF Leaving
<1>2. ASSUME NEW x \in PresetOps, Dooms(s, q[x], p), x # o PROVE Dooms(t, u[x], p) \/ p \in gone
  BY <1>2 DEF Dooms, Others
<1> QED BY <1>1, <1>2 DEF Leaving

\* A deletion in the chain of p: it is leaving.
LEMMA ZeroLeaves ==
  ASSUME NEW st, NEW s, NEW q, NEW dis, Base(st, s, q), StayInv(st, s, q, dis),
         NEW p \in Presets, NEW i \in DOMAIN s.chain[p], s.chain[p][i].value = 0
  PROVE Leaving(s, q, dis, p)
<1>1. s.chain[p][i] \in PresetWrites /\ Owned(q, p, s.chain[p][i])
  <2>1. s.chain[p] \in Seq(PresetWrites)
    BY DEF Base, PresetMaps
  <2> QED BY <2>1 DEF Base, ChainInv
<1>2. PICK o \in PresetOps : (q[o].pc = "untombing" /\ q[o].at = p) \/ (q[o].pc = "deleting" /\ q[o].preset = p)
  <2>1. s.chain[p][i].op \in PresetOps
    BY <1>1, WriteFields
  <2> QED BY <1>1, <2>1 DEF Owned
<1>3. CASE q[o].pc = "untombing" /\ q[o].at = p
  BY <1>3 DEF StayInv, Calm
<1>4. CASE q[o].pc = "deleting" /\ q[o].preset = p
  BY <1>4 DEF Leaving, Dooms
<1> QED BY <1>2, <1>3, <1>4

\* With only deletions in its chain and no request engaged, p has nothing in flight.
LEMMA NothingInFlight ==
  ASSUME NEW st, NEW s, NEW q, Base(st, s, q), FlightInv(s, q), NEW p \in Presets,
         AllZero(s.chain[p]), \A o \in PresetOps : q[o].preset = p => ~Underway(q[o])
  PROVE s.inFlight[p] = NoWrite
<1> SUFFICES ASSUME s.inFlight[p] # NoWrite PROVE FALSE
  OBVIOUS
<1>1. PICK o \in PresetOps : q[o].pc = "flushing" /\ q[o].at = p /\ \E i \in DOMAIN s.chain[p] : s.chain[p][i].op = o
  BY DEF FlightInv
<1>2. PICK i \in DOMAIN s.chain[p] : s.chain[p][i].op = o
  BY <1>1
<1>3. Owned(q, p, s.chain[p][i])
  BY DEF Base, ChainInv
<1>4. s.chain[p][i].value # 0
  <2>1. q[s.chain[p][i].op].pc = "flushing"
    BY <1>1, <1>2
  <2> QED BY <1>3, <2>1 DEF Owned
<1> QED BY <1>4 DEF AllZero

LEMMA AppendedZeros ==
  ASSUME NEW c \in Seq(PresetWrites), NEW o \in PresetOps, NEW v \in Nat
  PROVE /\ v = 0 => (AllZero(c) => AllZero(Append(c, NewWrite(o, v)))) /\ (Zeros(c) => Zeros(Append(c, NewWrite(o, v))))
        /\ (\A i \in DOMAIN c : c[i].value # 0) => Zeros(Append(c, NewWrite(o, v)))
<1>1. PICK e \in PresetWrites : e = NewWrite(o, v) /\ e.value = v
  <2>1. NewWrite(o, v) \in PresetWrites /\ NewWrite(o, v).value = v
    BY DEF NewWrite, PresetWrites
  <2> QED BY <2>1
<1>2. PICK d : d = Append(c, e)
  OBVIOUS
<1>3. \A i \in DOMAIN d : i \in Nat /\ (i = Len(d) \/ (i \in DOMAIN c /\ d[i] = c[i] /\ i < Len(d)))
  BY <1>2, Appended
<1>4. d[Len(d)] = e /\ Len(d) \in Nat
  BY <1>2, Appended
<1>5. v = 0 => (AllZero(c) => AllZero(d)) /\ (Zeros(c) => Zeros(d))
  BY <1>1, <1>3, <1>4 DEF AllZero, Zeros
<1>6. (\A i \in DOMAIN c : c[i].value # 0) => Zeros(d)
  BY <1>3, <1>4 DEF Zeros
<1> QED BY <1>1, <1>2, <1>5, <1>6

LEMMA PoppedZeros ==
  ASSUME NEW c \in Seq(PresetWrites), c # <<>>
  PROVE /\ AllZero(c) => AllZero(Tail(c))
        /\ Zeros(c) => Zeros(Tail(c)) /\ (c[1].value = 0 => AllZero(Tail(c)))
        /\ Tail(c) # <<>> => Len(Tail(c)) >= 1 /\ Tail(c)[Len(Tail(c))] = c[Len(c)] /\ Len(c) # 1
        /\ Tail(c) = <<>> => c[1] = c[Len(c)]
<1>1. PICK d : d = Tail(c)
  OBVIOUS
<1>2. /\ d \in Seq(PresetWrites) /\ Len(d) = Len(c) - 1 /\ Len(c) \in Nat /\ 1 \in DOMAIN c
      /\ \A i \in DOMAIN d : i \in Nat /\ i >= 1 /\ i + 1 \in DOMAIN c /\ d[i] = c[i + 1]
  BY <1>1, Popped
<1>3. AllZero(c) => AllZero(d)
  BY <1>2 DEF AllZero
<1>4. Zeros(c) => Zeros(d)
  BY <1>2 DEF Zeros
<1>5. Zeros(c) /\ c[1].value = 0 => AllZero(d)
  <2>1. ASSUME NEW i \in DOMAIN d, Zeros(c), c[1].value = 0 PROVE d[i].value = 0
    <3>1. 1 < i + 1 /\ i + 1 \in DOMAIN c /\ d[i] = c[i + 1]
      BY <1>2
    <3> QED BY <1>2, <2>1, <3>1 DEF Zeros
  <2> QED BY <2>1 DEF AllZero
<1>6. d # <<>> => Len(d) >= 1 /\ d[Len(d)] = c[Len(c)] /\ Len(c) # 1
  <2>1. d # <<>> => Len(d) \in DOMAIN d /\ Len(d) >= 1
    BY <1>2
  <2> QED BY <1>2, <2>1
<1>7. d = <<>> => c[1] = c[Len(c)]
  <2>1. d = <<>> => Len(d) = 0
    OBVIOUS
  <2>2. Len(d) = 0 => Len(c) = 1
    BY <1>2
  <2> QED BY <2>1, <2>2
<1> QED BY <1>1, <1>3, <1>4, <1>5, <1>6, <1>7

LEMMA ExecutesGood ==
  ASSUME NEW st, NEW sx, NEW s, NEW t, NEW q, NEW dis, NEW set, NEW crowd, NEW p \in Presets,
         Good(st, s, q, dis, set, crowd), Executes(st, sx, s, t, p)
  PROVE Good(sx, t, q, dis, set, crowd)
<1>1. /\ Base(st, s, q) /\ st \in [Presets -> Nat] /\ s \in PresetMaps
      /\ StayInv(st, s, q, dis) /\ UncrowdedInv(st, s, q, dis, set, crowd)
      /\ ZeroInv(s, set, crowd) /\ FlightInv(s, q) /\ GoneInv(st, s, q, dis, set)
      /\ set \subseteq Presets /\ dis \subseteq Presets /\ crowd \subseteq Presets /\ AloneInv(q, crowd)
  BY DEF Good, Base
<1>2. Base(sx, t, q)
  BY <1>1, ExecutesBase
<1>3. /\ t \in PresetMaps /\ sx \in [Presets -> Nat]
      /\ t.memory = s.memory /\ t.pending = s.pending /\ t.inFlight = s.inFlight /\ t.tombs = s.tombs
      /\ t.gen = s.gen /\ t.token = s.token /\ t.last = s.last
      /\ \A x \in Presets : x # p => t.chain[x] = s.chain[x]
      /\ DOMAIN t.chain[p] = DOMAIN s.chain[p] /\ 1 \in DOMAIN s.chain[p]
      /\ \A i \in DOMAIN s.chain[p] :
           /\ i \in Nat /\ i >= 1 /\ t.chain[p][i].op = s.chain[p][i].op /\ t.chain[p][i].value = s.chain[p][i].value
           /\ i # 1 => t.chain[p][i] = s.chain[p][i]
           /\ s.chain[p][i].value \in Nat
      /\ sx = [st EXCEPT ![p] = s.chain[p][1].value]
  BY <1>1, ExecutesFields
<1>4. sx[p] = s.chain[p][1].value /\ \A x \in Presets : x # p => sx[x] = st[x]
  BY <1>1, <1>3
<1>5. /\ s.chain[p] # <<>> /\ t.chain[p] # <<>> /\ Len(t.chain[p]) = Len(s.chain[p]) /\ Len(s.chain[p]) \in DOMAIN s.chain[p]
  <2>1. s.chain[p] \in Seq(PresetWrites) /\ t.chain[p] \in Seq(PresetWrites)
    BY <1>1, <1>3 DEF PresetMaps
  <2> QED BY <1>3, <2>1
<1>6. ASSUME NEW x \in Presets
      PROVE /\ AllZero(s.chain[x]) => AllZero(t.chain[x])
            /\ Zeros(s.chain[x]) => Zeros(t.chain[x])
            /\ Cleared(st, s, x) => Cleared(sx, t, x)
  <2>1. CASE x = p
    <3>1. AllZero(s.chain[x]) => AllZero(t.chain[x]) /\ s.chain[p][1].value = 0
      BY <1>3, <2>1 DEF AllZero
    <3>2. Zeros(s.chain[x]) => Zeros(t.chain[x])
      BY <1>3, <2>1 DEF Zeros
    <3> QED BY <1>3, <1>4, <2>1, <3>1, <3>2 DEF Cleared
  <2>2. CASE x # p
    BY <1>3, <1>4, <2>2 DEF Cleared
  <2> QED BY <2>1, <2>2
<1>7. \A x \in Presets : Erased(st, s, x) => Erased(sx, t, x)
  BY <1>3, <1>6 DEF Erased
<1>8. \A x \in Presets : Leaving(t, q, dis, x) <=> Leaving(s, q, dis, x)
  BY <1>3 DEF Leaving, Dooms
<1>9. StayInv(sx, t, q, dis)
  <2>1. ASSUME NEW x \in Presets, Newest(st, s, q, x) PROVE Newest(sx, t, q, x)
    <3>1. ASSUME NEW o \in PresetOps, Carries(s, q, x, o) PROVE Carries(t, q, x, o)
      <4>1. CASE x = p
        BY <1>3, <1>5, <3>1, <4>1 DEF Carries
      <4>2. CASE x # p
        BY <1>3, <3>1, <4>2 DEF Carries
      <4> QED BY <4>1, <4>2
    <3>2. s.chain[x] = <<>> => x # p
      BY <1>5
    <3> QED BY <1>3, <1>4, <2>1, <3>1, <3>2 DEF Newest
  <2>2. \A x \in Presets, o \in PresetOps : Calm(s, q[o], x) => Calm(t, q[o], x)
    BY <1>3 DEF Calm
  <2>3. t.tombs = s.tombs /\ t.gen = s.gen
    BY <1>3
  <2> QED BY <1>1, <1>8, <2>1, <2>2, <2>3 DEF StayInv
<1>14. \A x \in Presets : NoRestore(s, q, x) => NoRestore(t, q, x)
  BY <1>3 DEF NoRestore
<1>15. t.memory = s.memory
  BY <1>3
<1>10. UncrowdedInv(sx, t, q, dis, set, crowd)
  BY <1>1, <1>7, <1>14, <1>15 DEF UncrowdedInv
<1>11. ZeroInv(t, set, crowd)
  BY <1>1, <1>6 DEF ZeroInv
<1>12. FlightInv(t, q)
  <2>1. ASSUME NEW x \in Presets, NEW o \in PresetOps, NEW i \in DOMAIN s.chain[x], s.chain[x][i].op = o
        PROVE \E j \in DOMAIN t.chain[x] : t.chain[x][j].op = o
    <3>1. i \in DOMAIN t.chain[x] /\ t.chain[x][i].op = o
      BY <1>3, <2>1
    <3> QED BY <3>1
  <2> QED BY <1>1, <1>3, <2>1 DEF FlightInv
<1>13. GoneInv(sx, t, q, dis, set)
  BY <1>1, <1>6, <1>7, <1>14, <1>15 DEF GoneInv
<1> QED BY <1>1, <1>2, <1>9, <1>10, <1>11, <1>12, <1>13 DEF Good

LEMMA CrowdGood ==
  ASSUME NEW st, NEW s, NEW q, NEW dis, NEW set, NEW crowd, NEW more,
         Good(st, s, q, dis, set, crowd), crowd \subseteq more, more \subseteq Presets
  PROVE Good(st, s, q, dis, set, more)
<1>1. AloneInv(q, more)
  BY DEF Good, AloneInv
<1>2. UncrowdedInv(st, s, q, dis, set, more)
  BY DEF Good, UncrowdedInv
<1>3. ZeroInv(s, set, more)
  BY DEF Good, ZeroInv
<1> QED BY <1>1, <1>2, <1>3 DEF Good

\* The request starts, takes its snapshot or ends, and the maps stay.
LEMMA QuietGood ==
  ASSUME NEW st, NEW s, NEW q, NEW u, NEW dis, NEW set, NEW crowd, NEW o \in PresetOps,
         Good(st, s, q, dis, set, crowd), Others(q, u, o), RequestTypes(u), AloneInv(u, crowd),
         q[o].pc \in {"idle", "updating", "updateRead", "removing", "removeRead"},
         u[o].pc \in {"updating", "updateRead", "removing", "removeRead", "done"},
         \A x \in Presets :
           /\ Dooms(s, q[o], x) => Dooms(s, u[o], x)
           /\ ~Leaving(s, u, dis, x) => Calm(s, u[o], x)
           /\ u[o].preset = x /\ u[o].pc \in {"removing", "removeRead"} =>
                q[o].preset = x /\ q[o].pc \in {"removing", "removeRead"} /\ u[o].had = q[o].had
           /\ x \in set /\ u[o].preset = x =>
                /\ u[o].pc \in {"updating", "updateRead"} => Cleared(st, s, x)
                /\ u[o].pc = "updateRead" => u[o].seen = 0
  PROVE Good(st, s, u, dis, set, crowd)
<1>1. /\ Base(st, s, q) /\ st \in [Presets -> Nat] /\ s \in PresetMaps /\ RequestTypes(q)
      /\ StayInv(st, s, q, dis) /\ UncrowdedInv(st, s, q, dis, set, crowd)
      /\ ZeroInv(s, set, crowd) /\ FlightInv(s, q) /\ GoneInv(st, s, q, dis, set)
      /\ set \subseteq Presets /\ dis \subseteq Presets /\ crowd \subseteq Presets
  BY DEF Good, Base
<1>2. Base(st, s, u)
  <2>1. ~Waits(q[o]) /\ \A p \in Presets : ~Accepted(q, o, p)
    BY DEF Waits, Accepted
  <2>2. \A p \in Presets : s.gen[p] >= s.gen[p]
    BY <1>1 DEF PresetMaps
  <2> QED BY <1>1, <2>1, <2>2, QuietBase
<1>3. \A x \in Presets : Leaving(s, q, dis, x) => Leaving(s, u, dis, x)
  BY <1>1, StillLeaving
<1>4. StayInv(st, s, u, dis)
  <2>1. ASSUME NEW x \in Presets, Newest(st, s, q, x) PROVE Newest(st, s, u, x)
    <3>1. \A y \in PresetOps : Carries(s, q, x, y) => Carries(s, u, x, y)
      BY DEF Carries, Others
    <3> QED BY <2>1, <3>1 DEF Newest
  <2>2. ASSUME NEW x \in Presets, ~Leaving(s, u, dis, x), NEW y \in PresetOps PROVE Calm(s, u[y], x)
    BY <1>1, <1>3, <2>2 DEF StayInv, Others
  <2> QED BY <1>1, <1>3, <2>1, <2>2 DEF StayInv
<1>5. \A x \in Presets : NoRestore(s, q, x) => NoRestore(s, u, x)
  BY DEF NoRestore, Others
<1>6. UncrowdedInv(st, s, u, dis, set, crowd)
  <2> SUFFICES ASSUME NEW p \in Presets \ crowd
               PROVE /\ s.memory[p] = 0 \/ Removing(u, p) => NoRestore(s, u, p)
                     /\ p \in dis => p \in set
                     /\ \A x \in PresetOps : u[x].preset = p =>
                          /\ u[x].pc = "writing" => s.memory[p] # 0
                          /\ u[x].pc \in {"removing", "removeRead"} =>
                               (s.memory[p] # 0 => u[x].had) /\ (u[x].had => Erased(st, s, p))
                          /\ u[x].pc = "deleting" => Erased(st, s, p)
    BY DEF UncrowdedInv
  <2>1. \A x \in PresetOps : u[x].preset = p /\ Removes(u[x]) => q[x].preset = p /\ Removes(q[x])
    BY DEF Others, Removes
  <2>2. s.memory[p] = 0 \/ Removing(u, p) => NoRestore(s, u, p)
    BY <1>1, <1>5, <2>1 DEF UncrowdedInv, Removing
  <2>3. ASSUME NEW x \in PresetOps, u[x].preset = p
        PROVE /\ u[x].pc = "writing" => s.memory[p] # 0
              /\ u[x].pc \in {"removing", "removeRead"} =>
                   (s.memory[p] # 0 => u[x].had) /\ (u[x].had => Erased(st, s, p))
              /\ u[x].pc = "deleting" => Erased(st, s, p)
    <3>1. CASE x # o
      BY <1>1, <2>3, <3>1 DEF UncrowdedInv, Others
    <3>2. CASE x = o
      <4>1. u[o].pc # "writing" /\ u[o].pc # "deleting"
        OBVIOUS
      <4>2. u[o].pc \in {"removing", "removeRead"} =>
                q[o].preset = p /\ q[o].pc \in {"removing", "removeRead"} /\ u[o].had = q[o].had
        BY <2>3, <3>2
      <4> QED BY <1>1, <3>2, <4>1, <4>2 DEF UncrowdedInv
    <3> QED BY <3>1, <3>2
  <2> QED BY <1>1, <2>2, <2>3 DEF UncrowdedInv
<1>7. FlightInv(s, u)
  BY <1>1 DEF FlightInv, Others, Underway
<1>8. GoneInv(st, s, u, dis, set)
  <2> SUFFICES ASSUME NEW p \in set, NEW x \in PresetOps, u[x].preset = p
               PROVE /\ ~Underway(u[x])
                     /\ u[x].pc \in {"updating", "updateRead"} => Cleared(st, s, p)
                     /\ u[x].pc = "updateRead" => u[x].seen = 0
    BY <1>1, <1>5 DEF GoneInv
  <2>1. CASE x # o
    BY <1>1, <2>1 DEF GoneInv, Others
  <2>2. CASE x = o
    BY <1>1, <2>2 DEF Underway
  <2> QED BY <2>1, <2>2
<1> QED BY <1>1, <1>2, <1>4, <1>6, <1>7, <1>8 DEF Good

LEMMA AloneKeep ==
  ASSUME NEW q, NEW u, NEW crowd, NEW o \in PresetOps, AloneInv(q, crowd), Others(q, u, o),
         u[o].pc \in {"idle", "done"} \/ (q[o].pc \notin {"idle", "done"} /\ u[o].preset = q[o].preset)
  PROVE AloneInv(u, crowd)
  BY DEF AloneInv, Others

\* An engaged request goes on: what that may disturb of the presets that are going or gone.
LEMMA EngagedApart ==
  ASSUME NEW st, NEW s, NEW t, NEW q, NEW u, NEW dis, NEW set, NEW crowd, NEW o \in PresetOps,
         UncrowdedInv(st, s, q, dis, set, crowd), GoneInv(st, s, q, dis, set), set \subseteq Presets,
         Others(q, u, o), Underway(q[o]), u[o].pc \in {"flushing", "untombing", "turning", "done"},
         u[o].preset = q[o].preset, t.memory = s.memory,
         \A x \in Presets \ crowd :
           /\ (s.memory[x] = 0 \/ Removing(q, x)) /\ NoRestore(s, q, x) => NoRestore(t, u, x)
           /\ Removing(q, x) /\ Erased(st, s, x) => Erased(st, t, x),
         \A x \in set :
           /\ NoRestore(s, q, x) => NoRestore(t, u, x)
           /\ Erased(st, s, x) => Erased(st, t, x)
           /\ Cleared(st, s, x) => Cleared(st, t, x)
  PROVE UncrowdedInv(st, t, u, dis, set, crowd) /\ GoneInv(st, t, u, dis, set)
<1>1. \A x \in PresetOps : Removes(u[x]) => x # o /\ Removes(q[x])
  BY DEF Others, Removes
<1>2. \A x \in Presets : Removing(u, x) => Removing(q, x)
  BY <1>1 DEF Others, Removing
<1>3. UncrowdedInv(st, t, u, dis, set, crowd)
  <2> SUFFICES ASSUME NEW p \in Presets \ crowd
               PROVE /\ t.memory[p] = 0 \/ Removing(u, p) => NoRestore(t, u, p)
                     /\ p \in dis => p \in set
                     /\ \A x \in PresetOps : u[x].preset = p =>
                          /\ u[x].pc = "writing" => t.memory[p] # 0
                          /\ u[x].pc \in {"removing", "removeRead"} =>
                               (t.memory[p] # 0 => u[x].had) /\ (u[x].had => Erased(st, t, p))
                          /\ u[x].pc = "deleting" => Erased(st, t, p)
    BY DEF UncrowdedInv
  <2>1. (t.memory[p] = 0 \/ Removing(u, p) => NoRestore(t, u, p)) /\ (p \in dis => p \in set)
    BY <1>2 DEF UncrowdedInv
  <2>2. ASSUME NEW x \in PresetOps, u[x].preset = p
        PROVE /\ u[x].pc = "writing" => t.memory[p] # 0
              /\ u[x].pc \in {"removing", "removeRead"} =>
                   (t.memory[p] # 0 => u[x].had) /\ (u[x].had => Erased(st, t, p))
              /\ u[x].pc = "deleting" => Erased(st, t, p)
    <3>1. CASE x = o
      BY <3>1
    <3>2. CASE x # o
      <4>1. u[x] = q[x] /\ q[x].preset = p
        BY <2>2, <3>2 DEF Others
      <4>2. q[x].pc \in {"removing", "removeRead", "deleting"} => Removing(q, p)
        BY <4>1 DEF Removing, Removes
      <4>3. /\ q[x].pc = "writing" => s.memory[p] # 0
            /\ q[x].pc \in {"removing", "removeRead"} =>
                 (s.memory[p] # 0 => q[x].had) /\ (q[x].had => Erased(st, s, p))
            /\ q[x].pc = "deleting" => Erased(st, s, p)
        BY <4>1 DEF UncrowdedInv
      <4>4. Removing(q, p) /\ Erased(st, s, p) => Erased(st, t, p)
        OBVIOUS
      <4> QED BY <4>1, <4>2, <4>3, <4>4
    <3> QED BY <3>1, <3>2
  <2> QED BY <2>1, <2>2
<1>4. GoneInv(st, t, u, dis, set)
  <2> SUFFICES ASSUME NEW p \in set
               PROVE /\ p \in dis /\ t.memory[p] = 0 /\ NoRestore(t, u, p) /\ Erased(st, t, p)
                     /\ \A x \in PresetOps : u[x].preset = p =>
                          /\ ~Underway(u[x])
                          /\ u[x].pc \in {"updating", "updateRead"} => Cleared(st, t, p)
                          /\ u[x].pc = "updateRead" => u[x].seen = 0
    BY DEF GoneInv
  <2>1. p \in dis /\ t.memory[p] = 0 /\ NoRestore(t, u, p) /\ Erased(st, t, p)
    BY DEF GoneInv
  <2>2. q[o].preset # p
    BY DEF GoneInv
  <2>3. ASSUME NEW x \in PresetOps, u[x].preset = p
        PROVE /\ ~Underway(u[x])
              /\ u[x].pc \in {"updating", "updateRead"} => Cleared(st, t, p)
              /\ u[x].pc = "updateRead" => u[x].seen = 0
    <3>1. x # o /\ u[x] = q[x] /\ q[x].preset = p
      BY <2>2, <2>3 DEF Others
    <3>2. /\ ~Underway(q[x])
          /\ q[x].pc \in {"updating", "updateRead"} => Cleared(st, s, p)
          /\ q[x].pc = "updateRead" => q[x].seen = 0
      BY <3>1 DEF GoneInv
    <3> QED BY <3>1, <3>2
  <2> QED BY <2>1, <2>3
<1> QED BY <1>3, <1>4

\* The finally of _persistPreset, the last step of an accepted update.
WriteEnds(s, t, q, u, o) ==
  /\ q[o].pc = "turning" /\ Others(q, u, o) /\ u[o].pc = "done" /\ u[o].preset = q[o].preset
  /\ t.memory = s.memory /\ t.pending = s.pending /\ t.tombs = s.tombs /\ t.gen = s.gen
  /\ t.token = s.token /\ t.chain = s.chain /\ t.last = s.last
  /\ t.inFlight = [s.inFlight EXCEPT ![q[o].preset] =
                     IF @ = [op |-> o, value |-> q[o].value] THEN NoWrite ELSE @]

LEMMA WriteEndsGood ==
  ASSUME NEW st, NEW s, NEW t \in PresetMaps, NEW q, NEW u, NEW dis, NEW set, NEW crowd, NEW o \in PresetOps,
         Good(st, s, q, dis, set, crowd), RequestTypes(u), WriteEnds(s, t, q, u, o)
  PROVE Good(st, t, u, dis, set, crowd)
<1>1. /\ Base(st, s, q) /\ st \in [Presets -> Nat] /\ s \in PresetMaps /\ RequestTypes(q)
      /\ StayInv(st, s, q, dis) /\ UncrowdedInv(st, s, q, dis, set, crowd)
      /\ ZeroInv(s, set, crowd) /\ FlightInv(s, q) /\ GoneInv(st, s, q, dis, set) /\ AloneInv(q, crowd)
      /\ set \subseteq Presets /\ dis \subseteq Presets /\ crowd \subseteq Presets
  BY DEF Good, Base
<1>2. PICK p \in Presets : p = q[o].preset
  BY <1>1 DEF RequestTypes, WriteEnds
<1>3. /\ Others(q, u, o) /\ q[o].pc = "turning" /\ u[o].pc = "done" /\ u[o].preset = p
      /\ t.memory = s.memory /\ t.pending = s.pending /\ t.tombs = s.tombs /\ t.gen = s.gen
      /\ t.token = s.token /\ t.chain = s.chain /\ t.last = s.last
  BY <1>2 DEF WriteEnds
<1>4. \A x \in Presets : s.gen[x] \in Nat
  BY <1>1 DEF PresetMaps
<1>5. Base(st, t, u)
  <2>1. ~Waits(q[o]) /\ \A x \in Presets : Accepted(q, o, x) => Accepted(u, o, x)
    BY <1>2, <1>3 DEF Waits, Accepted
  <2> QED BY <1>1, <1>3, <1>4, <2>1, QuietBase
<1>6. /\ \A x \in Presets : x # p => t.inFlight[x] = s.inFlight[x]
      /\ t.inFlight[p] = IF s.inFlight[p] = [op |-> o, value |-> q[o].value] THEN NoWrite ELSE s.inFlight[p]
  BY <1>1, <1>2 DEF WriteEnds, PresetMaps
<1>7. \A x \in Presets : Leaving(s, q, dis, x) => Leaving(t, u, dis, x)
  BY <1>1, <1>3, StillLeaving DEF Dooms
<1>8. StayInv(st, t, u, dis)
  <2>1. ASSUME NEW x \in Presets, Newest(st, s, q, x) PROVE Newest(st, t, u, x)
    <3>1. ASSUME NEW y \in PresetOps, Carries(s, q, x, y) PROVE Carries(t, u, x, y)
      <4>1. y # o /\ u[y] = q[y] /\ s.inFlight[x].op = y
        BY <1>3, <3>1 DEF Carries, Others
      <4>2. t.inFlight[x] = s.inFlight[x]
        BY <1>6, <4>1
      <4> QED BY <1>3, <3>1, <4>1, <4>2 DEF Carries
    <3> QED BY <1>3, <2>1, <3>1 DEF Newest
  <2>2. ASSUME NEW x \in Presets, NEW y \in PresetOps, Calm(s, q[y], x) PROVE Calm(t, u[y], x)
    BY <1>3, <2>2 DEF Calm, Others
  <2>3. t.tombs = s.tombs /\ t.gen = s.gen
    BY <1>3
  <2> QED BY <1>1, <1>7, <2>1, <2>2, <2>3 DEF StayInv
<1>9. AloneInv(u, crowd)
  BY <1>1, <1>3, AloneKeep
<1>10. UncrowdedInv(st, t, u, dis, set, crowd) /\ GoneInv(st, t, u, dis, set)
  <2>1. \A x \in Presets : NoRestore(s, q, x) => NoRestore(t, u, x)
    BY <1>3 DEF NoRestore, Others
  <2>2. \A x \in Presets : Cleared(st, s, x) => Cleared(st, t, x)
    BY <1>3, <1>6 DEF Cleared
  <2>3. \A x \in Presets : Erased(st, s, x) => Erased(st, t, x)
    BY <1>3, <2>2 DEF Erased
  <2>4. Underway(q[o]) /\ u[o].preset = q[o].preset
    BY <1>2, <1>3 DEF Underway
  <2> QED BY <1>1, <1>3, <2>1, <2>2, <2>3, <2>4, EngagedApart
<1>11. ZeroInv(t, set, crowd)
  BY <1>1, <1>3 DEF ZeroInv
<1>12. FlightInv(t, u)
  <2> SUFFICES ASSUME NEW x \in Presets, t.inFlight[x] # NoWrite
               PROVE \E y \in PresetOps :
                       /\ t.inFlight[x].op = y
                       /\ \/ u[y].preset = x /\ Underway(u[y]) /\ t.inFlight[x].value = u[y].value
                          \/ /\ u[y].pc = "flushing" /\ u[y].at = x /\ t.inFlight[x].value = u[y].seen
                             /\ \E i \in DOMAIN t.chain[x] : t.chain[x][i].op = y
    BY DEF FlightInv
  <2>1. t.inFlight[x] = s.inFlight[x] /\ s.inFlight[x] \in PresetFlights
    BY <1>1, <1>6 DEF PresetMaps
  <2>2. PICK y \in PresetOps :
          /\ s.inFlight[x].op = y
          /\ \/ q[y].preset = x /\ Underway(q[y]) /\ s.inFlight[x].value = q[y].value
             \/ /\ q[y].pc = "flushing" /\ q[y].at = x /\ s.inFlight[x].value = q[y].seen
                /\ \E i \in DOMAIN s.chain[x] : s.chain[x][i].op = y
    BY <1>1, <2>1 DEF FlightInv
  <2>3. y # o
    <3> SUFFICES ASSUME y = o PROVE FALSE
      OBVIOUS
    <3>1. x = p /\ s.inFlight[p].value = q[o].value /\ s.inFlight[p].op = o
      BY <1>2, <1>3, <2>2
    <3>2. s.inFlight[p] = [op |-> o, value |-> q[o].value]
      BY <2>1, <3>1 DEF PresetFlights
    <3> QED BY <1>6, <3>1, <3>2
  <2> QED BY <1>3, <2>1, <2>2, <2>3 DEF Others
<1> QED BY <1>1, <1>5, <1>8, <1>9, <1>10, <1>11, <1>12 DEF Good

LEMMA FlushesGood ==
  ASSUME NEW st, NEW s, NEW t \in PresetMaps, NEW q, NEW u, NEW dis, NEW set, NEW crowd, NEW o \in PresetOps,
         NEW p \in Presets, Good(st, s, q, dis, set, crowd), RequestTypes(u), Flushes(s, t, q, u, o, p)
  PROVE Good(st, t, u, dis, set, crowd)
<1>1. /\ Base(st, s, q) /\ st \in [Presets -> Nat] /\ s \in PresetMaps /\ RequestTypes(q)
      /\ StayInv(st, s, q, dis) /\ UncrowdedInv(st, s, q, dis, set, crowd)
      /\ ZeroInv(s, set, crowd) /\ FlightInv(s, q) /\ GoneInv(st, s, q, dis, set) /\ AloneInv(q, crowd)
      /\ set \subseteq Presets /\ dis \subseteq Presets /\ crowd \subseteq Presets
      /\ OrderInv(st, s)
  BY DEF Good, Base
<1>2. /\ Others(q, u, o) /\ q[o].pc = "turning" /\ u[o].pc = "flushing" /\ u[o].preset = q[o].preset
      /\ u[o].value = q[o].value /\ u[o].at = p /\ u[o].gen = s.gen[p] /\ u[o].seen = s.pending[p]
      /\ u[o].token = s.token[p] /\ s.pending[p] # 0
      /\ t.memory = s.memory /\ t.tombs = s.tombs /\ t.gen = s.gen /\ t.token = s.token /\ t.last = s.last
  BY DEF Flushes
<1>3. Base(st, t, u)
  BY <1>1, FlushesBase
<1>4. /\ \A x \in Presets : x # p => /\ t.inFlight[x] = s.inFlight[x] /\ t.pending[x] = s.pending[x]
                                     /\ t.chain[x] = s.chain[x]
      /\ t.inFlight[p] = [op |-> o, value |-> s.pending[p]] /\ t.pending[p] = 0
      /\ t.chain[p] = Append(s.chain[p], NewWrite(o, s.pending[p]))
      /\ s.pending[p] \in Nat /\ s.chain[p] \in Seq(PresetWrites)
  BY <1>1 DEF Flushes, Enqueued, PresetMaps
<1>5. /\ NewWrite(o, s.pending[p]) \in PresetWrites /\ NewWrite(o, s.pending[p]).op = o
      /\ NewWrite(o, s.pending[p]).value = s.pending[p]
  BY <1>4 DEF NewWrite, PresetWrites
<1>6. PICK d \in Seq(PresetWrites) :
        /\ d = t.chain[p] /\ Len(d) \in DOMAIN d /\ d # <<>> /\ d[Len(d)] = NewWrite(o, s.pending[p])
        /\ \A i \in DOMAIN s.chain[p] : i \in DOMAIN d /\ d[i] = s.chain[p][i]
  <2>1. PICK d : d = Append(s.chain[p], NewWrite(o, s.pending[p]))
    OBVIOUS
  <2>2. /\ d \in Seq(PresetWrites) /\ Len(d) \in DOMAIN d /\ d[Len(d)] = NewWrite(o, s.pending[p])
        /\ \A i \in DOMAIN s.chain[p] : i \in DOMAIN d /\ d[i] = s.chain[p][i]
    BY <1>4, <1>5, <2>1, Appended
  <2>3. d # <<>>
    BY <2>2
  <2> QED BY <1>4, <2>1, <2>2, <2>3
<1>7. \A x \in Presets : Leaving(s, q, dis, x) => Leaving(t, u, dis, x)
  BY <1>1, <1>2, StillLeaving DEF Dooms
<1>8. /\ p \notin set
      /\ p \notin crowd => s.memory[p] # 0 /\ ~Removing(q, p)
      /\ ~NoRestore(s, q, p)
  <2>1. ~NoRestore(s, q, p)
    BY <1>2 DEF NoRestore
  <2>2. p \notin set
    BY <1>1, <2>1 DEF GoneInv
  <2> QED BY <1>1, <2>1, <2>2 DEF UncrowdedInv
<1>9. StayInv(st, t, u, dis)
  <2> SUFFICES ASSUME NEW x \in Presets, ~Leaving(s, q, dis, x)
               PROVE /\ x \notin t.tombs /\ t.gen[x] = 0
                     /\ \A y \in PresetOps : Calm(t, u[y], x)
                     /\ Newest(st, t, u, x)
    BY <1>7 DEF StayInv
  <2>1. /\ x \notin s.tombs /\ s.gen[x] = 0
        /\ \A y \in PresetOps : Calm(s, q[y], x)
        /\ Newest(st, s, q, x)
    BY <1>1 DEF StayInv
  <2>2. Calm(t, u[o], x)
    BY <1>2, <2>1 DEF Calm, Newest
  <2>3. \A y \in PresetOps : Calm(t, u[y], x)
    BY <1>2, <2>1, <2>2 DEF Calm, Others
  <2>4. Newest(st, t, u, x)
    <3>1. CASE x = p
      <4>1. s.memory[p] # 0 /\ s.pending[p] = s.last[p]
        BY <1>1, <1>2, <2>1, <3>1 DEF Newest, OrderInv
      <4>2. Carries(t, u, p, o)
        BY <1>2, <1>4, <1>5, <1>6, <4>1 DEF Carries
      <4> QED BY <1>2, <3>1, <4>1, <4>2 DEF Newest
    <3>2. CASE x # p
      <4>1. ASSUME NEW y \in PresetOps, Carries(s, q, x, y) PROVE Carries(t, u, x, y)
        <5>1. y # o /\ u[y] = q[y]
          BY <1>2, <4>1 DEF Carries, Others
        <5> QED BY <1>2, <1>4, <3>2, <4>1, <5>1 DEF Carries
      <4> QED BY <1>2, <1>4, <2>1, <3>2, <4>1 DEF Newest
    <3> QED BY <3>1, <3>2
  <2> QED BY <1>2, <2>1, <2>3, <2>4
<1>10. AloneInv(u, crowd)
  BY <1>1, <1>2, AloneKeep
<1>11. UncrowdedInv(st, t, u, dis, set, crowd) /\ GoneInv(st, t, u, dis, set)
  <2>1. \A x \in Presets : NoRestore(s, q, x) => x # p /\ NoRestore(t, u, x)
    BY <1>2, <1>4, <1>8 DEF NoRestore, Others
  <2>2. \A x \in Presets : x # p => (Cleared(st, s, x) => Cleared(st, t, x))
    BY <1>4 DEF Cleared
  <2>3. \A x \in Presets : x # p => (Erased(st, s, x) => Erased(st, t, x))
    BY <1>2, <2>2 DEF Erased
  <2>4. Underway(q[o])
    BY <1>2 DEF Underway
  <2>5. \A x \in Presets \ crowd :
           /\ (s.memory[x] = 0 \/ Removing(q, x)) /\ NoRestore(s, q, x) => NoRestore(t, u, x)
           /\ Removing(q, x) /\ Erased(st, s, x) => Erased(st, t, x)
    BY <1>8, <2>1, <2>3
  <2>6. \A x \in set :
           /\ NoRestore(s, q, x) => NoRestore(t, u, x)
           /\ Erased(st, s, x) => Erased(st, t, x)
           /\ Cleared(st, s, x) => Cleared(st, t, x)
    BY <1>1, <1>8, <2>1, <2>2, <2>3
  <2>7. u[o].pc \in {"flushing", "untombing", "turning", "done"} /\ u[o].preset = q[o].preset /\ t.memory = s.memory
    BY <1>2
  <2> QED BY <1>1, <1>2, <2>4, <2>5, <2>6, <2>7, EngagedApart
<1>12. ZeroInv(t, set, crowd)
  <2>1. ASSUME p \notin crowd PROVE Zeros(t.chain[p])
    <3>1. ~Leaving(s, q, dis, p)
      <4>1. p \notin dis
        BY <1>1, <1>8, <2>1 DEF UncrowdedInv
      <4>2. \A y \in PresetOps : ~Dooms(s, q[y], p)
        BY <1>8, <2>1 DEF Dooms, Removing, Removes
      <4> QED BY <4>1, <4>2 DEF Leaving
    <3>2. \A i \in DOMAIN s.chain[p] : s.chain[p][i].value # 0
      BY <1>1, <3>1, ZeroLeaves
    <3> QED BY <1>4, <3>2, AppendedZeros
  <2> QED BY <1>1, <1>4, <1>8, <2>1 DEF ZeroInv
<1>13. FlightInv(t, u)
  <2> SUFFICES ASSUME NEW x \in Presets, t.inFlight[x] # NoWrite
               PROVE \E y \in PresetOps :
                       /\ t.inFlight[x].op = y
                       /\ \/ u[y].preset = x /\ Underway(u[y]) /\ t.inFlight[x].value = u[y].value
                          \/ /\ u[y].pc = "flushing" /\ u[y].at = x /\ t.inFlight[x].value = u[y].seen
                             /\ \E i \in DOMAIN t.chain[x] : t.chain[x][i].op = y
    BY DEF FlightInv
  <2>1. CASE x = p
    <3>1. t.inFlight[p].op = o /\ t.inFlight[p].value = u[o].seen
      BY <1>2, <1>4
    <3>2. Len(d) \in DOMAIN t.chain[p] /\ t.chain[p][Len(d)].op = o
      BY <1>5, <1>6
    <3> QED BY <1>2, <2>1, <3>1, <3>2
  <2>2. CASE x # p
    <3>1. t.inFlight[x] = s.inFlight[x] /\ t.chain[x] = s.chain[x]
      BY <1>4, <2>2
    <3>2. PICK y \in PresetOps :
            /\ s.inFlight[x].op = y
            /\ \/ q[y].preset = x /\ Underway(q[y]) /\ s.inFlight[x].value = q[y].value
               \/ /\ q[y].pc = "flushing" /\ q[y].at = x /\ s.inFlight[x].value = q[y].seen
                  /\ \E i \in DOMAIN s.chain[x] : s.chain[x][i].op = y
      BY <1>1, <3>1 DEF FlightInv
    <3>3. CASE y = o
      <4>1. u[o].preset = x /\ Underway(u[o]) /\ s.inFlight[x].value = u[o].value
        BY <1>2, <3>2, <3>3 DEF Underway
      <4> QED BY <3>1, <3>2, <3>3, <4>1
    <3>4. CASE y # o
      BY <1>2, <3>1, <3>2, <3>4 DEF Others
    <3> QED BY <3>3, <3>4
  <2> QED BY <2>1, <2>2
<1> QED BY <1>1, <1>3, <1>9, <1>10, <1>11, <1>12, <1>13 DEF Good

\* The deletion that a tombstone stands for is issued.
Untombs(s, t, q, u, o, p) ==
  /\ q[o].pc = "turning"
  /\ t.memory = s.memory /\ t.pending = s.pending /\ t.inFlight = s.inFlight /\ t.tombs = s.tombs
  /\ t.gen = s.gen /\ t.token = s.token /\ t.last = s.last
  /\ Enqueued(s, t, p, o, 0)
  /\ Others(q, u, o)
  /\ u[o].pc = "untombing" /\ u[o].preset = q[o].preset /\ u[o].value = q[o].value /\ u[o].at = p

LEMMA UntombsGood ==
  ASSUME NEW st, NEW s, NEW t \in PresetMaps, NEW q, NEW u, NEW dis, NEW set, NEW crowd, NEW o \in PresetOps,
         NEW p \in Presets, Good(st, s, q, dis, set, crowd), RequestTypes(u), Untombs(s, t, q, u, o, p),
         Leaving(s, q, dis, p), \A x \in u[o].todo : Leaving(s, q, dis, x)
  PROVE Good(st, t, u, dis, set, crowd)
<1>1. /\ Base(st, s, q) /\ st \in [Presets -> Nat] /\ s \in PresetMaps /\ RequestTypes(q)
      /\ StayInv(st, s, q, dis) /\ UncrowdedInv(st, s, q, dis, set, crowd)
      /\ ZeroInv(s, set, crowd) /\ FlightInv(s, q) /\ GoneInv(st, s, q, dis, set) /\ AloneInv(q, crowd)
      /\ set \subseteq Presets /\ dis \subseteq Presets /\ crowd \subseteq Presets
  BY DEF Good, Base
<1>2. /\ Others(q, u, o) /\ q[o].pc = "turning" /\ u[o].pc = "untombing" /\ u[o].preset = q[o].preset
      /\ u[o].value = q[o].value /\ u[o].at = p
      /\ t.memory = s.memory /\ t.pending = s.pending /\ t.inFlight = s.inFlight /\ t.tombs = s.tombs
      /\ t.gen = s.gen /\ t.token = s.token /\ t.last = s.last
      /\ Enqueued(s, t, p, o, 0)
  BY DEF Untombs
<1>3. Base(st, t, u)
  <2>1. Owned(u, p, NewWrite(o, 0)) /\ ~Waits(q[o]) /\ \A x \in Presets : Accepted(q, o, x) => Accepted(u, o, x)
    BY <1>2 DEF Owned, NewWrite, Waits, Accepted
  <2>2. \A x \in Presets : s.gen[x] \in Nat
    BY <1>1 DEF PresetMaps
  <2> QED BY <1>1, <1>2, <2>1, <2>2, ErasingBase
<1>4. /\ \A x \in Presets : x # p => t.chain[x] = s.chain[x]
      /\ t.chain[p] = Append(s.chain[p], NewWrite(o, 0)) /\ s.chain[p] \in Seq(PresetWrites)
  BY <1>1, <1>2 DEF Enqueued, PresetMaps
<1>5. /\ AllZero(s.chain[p]) => AllZero(t.chain[p])
      /\ Zeros(s.chain[p]) => Zeros(t.chain[p])
      /\ \A i \in DOMAIN s.chain[p] : i \in DOMAIN t.chain[p] /\ t.chain[p][i] = s.chain[p][i]
  <2>1. NewWrite(o, 0) \in PresetWrites
    BY DEF NewWrite, PresetWrites
  <2>2. \A i \in DOMAIN s.chain[p] : i \in DOMAIN t.chain[p] /\ t.chain[p][i] = s.chain[p][i]
    BY <1>4, <2>1, Appended
  <2> QED BY <1>4, <2>2, AppendedZeros
<1>6. \A x \in Presets : Leaving(s, q, dis, x) => Leaving(t, u, dis, x)
  BY <1>1, <1>2, StillLeaving DEF Dooms
<1>7. StayInv(st, t, u, dis)
  <2> SUFFICES ASSUME NEW x \in Presets, ~Leaving(s, q, dis, x)
               PROVE /\ x \notin t.tombs /\ t.gen[x] = 0
                     /\ \A y \in PresetOps : Calm(t, u[y], x)
                     /\ Newest(st, t, u, x)
    BY <1>6 DEF StayInv
  <2>1. /\ x \notin s.tombs /\ s.gen[x] = 0
        /\ \A y \in PresetOps : Calm(s, q[y], x)
        /\ Newest(st, s, q, x)
    BY <1>1 DEF StayInv
  <2>2. x # p /\ x \notin u[o].todo
    OBVIOUS
  <2>3. \A y \in PresetOps : Calm(t, u[y], x)
    BY <1>2, <2>1, <2>2 DEF Calm, Others
  <2>4. ASSUME NEW y \in PresetOps, Carries(s, q, x, y) PROVE Carries(t, u, x, y)
    <3>1. y # o /\ u[y] = q[y]
      BY <1>2, <2>4 DEF Carries, Others
    <3> QED BY <1>2, <1>4, <2>2, <2>4, <3>1 DEF Carries
  <2>5. Newest(st, t, u, x)
    BY <1>2, <1>4, <2>1, <2>2, <2>4 DEF Newest
  <2> QED BY <1>2, <2>1, <2>3, <2>5
<1>8. AloneInv(u, crowd)
  BY <1>1, <1>2, AloneKeep
<1>9. UncrowdedInv(st, t, u, dis, set, crowd) /\ GoneInv(st, t, u, dis, set)
  <2>1. \A x \in Presets : NoRestore(s, q, x) => NoRestore(t, u, x)
    BY <1>2 DEF NoRestore, Others
  <2>2. \A x \in Presets : Cleared(st, s, x) => Cleared(st, t, x)
    BY <1>2, <1>4, <1>5 DEF Cleared
  <2>3. \A x \in Presets : Erased(st, s, x) => Erased(st, t, x)
    BY <1>2, <2>2 DEF Erased
  <2>4. Underway(q[o])
    BY <1>2 DEF Underway
  <2> QED BY <1>1, <1>2, <2>1, <2>2, <2>3, <2>4, EngagedApart
<1>10. ZeroInv(t, set, crowd)
  BY <1>1, <1>4, <1>5 DEF ZeroInv
<1>11. FlightInv(t, u)
  <2> SUFFICES ASSUME NEW x \in Presets, s.inFlight[x] # NoWrite
               PROVE \E y \in PresetOps :
                       /\ s.inFlight[x].op = y
                       /\ \/ u[y].preset = x /\ Underway(u[y]) /\ s.inFlight[x].value = u[y].value
                          \/ /\ u[y].pc = "flushing" /\ u[y].at = x /\ s.inFlight[x].value = u[y].seen
                             /\ \E i \in DOMAIN t.chain[x] : t.chain[x][i].op = y
    BY <1>2 DEF FlightInv
  <2>1. PICK y \in PresetOps :
          /\ s.inFlight[x].op = y
          /\ \/ q[y].preset = x /\ Underway(q[y]) /\ s.inFlight[x].value = q[y].value
             \/ /\ q[y].pc = "flushing" /\ q[y].at = x /\ s.inFlight[x].value = q[y].seen
                /\ \E i \in DOMAIN s.chain[x] : s.chain[x][i].op = y
    BY <1>1 DEF FlightInv
  <2>2. (\E i \in DOMAIN s.chain[x] : s.chain[x][i].op = y) => \E i \in DOMAIN t.chain[x] : t.chain[x][i].op = y
    BY <1>4, <1>5
  <2>3. CASE y = o
    <3>1. u[o].preset = x /\ Underway(u[o]) /\ s.inFlight[x].value = u[o].value
      BY <1>2, <2>1, <2>3 DEF Underway
    <3> QED BY <2>1, <2>3, <3>1
  <2>4. CASE y # o
    BY <1>2, <2>1, <2>2, <2>4 DEF Others
  <2> QED BY <2>3, <2>4
<1> QED BY <1>1, <1>3, <1>7, <1>8, <1>9, <1>10, <1>11 DEF Good

ChainShortened(st, s, t, q, o, p) ==
  /\ s.chain[p] \in Seq(PresetWrites) /\ s.chain[p] # <<>> /\ Head(s.chain[p]) = s.chain[p][1]
  /\ s.chain[p][1].op = o /\ 1 \in DOMAIN s.chain[p] /\ t.chain[p] = Tail(s.chain[p])
  /\ \A x \in Presets : x # p => t.chain[x] = s.chain[x]
  /\ Owned(q, p, s.chain[p][1])
  /\ s.chain[p][1].state = "applied" => st[p] = s.chain[p][1].value

LEMMA AnsweredChain ==
  ASSUME NEW st, NEW s, NEW t \in PresetMaps, NEW q, NEW u, NEW o \in PresetOps, NEW p \in Presets,
         Base(st, s, q), HeadAnswered(s, t, q, u, o, p)
  PROVE ChainShortened(st, s, t, q, o, p)
<1>1. s \in PresetMaps /\ ChainInv(st, s, q)
  BY DEF Base
<1>2. s.chain \in [Presets -> Seq(PresetWrites)] /\ s.chain[p] # <<>> /\ t.chain = [s.chain EXCEPT ![p] = Tail(@)]
  BY <1>1 DEF PresetMaps, HeadAnswered
<1>3. Head(s.chain[p]) = s.chain[p][1] /\ 1 \in DOMAIN s.chain[p]
  BY <1>2, Popped
<1>4. Owned(q, p, s.chain[p][1]) /\ (s.chain[p][1].state = "applied" => st[p] = s.chain[p][1].value)
  BY <1>1, <1>3 DEF ChainInv, Fronted
<1> QED BY <1>2, <1>3, <1>4 DEF HeadAnswered, ChainShortened

LEMMA CarriesOwned ==
  ASSUME NEW st, NEW s, NEW q, Base(st, s, q), NEW p \in Presets, NEW o \in PresetOps, Carries(s, q, p, o)
  PROVE /\ q[o].pc = "writing" => q[o].preset = p /\ q[o].value = s.last[p]
        /\ q[o].pc = "flushing" => q[o].at = p /\ q[o].seen = s.last[p]
<1>1. s.chain[p] \in Seq(PresetWrites) /\ ChainInv(st, s, q)
  BY DEF Base, PresetMaps
<1>2. PICK e : e = s.chain[p][Len(s.chain[p])]
  OBVIOUS
<1>3. Len(s.chain[p]) \in DOMAIN s.chain[p]
  BY <1>1 DEF Carries
<1>4. Owned(q, p, e) /\ e.op = o /\ e.value = s.last[p]
  BY <1>1, <1>2, <1>3 DEF ChainInv, Carries
<1> QED BY <1>4 DEF Owned

\* Who carries the newest value of a preset, and whose write is answered.
LEMMA AnsweredCarries ==
  ASSUME NEW st, NEW s, NEW t \in PresetMaps, NEW q, NEW u, NEW o \in PresetOps, NEW p \in Presets,
         Base(st, s, q), HeadAnswered(s, t, q, u, o, p)
  PROVE \A x \in Presets, y \in PresetOps : t.last = s.last /\ Carries(s, q, x, y) =>
          /\ y = o => x = p /\ t.chain[p] = <<>> /\ s.chain[p][1].value = s.last[p]
          /\ y # o /\ t.inFlight[x] = s.inFlight[x] /\ t.token[x] = s.token[x] => Carries(t, u, x, y)
<1>0. ChainShortened(st, s, t, q, o, p)
  BY AnsweredChain
<1>1. /\ s.chain[p] \in Seq(PresetWrites) /\ s.chain[p] # <<>> /\ Head(s.chain[p]) = s.chain[p][1]
      /\ s.chain[p][1].op = o /\ 1 \in DOMAIN s.chain[p] /\ t.chain[p] = Tail(s.chain[p])
      /\ \A z \in Presets : z # p => t.chain[z] = s.chain[z]
      /\ Owned(q, p, s.chain[p][1])
  BY <1>0 DEF ChainShortened
<1> SUFFICES ASSUME NEW x \in Presets, NEW y \in PresetOps, t.last = s.last, Carries(s, q, x, y)
             PROVE /\ y = o => x = p /\ t.chain[p] = <<>> /\ s.chain[p][1].value = s.last[p]
                   /\ y # o /\ t.inFlight[x] = s.inFlight[x] /\ t.token[x] = s.token[x] => Carries(t, u, x, y)
  OBVIOUS
<1>2. s.chain[x] \in Seq(PresetWrites) /\ s.chain[x] # <<>> /\ ChainInv(st, s, q)
  BY DEF Base, PresetMaps, Carries
<1>3. /\ Len(s.chain[x]) \in DOMAIN s.chain[x] /\ s.chain[x][Len(s.chain[x])].op = y
      /\ s.chain[x][Len(s.chain[x])].value = s.last[x] /\ s.chain[x][Len(s.chain[x])] \in PresetWrites
      /\ Owned(q, x, s.chain[x][Len(s.chain[x])])
  <2>1. Len(s.chain[x]) \in DOMAIN s.chain[x] /\ s.chain[x][Len(s.chain[x])] \in PresetWrites
    BY <1>2
  <2> QED BY <1>2, <2>1 DEF Carries, ChainInv
<1>4. ASSUME y = o PROVE x = p /\ t.chain[p] = <<>> /\ s.chain[p][1].value = s.last[p]
  <2>1. x = p
    <3>1. s.chain[p][1] \in PresetWrites
      BY <1>1
    <3>2. \A z \in Presets : z # p => ~\E f \in PresetWrites : f.op = o /\ Owned(q, z, f)
      BY <1>1, <3>1, OwnedElsewhere DEF HeadAnswered
    <3> QED BY <1>3, <1>4, <3>2
  <2>2. Len(s.chain[p]) = 1
    <3>1. Fronted(s.chain[p], st[p])
      BY <1>2 DEF ChainInv
    <3>2. Len(s.chain[p]) \in DOMAIN s.chain[p] /\ s.chain[p][Len(s.chain[p])].op = s.chain[p][1].op
      BY <1>1, <1>3, <1>4, <2>1
    <3> QED BY <1>1, <3>1, <3>2 DEF Fronted
  <2>3. t.chain[p] = <<>>
    <3>1. PICK c \in Seq(PresetWrites) : c = s.chain[p] /\ Len(c) = 1 /\ c # <<>>
      BY <1>1, <2>2
    <3>2. PICK d : d = Tail(c)
      OBVIOUS
    <3>4. d \in Seq(PresetWrites) /\ Len(d) = 0
      BY <3>1, <3>2, Popped
    <3>5. d = <<>>
      BY <3>4
    <3>3. Tail(c) = <<>>
      BY <3>2, <3>5
    <3> QED BY <1>1, <3>1, <3>3
  <2> QED BY <1>3, <2>1, <2>2, <2>3
<1>5. ASSUME y # o, t.inFlight[x] = s.inFlight[x], t.token[x] = s.token[x] PROVE Carries(t, u, x, y)
  <2>1. u[y] = q[y]
    BY <1>5 DEF HeadAnswered, Others
  <2>2. t.chain[x] # <<>> /\ t.chain[x][Len(t.chain[x])] = s.chain[x][Len(s.chain[x])]
    <3>1. CASE x = p
      <4>1. Tail(s.chain[p]) # <<>>
        BY <1>1, <1>3, <1>5, <3>1, PoppedZeros
      <4>2. Tail(s.chain[p])[Len(Tail(s.chain[p]))] = s.chain[p][Len(s.chain[p])]
        BY <1>1, <4>1, PoppedZeros
      <4> QED BY <1>1, <3>1, <4>1, <4>2
    <3>2. CASE x # p
      BY <1>1, <1>2, <3>2
    <3> QED BY <3>1, <3>2
  <2> QED BY <1>5, <2>1, <2>2 DEF Carries
<1> QED BY <1>4, <1>5

\* What the answer of a write that o issued may change of preset x.
Disturbs(st, s, t, q, u, dis, set, crowd, o, x) ==
  /\ t.inFlight[x] \in {NoWrite, s.inFlight[x]}
  /\ q[o].pc = "flushing" /\ q[o].at = x => t.inFlight[x] # [op |-> o, value |-> q[o].seen]
  /\ ~Leaving(s, q, dis, x) /\ Newest(st, s, q, x) => Newest(st, t, u, x)
  /\ x \notin crowd /\ (s.memory[x] = 0 \/ Removing(q, x)) /\ NoRestore(s, q, x) => t.pending[x] = 0
  /\ x \in set /\ NoRestore(s, q, x) => t.pending[x] = 0
  /\ x \in s.tombs \ t.tombs /\ ((x \notin crowd /\ Removing(q, x)) \/ x \in set) => Cleared(st, t, x)

LEMMA AnsweredGood ==
  ASSUME NEW st, NEW s, NEW t \in PresetMaps, NEW q, NEW u, NEW dis, NEW set, NEW crowd, NEW o \in PresetOps,
         NEW p \in Presets, Good(st, s, q, dis, set, crowd), RequestTypes(u), HeadAnswered(s, t, q, u, o, p),
         Base(st, t, u), Underway(q[o]), u[o].pc = "turning", u[o].preset = q[o].preset, u[o].value = q[o].value,
         t.memory = s.memory, t.gen = s.gen, t.last = s.last, t.tombs \subseteq s.tombs,
         \A x \in Presets : Disturbs(st, s, t, q, u, dis, set, crowd, o, x)
  PROVE Good(st, t, u, dis, set, crowd)
<1>1. /\ Base(st, s, q) /\ st \in [Presets -> Nat] /\ s \in PresetMaps /\ RequestTypes(q)
      /\ StayInv(st, s, q, dis) /\ UncrowdedInv(st, s, q, dis, set, crowd)
      /\ ZeroInv(s, set, crowd) /\ FlightInv(s, q) /\ GoneInv(st, s, q, dis, set) /\ AloneInv(q, crowd)
      /\ set \subseteq Presets /\ dis \subseteq Presets /\ crowd \subseteq Presets
  BY DEF Good, Base
<1>d. \A x \in Presets :
         /\ t.inFlight[x] \in {NoWrite, s.inFlight[x]}
         /\ q[o].pc = "flushing" /\ q[o].at = x => t.inFlight[x] # [op |-> o, value |-> q[o].seen]
         /\ ~Leaving(s, q, dis, x) /\ Newest(st, s, q, x) => Newest(st, t, u, x)
         /\ x \notin crowd /\ (s.memory[x] = 0 \/ Removing(q, x)) /\ NoRestore(s, q, x) => t.pending[x] = 0
         /\ x \in set /\ NoRestore(s, q, x) => t.pending[x] = 0
         /\ x \in s.tombs \ t.tombs /\ ((x \notin crowd /\ Removing(q, x)) \/ x \in set) => Cleared(st, t, x)
  BY DEF Disturbs
<1>0. ChainShortened(st, s, t, q, o, p)
  BY <1>1, AnsweredChain
<1>2. /\ s.chain[p] \in Seq(PresetWrites) /\ s.chain[p] # <<>>
      /\ s.chain[p][1].op = o /\ 1 \in DOMAIN s.chain[p] /\ t.chain[p] = Tail(s.chain[p])
      /\ \A x \in Presets : x # p => t.chain[x] = s.chain[x]
      /\ Others(q, u, o)
  BY <1>0 DEF HeadAnswered, ChainShortened
<1>3. \A x \in Presets : (AllZero(s.chain[x]) => AllZero(t.chain[x])) /\ (Zeros(s.chain[x]) => Zeros(t.chain[x]))
  BY <1>2, PoppedZeros
<1>4. \A x \in Presets : Leaving(s, q, dis, x) => Leaving(t, u, dis, x)
  <2>1. \A x \in Presets : ~Dooms(s, q[o], x)
    BY DEF Dooms, Underway
  <2> QED BY <1>2, <2>1 DEF Leaving, Dooms, Others
<1>5. StayInv(st, t, u, dis)
  <2>1. ASSUME NEW x \in Presets, NEW y \in PresetOps, Calm(s, q[y], x) PROVE Calm(t, u[y], x)
    BY <1>2, <2>1 DEF Calm, Others
  <2> QED BY <1>d, <1>1, <1>4, <2>1 DEF StayInv
<1>6. AloneInv(u, crowd)
  BY <1>1, <1>2, AloneKeep DEF Underway
<1>7. UncrowdedInv(st, t, u, dis, set, crowd) /\ GoneInv(st, t, u, dis, set)
  <2>1. \A x \in Presets : NoRestore(s, q, x) /\ t.pending[x] = 0 => NoRestore(t, u, x)
    BY <1>2 DEF NoRestore, Others
  <2>2. \A x \in Presets : Cleared(st, s, x) => Cleared(st, t, x)
    BY <1>d, <1>3 DEF Cleared
  <2>3. \A x \in Presets : Erased(st, s, x) /\ (x \in s.tombs \ t.tombs => Cleared(st, t, x)) => Erased(st, t, x)
    BY <2>2 DEF Erased
  <2>4. \A x \in Presets \ crowd :
           /\ (s.memory[x] = 0 \/ Removing(q, x)) /\ NoRestore(s, q, x) => NoRestore(t, u, x)
           /\ Removing(q, x) /\ Erased(st, s, x) => Erased(st, t, x)
    BY <1>d, <2>1, <2>3
  <2>5. \A x \in set :
           /\ NoRestore(s, q, x) => NoRestore(t, u, x)
           /\ Erased(st, s, x) => Erased(st, t, x)
           /\ Cleared(st, s, x) => Cleared(st, t, x)
    BY <1>d, <1>1, <2>1, <2>2, <2>3
  <2> QED BY <1>1, <1>2, <2>4, <2>5, EngagedApart
<1>8. ZeroInv(t, set, crowd)
  BY <1>1, <1>3 DEF ZeroInv
<1>9. FlightInv(t, u)
  <2> SUFFICES ASSUME NEW x \in Presets, t.inFlight[x] # NoWrite
               PROVE \E y \in PresetOps :
                       /\ t.inFlight[x].op = y
                       /\ \/ u[y].preset = x /\ Underway(u[y]) /\ t.inFlight[x].value = u[y].value
                          \/ /\ u[y].pc = "flushing" /\ u[y].at = x /\ t.inFlight[x].value = u[y].seen
                             /\ \E i \in DOMAIN t.chain[x] : t.chain[x][i].op = y
    BY DEF FlightInv
  <2>1. t.inFlight[x] = s.inFlight[x] /\ s.inFlight[x] \in PresetFlights
    BY <1>d, <1>1 DEF PresetMaps
  <2>2. PICK y \in PresetOps :
          /\ s.inFlight[x].op = y
          /\ \/ q[y].preset = x /\ Underway(q[y]) /\ s.inFlight[x].value = q[y].value
             \/ /\ q[y].pc = "flushing" /\ q[y].at = x /\ s.inFlight[x].value = q[y].seen
                /\ \E i \in DOMAIN s.chain[x] : s.chain[x][i].op = y
    BY <1>1, <2>1 DEF FlightInv
  <2>3. CASE y = o
    <3>1. ~(q[o].pc = "flushing" /\ q[o].at = x /\ s.inFlight[x].value = q[o].seen)
      <4> SUFFICES ASSUME q[o].pc = "flushing", q[o].at = x, s.inFlight[x].value = q[o].seen PROVE FALSE
        OBVIOUS
      <4>1. s.inFlight[x] = [op |-> o, value |-> q[o].seen]
        BY <2>1, <2>2, <2>3 DEF PresetFlights
      <4> QED BY <1>d, <2>1, <4>1
    <3>2. u[o].preset = x /\ Underway(u[o]) /\ s.inFlight[x].value = u[o].value
      BY <2>2, <2>3, <3>1 DEF Underway
    <3> QED BY <2>1, <2>2, <2>3, <3>2
  <2>4. CASE y # o
    <3>1. ASSUME NEW i \in DOMAIN s.chain[x], s.chain[x][i].op = y PROVE \E j \in DOMAIN t.chain[x] : t.chain[x][j].op = y
      <4>1. CASE x = p
        <5>1. PICK c \in Seq(PresetWrites) : c = s.chain[p] /\ c # <<>>
          BY <1>2
        <5>2. i # 1 /\ i \in DOMAIN c
          BY <1>2, <2>4, <3>1, <4>1, <5>1
        <5>3. PICK d : d = Tail(c)
          OBVIOUS
        <5>4. i - 1 \in DOMAIN d /\ d[i - 1] = c[i]
          BY <5>1, <5>2, <5>3, Popped
        <5>5. t.chain[x] = d /\ c[i].op = y
          BY <1>2, <3>1, <4>1, <5>1, <5>3
        <5> QED BY <5>4, <5>5
      <4>2. CASE x # p
        BY <1>2, <3>1, <4>2
      <4> QED BY <4>1, <4>2
    <3> QED BY <1>2, <2>1, <2>2, <2>4, <3>1 DEF Others
  <2> QED BY <2>3, <2>4
<1> QED BY <1>1, <1>5, <1>6, <1>7, <1>8, <1>9 DEF Good

\* The write of an update is answered.
WriteAnswered(s, t, q, u, o, p, ok) ==
  LET mine == s.token[p] = o
      same == s.gen[p] = q[o].gen
  IN /\ HeadAnswered(s, t, q, u, o, p) /\ q[o].pc = "writing" /\ q[o].preset = p
     /\ u[o].pc = "turning" /\ u[o].preset = p /\ u[o].value = q[o].value
     /\ t.memory = s.memory /\ t.gen = s.gen /\ t.last = s.last /\ t.inFlight = s.inFlight
     /\ \A x \in Presets : x # p => t.pending[x] = s.pending[x] /\ t.token[x] = s.token[x]
     /\ ok => /\ s.chain[p][1].state = "applied"
              /\ t.pending[p] = (IF mine THEN 0 ELSE s.pending[p])
              /\ t.token[p] = (IF mine THEN NoOp ELSE s.token[p])
              /\ t.tombs = (IF same THEN s.tombs \ {p} ELSE s.tombs)
     /\ ~ok => /\ t.pending[p] = (IF ~mine THEN s.pending[p] ELSE IF same THEN q[o].value ELSE 0)
               /\ t.token[p] = (IF mine /\ ~same THEN NoOp ELSE s.token[p])
               /\ t.tombs = s.tombs

LEMMA WriteAnsweredGood ==
  ASSUME NEW st, NEW s, NEW t \in PresetMaps, NEW q, NEW u, NEW dis, NEW set, NEW crowd, NEW o \in PresetOps,
         NEW p \in Presets, NEW ok \in BOOLEAN, Good(st, s, q, dis, set, crowd), RequestTypes(u),
         WriteAnswered(s, t, q, u, o, p, ok)
  PROVE Good(st, t, u, dis, set, crowd)
<1>1. /\ Base(st, s, q) /\ st \in [Presets -> Nat] /\ s \in PresetMaps /\ RequestTypes(q)
      /\ StayInv(st, s, q, dis) /\ UncrowdedInv(st, s, q, dis, set, crowd)
      /\ ZeroInv(s, set, crowd) /\ FlightInv(s, q) /\ GoneInv(st, s, q, dis, set) /\ AloneInv(q, crowd)
      /\ set \subseteq Presets /\ dis \subseteq Presets /\ crowd \subseteq Presets
      /\ TokenInv(s, q) /\ OrderInv(st, s)
  BY DEF Good, Base
<1>2. /\ HeadAnswered(s, t, q, u, o, p) /\ q[o].pc = "writing" /\ q[o].preset = p
      /\ u[o].pc = "turning" /\ u[o].preset = p /\ u[o].value = q[o].value
      /\ t.memory = s.memory /\ t.gen = s.gen /\ t.last = s.last /\ t.inFlight = s.inFlight
      /\ \A x \in Presets : x # p => t.pending[x] = s.pending[x] /\ t.token[x] = s.token[x]
      /\ t.tombs \in {s.tombs, s.tombs \ {p}}
  BY DEF WriteAnswered
<1>3. ChainShortened(st, s, t, q, o, p)
  BY <1>1, <1>2, AnsweredChain
<1>4. s.chain[p][1].value = q[o].value /\ q[o].value # 0
  BY <1>2, <1>3 DEF ChainShortened, Owned
<1>5. /\ t.token[p] \in {NoOp, s.token[p]}
      /\ s.token[p] # o => t.pending[p] = s.pending[p] /\ t.token[p] = s.token[p]
      /\ s.token[p] = o => /\ q[o].value = s.last[p] /\ s.pending[p] = 0
                           /\ t.pending[p] # 0 => t.pending[p] = s.last[p] /\ t.token[p] = o /\ s.gen[p] = q[o].gen
                           /\ s.gen[p] = q[o].gen => IF ok THEN st[p] = s.last[p] ELSE t.pending[p] = s.last[p]
  <2>1. s.token[p] = o => q[o].value = s.last[p] /\ s.pending[p] = 0
    BY <1>1, <1>2 DEF TokenInv
  <2>2. ok => st[p] = q[o].value
    BY <1>3, <1>4 DEF ChainShortened, WriteAnswered
  <2> QED BY <2>1, <2>2 DEF WriteAnswered
<1>6. s.token[p] = o => Unclaimed(q, o, o, p)
  BY <1>1, <1>2 DEF Unclaimed, TokenInv
<1>7. Base(st, t, u)
  <2>1. \A x \in Presets : Accepted(q, o, x) => Accepted(u, o, x)
    BY <1>2 DEF Accepted
  <2>2. ASSUME NEW x \in Presets
        PROVE /\ t.memory[x] \in {0, s.memory[x]}
              /\ t.token[x] \in {NoOp, s.token[x]} /\ t.gen[x] >= s.gen[x]
              /\ t.pending[x] # 0 =>
                   /\ t.token[x] # NoOp
                   /\ t.pending[x] = s.pending[x]
                        \/ (t.pending[x] = s.last[x] /\ Unclaimed(q, o, s.token[x], x))
    <3>0. s.gen[x] \in Nat
      BY <1>1 DEF PresetMaps
    <3>1. t.gen[x] >= s.gen[x] /\ t.memory[x] \in {0, s.memory[x]} /\ t.token[x] \in {NoOp, s.token[x]}
      BY <1>2, <1>5, <3>0
    <3>2. CASE x = p
      BY <1>1, <1>5, <1>6, <3>1, <3>2, PresetAssumption DEF TokenInv
    <3>3. CASE x # p
      BY <1>1, <1>2, <3>1, <3>3 DEF TokenInv
    <3> QED BY <3>1, <3>2, <3>3
  <2> QED BY <1>1, <1>2, <2>1, <2>2, AnsweredBase
<1>8. ASSUME NEW x \in Presets, ~Leaving(s, q, dis, x), Newest(st, s, q, x) PROVE Newest(st, t, u, x)
  <2>1. ASSUME NEW y \in PresetOps, Carries(s, q, x, y), y # o PROVE Carries(t, u, x, y)
    <3>1. t.token[x] = s.token[x]
      <4>1. CASE x # p
        BY <1>2, <4>1
      <4>2. CASE x = p /\ s.token[p] # o
        BY <1>5, <4>2
      <4>3. CASE x = p /\ s.token[p] = o
        <5>1. (q[y].pc = "writing" /\ s.token[p] = y) \/ (q[y].pc = "flushing" /\ s.token[p] = q[y].token)
          BY <2>1, <4>3 DEF Carries
        <5>2. q[y].pc = "flushing" => q[y].at = p
          BY <1>1, <2>1, <4>3, CarriesOwned
        <5> QED BY <1>6, <2>1, <4>3, <5>1, <5>2 DEF Unclaimed
      <4> QED BY <4>1, <4>2, <4>3
    <3>2. t.inFlight[x] = s.inFlight[x] /\ t.last = s.last
      BY <1>2
    <3> QED BY <1>1, <1>2, <2>1, <3>1, <3>2, AnsweredCarries
  <2>2. \A y \in PresetOps : Carries(s, q, x, y) /\ y = o =>
          x = p /\ t.chain[p] = <<>> /\ s.chain[p][1].value = s.last[p] /\ s.token[p] = o
    <3>1. \A y \in PresetOps : Carries(s, q, x, y) /\ y = o => x = p /\ t.chain[p] = <<>> /\ s.chain[p][1].value = s.last[p]
      BY <1>1, <1>2, AnsweredCarries
    <3> QED BY <1>2, <3>1 DEF Carries
  <2>3. CASE s.memory[x] = 0
    <3>1. s.pending[x] = 0
      BY <1>8, <2>3 DEF Newest
    <3>2. x # p
      BY <1>1, <1>2, <1>8, <2>3 DEF StayInv, Calm
    <3> QED BY <1>2, <2>3, <3>1, <3>2 DEF Newest
  <2>4. CASE s.memory[x] # 0 /\ s.pending[x] = s.last[x]
    <3>1. s.pending[x] # 0
      BY <1>1, <2>4 DEF OrderInv, PresetMaps
    <3>2. t.pending[x] = s.pending[x]
      BY <1>2, <1>5, <3>1
    <3> QED BY <1>2, <2>4, <3>2 DEF Newest
  <2>5. CASE s.memory[x] # 0 /\ \E y \in PresetOps : Carries(s, q, x, y)
    <3>1. PICK y \in PresetOps : Carries(s, q, x, y)
      BY <2>5
    <3>2. CASE y # o
      BY <1>2, <2>1, <2>5, <3>1, <3>2 DEF Newest
    <3>3. CASE y = o
      <4>1. x = p /\ t.chain[p] = <<>> /\ s.token[p] = o
        BY <2>2, <3>1, <3>3
      <4>2. s.gen[p] = q[o].gen
        BY <1>1, <1>2, <1>8, <4>1 DEF StayInv, Calm
      <4>3. st[p] = s.last[p] \/ t.pending[p] = s.last[p]
        BY <1>5, <4>1, <4>2
      <4> QED BY <1>2, <2>5, <4>1, <4>3 DEF Newest
    <3> QED BY <3>2, <3>3
  <2>6. CASE s.memory[x] # 0 /\ s.chain[x] = <<>> /\ st[x] = s.last[x]
    BY <1>2, <1>3, <2>6 DEF Newest, ChainShortened
  <2> QED BY <1>8, <2>3, <2>4, <2>5, <2>6 DEF Newest
<1>9. p \notin set /\ (p \notin crowd => s.memory[p] # 0 /\ ~Removing(q, p))
  <2>1. p \notin set
    BY <1>1, <1>2 DEF GoneInv, Underway
  <2>2. p \notin crowd => s.memory[p] # 0
    BY <1>1, <1>2 DEF UncrowdedInv
  <2>3. p \notin crowd => ~Removing(q, p)
    BY <1>1, <1>2 DEF AloneInv, Removing, Removes
  <2> QED BY <2>1, <2>2, <2>3
<1>10. ASSUME NEW x \in Presets
       PROVE /\ x \notin crowd /\ (s.memory[x] = 0 \/ Removing(q, x)) /\ NoRestore(s, q, x) => t.pending[x] = 0
             /\ x \in set /\ NoRestore(s, q, x) => t.pending[x] = 0
             /\ x \in s.tombs \ t.tombs /\ ((x \notin crowd /\ Removing(q, x)) \/ x \in set) => Cleared(st, t, x)
  BY <1>2, <1>9 DEF NoRestore
<1>11. /\ Underway(q[o]) /\ q[o].pc # "flushing" /\ u[o].preset = q[o].preset
       /\ t.tombs \subseteq s.tombs /\ \A x \in Presets : t.inFlight[x] \in {NoWrite, s.inFlight[x]}
  BY <1>2 DEF Underway
<1>12. \A x \in Presets : Disturbs(st, s, t, q, u, dis, set, crowd, o, x)
  <2> TAKE x \in Presets
  <2>1. t.inFlight[x] \in {NoWrite, s.inFlight[x]} /\ q[o].pc # "flushing"
    BY <1>11
  <2>2. ~Leaving(s, q, dis, x) /\ Newest(st, s, q, x) => Newest(st, t, u, x)
    BY <1>8
  <2>3. /\ x \notin crowd /\ (s.memory[x] = 0 \/ Removing(q, x)) /\ NoRestore(s, q, x) => t.pending[x] = 0
        /\ x \in set /\ NoRestore(s, q, x) => t.pending[x] = 0
        /\ x \in s.tombs \ t.tombs /\ ((x \notin crowd /\ Removing(q, x)) \/ x \in set) => Cleared(st, t, x)
    BY <1>10
  <2> QED BY <2>1, <2>2, <2>3 DEF Disturbs
<1> QED BY <1>2, <1>7, <1>11, <1>12, AnsweredGood

\* The write of a waiting value is answered.
FlushAnswered(s, t, q, u, o, p, ok) ==
  LET mine == s.token[p] = q[o].token
      restore == ~ok /\ mine /\ s.gen[p] = q[o].gen /\ s.pending[p] = 0
  IN /\ HeadAnswered(s, t, q, u, o, p) /\ q[o].pc = "flushing" /\ q[o].at = p
     /\ u[o].pc = "turning" /\ u[o].preset = q[o].preset /\ u[o].value = q[o].value
     /\ t.memory = s.memory /\ t.gen = s.gen /\ t.last = s.last /\ t.tombs = s.tombs
     /\ \A x \in Presets : x # p => /\ t.pending[x] = s.pending[x] /\ t.token[x] = s.token[x]
                                    /\ t.inFlight[x] = s.inFlight[x]
     /\ t.inFlight[p] = (IF s.inFlight[p] = [op |-> o, value |-> q[o].seen] THEN NoWrite ELSE s.inFlight[p])
     /\ t.pending[p] = (IF restore THEN q[o].seen ELSE s.pending[p])
     /\ t.token[p] = (IF ok /\ mine THEN NoOp ELSE s.token[p])
     /\ ok => s.chain[p][1].state = "applied"

LEMMA FlushAnsweredGood ==
  ASSUME NEW st, NEW s, NEW t \in PresetMaps, NEW q, NEW u, NEW dis, NEW set, NEW crowd, NEW o \in PresetOps,
         NEW p \in Presets, NEW ok \in BOOLEAN, Good(st, s, q, dis, set, crowd), RequestTypes(u),
         FlushAnswered(s, t, q, u, o, p, ok)
  PROVE Good(st, t, u, dis, set, crowd)
<1>1. /\ Base(st, s, q) /\ st \in [Presets -> Nat] /\ s \in PresetMaps /\ RequestTypes(q)
      /\ StayInv(st, s, q, dis) /\ UncrowdedInv(st, s, q, dis, set, crowd)
      /\ ZeroInv(s, set, crowd) /\ FlightInv(s, q) /\ GoneInv(st, s, q, dis, set) /\ AloneInv(q, crowd)
      /\ set \subseteq Presets /\ dis \subseteq Presets /\ crowd \subseteq Presets
      /\ TokenInv(s, q) /\ OrderInv(st, s)
  BY DEF Good, Base
<1>2. /\ HeadAnswered(s, t, q, u, o, p) /\ q[o].pc = "flushing" /\ q[o].at = p
      /\ u[o].pc = "turning" /\ u[o].preset = q[o].preset /\ u[o].value = q[o].value
      /\ t.memory = s.memory /\ t.gen = s.gen /\ t.last = s.last /\ t.tombs = s.tombs
      /\ \A x \in Presets : x # p => /\ t.pending[x] = s.pending[x] /\ t.token[x] = s.token[x]
                                     /\ t.inFlight[x] = s.inFlight[x]
      /\ t.inFlight[p] = (IF s.inFlight[p] = [op |-> o, value |-> q[o].seen] THEN NoWrite ELSE s.inFlight[p])
  BY DEF FlushAnswered
<1>3. ChainShortened(st, s, t, q, o, p)
  BY <1>1, <1>2, AnsweredChain
<1>4. s.chain[p][1].value = q[o].seen /\ q[o].seen # 0
  BY <1>2, <1>3 DEF ChainShortened, Owned
<1>5. PICK k \in PresetOps : k = q[o].token /\ q[k].pc # "writing"
  BY <1>1, <1>2 DEF TokenInv, Accepted
<1>6. s.token[p] = k => /\ q[o].seen = s.last[p] /\ s.pending[p] = 0
                        /\ Unclaimed(q, o, k, p)
  BY <1>1, <1>2, <1>5 DEF TokenInv, Unclaimed
<1>7. /\ t.token[p] \in {NoOp, s.token[p]}
      /\ t.token[p] # s.token[p] => s.token[p] = k
      /\ s.pending[p] # 0 => t.pending[p] = s.pending[p] /\ t.token[p] = s.token[p]
      /\ s.pending[p] = 0 /\ t.pending[p] # 0 =>
           t.pending[p] = s.last[p] /\ t.token[p] = s.token[p] /\ s.token[p] = k /\ s.gen[p] = q[o].gen
      /\ s.token[p] = k /\ s.gen[p] = q[o].gen => IF ok THEN st[p] = s.last[p] ELSE t.pending[p] = s.last[p]
  <2>1. ok => st[p] = q[o].seen
    BY <1>3, <1>4 DEF ChainShortened, FlushAnswered
  <2> QED BY <1>5, <1>6, <2>1 DEF FlushAnswered
<1>8. Base(st, t, u)
  <2>1. \A x \in Presets : Accepted(q, o, x) => Accepted(u, o, x)
    BY <1>2 DEF Accepted
  <2>2. ASSUME NEW x \in Presets
        PROVE /\ t.memory[x] \in {0, s.memory[x]}
              /\ t.token[x] \in {NoOp, s.token[x]} /\ t.gen[x] >= s.gen[x]
              /\ t.pending[x] # 0 =>
                   /\ t.token[x] # NoOp
                   /\ t.pending[x] = s.pending[x]
                        \/ (t.pending[x] = s.last[x] /\ Unclaimed(q, o, s.token[x], x))
    <3>0. s.gen[x] \in Nat
      BY <1>1 DEF PresetMaps
    <3>1. t.gen[x] >= s.gen[x] /\ t.memory[x] \in {0, s.memory[x]} /\ t.token[x] \in {NoOp, s.token[x]}
      BY <1>2, <1>7, <3>0
    <3>2. CASE x = p
      <4>1. s.pending[p] # 0 => s.token[p] # NoOp
        BY <1>1 DEF TokenInv
      <4> QED BY <1>6, <1>7, <3>1, <3>2, <4>1, PresetAssumption
    <3>3. CASE x # p
      BY <1>1, <1>2, <3>1, <3>3 DEF TokenInv
    <3> QED BY <3>1, <3>2, <3>3
  <2>3. u[o].pc \notin {"writing", "flushing"} /\ t.last = s.last
    BY <1>2
  <2> QED BY <1>1, <1>2, <2>1, <2>2, <2>3, AnsweredBase
<1>9. ASSUME NEW x \in Presets, ~Leaving(s, q, dis, x), Newest(st, s, q, x) PROVE Newest(st, t, u, x)
  <2>1. ASSUME NEW y \in PresetOps, Carries(s, q, x, y), y # o PROVE Carries(t, u, x, y)
    <3>1. t.token[x] = s.token[x]
      <4>1. CASE x # p
        BY <1>2, <4>1
      <4>2. CASE x = p /\ s.token[p] # k
        BY <1>7, <4>2
      <4>3. CASE x = p /\ s.token[p] = k
        <5>1. (q[y].pc = "writing" /\ s.token[p] = y) \/ (q[y].pc = "flushing" /\ s.token[p] = q[y].token)
          BY <2>1, <4>3 DEF Carries
        <5>2. q[y].pc = "flushing" => q[y].at = p
          BY <1>1, <2>1, <4>3, CarriesOwned
        <5> QED BY <1>5, <1>6, <2>1, <4>3, <5>1, <5>2 DEF Unclaimed
      <4> QED BY <4>1, <4>2, <4>3
    <3>2. t.inFlight[x] = s.inFlight[x]
      <4>1. s.inFlight[x].op = y
        BY <2>1 DEF Carries
      <4> QED BY <1>2, <2>1, <4>1
    <3> QED BY <1>1, <1>2, <2>1, <3>1, <3>2, AnsweredCarries
  <2>2. \A y \in PresetOps : Carries(s, q, x, y) /\ y = o => x = p /\ t.chain[p] = <<>> /\ s.token[p] = k
    <3>1. \A y \in PresetOps : Carries(s, q, x, y) /\ y = o => x = p /\ t.chain[p] = <<>>
      BY <1>1, <1>2, AnsweredCarries
    <3> QED BY <1>2, <1>5, <3>1 DEF Carries
  <2>3. CASE s.memory[x] = 0
    <3>1. s.pending[x] = 0
      BY <1>9, <2>3 DEF Newest
    <3>2. x # p
      BY <1>1, <1>2, <1>9, <2>3 DEF StayInv, Calm
    <3> QED BY <1>2, <2>3, <3>1, <3>2 DEF Newest
  <2>4. CASE s.memory[x] # 0 /\ s.pending[x] = s.last[x]
    <3>1. s.pending[x] # 0
      BY <1>1, <2>4 DEF OrderInv, PresetMaps
    <3>2. t.pending[x] = s.pending[x]
      BY <1>2, <1>7, <3>1
    <3> QED BY <1>2, <2>4, <3>2 DEF Newest
  <2>5. CASE s.memory[x] # 0 /\ \E y \in PresetOps : Carries(s, q, x, y)
    <3>1. PICK y \in PresetOps : Carries(s, q, x, y)
      BY <2>5
    <3>2. CASE y # o
      BY <1>2, <2>1, <2>5, <3>1, <3>2 DEF Newest
    <3>3. CASE y = o
      <4>1. x = p /\ t.chain[p] = <<>> /\ s.token[p] = k
        BY <2>2, <3>1, <3>3
      <4>2. s.gen[p] = q[o].gen
        BY <1>1, <1>2, <1>9, <4>1 DEF StayInv, Calm
      <4>3. st[p] = s.last[p] \/ t.pending[p] = s.last[p]
        BY <1>7, <4>1, <4>2
      <4> QED BY <1>2, <2>5, <4>1, <4>3 DEF Newest
    <3> QED BY <3>2, <3>3
  <2>6. CASE s.memory[x] # 0 /\ s.chain[x] = <<>> /\ st[x] = s.last[x]
    BY <1>2, <1>3, <2>6 DEF Newest, ChainShortened
  <2> QED BY <1>9, <2>3, <2>4, <2>5, <2>6 DEF Newest
<1>10. ASSUME NEW x \in Presets, NoRestore(s, q, x) PROVE t.pending[x] = 0
  <2>1. s.pending[x] = 0 /\ (x = p => q[o].gen # s.gen[p])
    BY <1>2, <1>10 DEF NoRestore
  <2> QED BY <1>2, <1>7, <2>1
<1>11. Underway(q[o])
  BY <1>2 DEF Underway
<1>12. \A x \in Presets : Disturbs(st, s, t, q, u, dis, set, crowd, o, x)
  <2> TAKE x \in Presets
  <2>1. t.inFlight[x] \in {NoWrite, s.inFlight[x]}
    BY <1>2
  <2>2. q[o].at = x => t.inFlight[x] # [op |-> o, value |-> q[o].seen]
    BY <1>2, PresetAssumption DEF NoWrite
  <2> QED BY <1>2, <1>9, <1>10, <2>1, <2>2 DEF Disturbs
<1> QED BY <1>2, <1>8, <1>11, <1>12, AnsweredGood

\* The deletion that a tombstone stands for is answered.
UntombAnswered(s, t, q, u, o, p, ok) ==
  /\ HeadAnswered(s, t, q, u, o, p) /\ q[o].pc = "untombing" /\ q[o].at = p
  /\ u[o].pc = "turning" /\ u[o].preset = q[o].preset /\ u[o].value = q[o].value
  /\ t.memory = s.memory /\ t.pending = s.pending /\ t.inFlight = s.inFlight
  /\ t.gen = s.gen /\ t.token = s.token /\ t.last = s.last
  /\ t.tombs = (IF ok THEN s.tombs \ {p} ELSE s.tombs)
  /\ ok => s.chain[p][1].state = "applied"

\* A deletion of p was executed and answered, and nobody is engaged with p: it is cleared.
LEMMA ErasedCleared ==
  ASSUME NEW st, NEW s, NEW t \in PresetMaps, NEW q, NEW u, NEW dis, NEW set, NEW crowd, NEW o \in PresetOps,
         NEW p \in Presets, Good(st, s, q, dis, set, crowd), HeadAnswered(s, t, q, u, o, p),
         s.chain[p][1].state = "applied", s.chain[p][1].value = 0, t.inFlight = s.inFlight,
         p \in set \/ (p \notin crowd /\ Removing(q, p))
  PROVE Cleared(st, t, p)
<1>1. /\ Base(st, s, q) /\ ZeroInv(s, set, crowd) /\ FlightInv(s, q) /\ GoneInv(st, s, q, dis, set) /\ AloneInv(q, crowd)
      /\ set \subseteq Presets
  BY DEF Good
<1>2. ChainShortened(st, s, t, q, o, p)
  BY <1>1, AnsweredChain
<1>3. st[p] = 0
  BY <1>2 DEF ChainShortened
<1>4. Zeros(s.chain[p])
  BY <1>1 DEF ZeroInv
<1>5. AllZero(t.chain[p])
  BY <1>2, <1>4, PoppedZeros DEF ChainShortened
<1>6. \A x \in PresetOps : q[x].preset = p => ~Underway(q[x])
  <2>1. CASE p \in set
    BY <1>1, <2>1 DEF GoneInv
  <2>2. CASE p \notin crowd /\ Removing(q, p)
    <3>1. PICK y \in PresetOps : q[y].preset = p /\ Removes(q[y])
      BY <2>2 DEF Removing
    <3>2. ASSUME NEW x \in PresetOps, q[x].preset = p, Underway(q[x]) PROVE FALSE
      BY <1>1, <2>2, <3>1, <3>2 DEF AloneInv, Underway, Removes
    <3> QED BY <3>2
  <2> QED BY <2>1, <2>2
<1>7. \A i \in DOMAIN s.chain[p] : i # 1 => s.chain[p][i].value = 0
  <2>1. PICK c \in Seq(PresetWrites) : c = s.chain[p] /\ c # <<>>
    BY <1>2 DEF ChainShortened
  <2>2. PICK d : d = Tail(c)
    OBVIOUS
  <2>3. t.chain[p] = d
    BY <1>2, <2>1, <2>2 DEF ChainShortened
  <2>4. \A i \in DOMAIN c : i # 1 => i - 1 \in DOMAIN d /\ d[i - 1] = c[i]
    <3>1. ASSUME NEW i \in DOMAIN c, i # 1 PROVE i - 1 \in DOMAIN d /\ d[i - 1] = c[i]
      BY <2>1, <2>2, <3>1, Popped, ZenonT(30)
    <3> QED BY <3>1
  <2> QED BY <1>5, <2>1, <2>3, <2>4 DEF AllZero
<1>8. AllZero(s.chain[p])
  BY <1>7 DEF AllZero
<1>9. s.inFlight[p] = NoWrite
  BY <1>1, <1>6, <1>8, NothingInFlight
<1> QED BY <1>3, <1>5, <1>9 DEF Cleared

LEMMA UntombAnsweredGood ==
  ASSUME NEW st, NEW s, NEW t \in PresetMaps, NEW q, NEW u, NEW dis, NEW set, NEW crowd, NEW o \in PresetOps,
         NEW p \in Presets, NEW ok \in BOOLEAN, Good(st, s, q, dis, set, crowd), RequestTypes(u),
         UntombAnswered(s, t, q, u, o, p, ok)
  PROVE Good(st, t, u, dis, set, crowd)
<1>1. /\ Base(st, s, q) /\ st \in [Presets -> Nat] /\ s \in PresetMaps /\ RequestTypes(q)
      /\ StayInv(st, s, q, dis) /\ TokenInv(s, q)
  BY DEF Good, Base
<1>2. /\ HeadAnswered(s, t, q, u, o, p) /\ q[o].pc = "untombing" /\ q[o].at = p
      /\ u[o].pc = "turning" /\ u[o].preset = q[o].preset /\ u[o].value = q[o].value
      /\ t.memory = s.memory /\ t.pending = s.pending /\ t.inFlight = s.inFlight
      /\ t.gen = s.gen /\ t.token = s.token /\ t.last = s.last
      /\ t.tombs \in {s.tombs, s.tombs \ {p}}
      /\ t.tombs # s.tombs => s.chain[p][1].state = "applied"
  BY DEF UntombAnswered
<1>3. ChainShortened(st, s, t, q, o, p)
  BY <1>1, <1>2, AnsweredChain
<1>4. s.chain[p][1].value = 0
  BY <1>2, <1>3 DEF ChainShortened, Owned
<1>5. Base(st, t, u)
  <2>1. \A x \in Presets : Accepted(q, o, x) => Accepted(u, o, x)
    BY <1>2 DEF Accepted
  <2>2. ASSUME NEW x \in Presets
        PROVE /\ t.memory[x] \in {0, s.memory[x]}
              /\ t.token[x] \in {NoOp, s.token[x]} /\ t.gen[x] >= s.gen[x]
              /\ t.pending[x] # 0 =>
                   /\ t.token[x] # NoOp
                   /\ t.pending[x] = s.pending[x]
                        \/ (t.pending[x] = s.last[x] /\ Unclaimed(q, o, s.token[x], x))
    <3>0. s.gen[x] \in Nat
      BY <1>1 DEF PresetMaps
    <3>1. s.pending[x] # 0 => s.token[x] # NoOp
      BY <1>1 DEF TokenInv
    <3> QED BY <1>2, <3>0, <3>1
  <2>3. u[o].pc \notin {"writing", "flushing"} /\ t.last = s.last
    BY <1>2
  <2> QED BY <1>1, <1>2, <2>1, <2>2, <2>3, AnsweredBase
<1>6. ASSUME NEW x \in Presets, ~Leaving(s, q, dis, x), Newest(st, s, q, x) PROVE Newest(st, t, u, x)
  <2>1. x # p
    BY <1>1, <1>2, <1>6 DEF StayInv, Calm
  <2>2. t.chain[x] = s.chain[x]
    BY <1>3, <2>1 DEF ChainShortened
  <2>3. ASSUME NEW y \in PresetOps, Carries(s, q, x, y) PROVE Carries(t, u, x, y)
    <3>1. y # o
      BY <1>2, <2>3 DEF Carries
    <3> QED BY <1>1, <1>2, <2>3, <3>1, AnsweredCarries
  <2> QED BY <1>2, <1>6, <2>2, <2>3 DEF Newest
<1>7. \A x \in Presets : NoRestore(s, q, x) => t.pending[x] = 0
  BY <1>2 DEF NoRestore
<1>8. Underway(q[o])
  BY <1>2 DEF Underway
<1>9. ASSUME NEW x \in Presets, x \in s.tombs \ t.tombs, (x \notin crowd /\ Removing(q, x)) \/ x \in set
      PROVE Cleared(st, t, x)
  <2>1. x = p /\ s.chain[p][1].state = "applied"
    BY <1>2, <1>9
  <2> QED BY <1>2, <1>4, <1>9, <2>1, ErasedCleared
<1>10. \A x \in Presets : Disturbs(st, s, t, q, u, dis, set, crowd, o, x)
  <2> TAKE x \in Presets
  <2>1. t.inFlight[x] \in {NoWrite, s.inFlight[x]} /\ q[o].pc # "flushing"
    BY <1>2
  <2> QED BY <1>6, <1>7, <1>9, <2>1 DEF Disturbs
<1>11. t.tombs \subseteq s.tombs
  BY <1>2
<1> QED BY <1>2, <1>5, <1>8, <1>10, <1>11, AnsweredGood

\* The maps differ in the storage status only.
LEMMA SameGood ==
  ASSUME NEW st, NEW s, NEW t \in PresetMaps, NEW q, NEW dis, NEW set, NEW crowd, Good(st, s, q, dis, set, crowd),
         t.memory = s.memory, t.pending = s.pending, t.inFlight = s.inFlight, t.tombs = s.tombs,
         t.gen = s.gen, t.token = s.token, t.chain = s.chain, t.last = s.last
  PROVE Good(st, t, q, dis, set, crowd)
<1>1. Base(st, t, q)
  BY DEF Good, Base, ChainInv, OrderInv, TokenInv
<1>2. StayInv(st, t, q, dis)
  <2>1. \A p \in Presets : Leaving(t, q, dis, p) <=> Leaving(s, q, dis, p)
    BY DEF Leaving, Dooms
  <2>2. \A p \in Presets, o \in PresetOps : Calm(s, q[o], p) => Calm(t, q[o], p)
    BY DEF Calm
  <2>3. \A p \in Presets, o \in PresetOps : Carries(s, q, p, o) => Carries(t, q, p, o)
    BY DEF Carries
  <2>4. \A p \in Presets : Newest(st, s, q, p) => Newest(st, t, q, p)
    BY <2>3 DEF Newest
  <2> QED BY <2>1, <2>2, <2>4 DEF Good, StayInv
<1>3. \A p \in Presets : /\ NoRestore(s, q, p) => NoRestore(t, q, p)
                         /\ Cleared(st, s, p) => Cleared(st, t, p)
                         /\ Erased(st, s, p) => Erased(st, t, p)
  BY DEF NoRestore, Cleared, Erased
<1>4. UncrowdedInv(st, t, q, dis, set, crowd)
  BY <1>3 DEF Good, UncrowdedInv
<1>5. ZeroInv(t, set, crowd) /\ FlightInv(t, q)
  BY DEF Good, ZeroInv, FlightInv
<1>6. GoneInv(st, t, q, dis, set)
  BY <1>3 DEF Good, GoneInv
<1> QED BY <1>1, <1>2, <1>4, <1>5, <1>6 DEF Good

\* Only o is underway with p, unless p is crowded.
LEMMA AloneWith ==
  ASSUME NEW q, NEW crowd, NEW o \in PresetOps, NEW p, AloneInv(q, crowd), q[o].preset = p,
         q[o].pc \notin {"idle", "done"}, p \notin crowd
  PROVE \A y \in PresetOps : y # o /\ q[y].preset = p => q[y].pc \in {"idle", "done"}
  BY DEF AloneInv

LEMMA AcceptsGood ==
  ASSUME NEW st, NEW s, NEW t \in PresetMaps, NEW q, NEW u, NEW dis, NEW set, NEW crowd, NEW o \in PresetOps,
         NEW p \in Presets, Good(st, s, q, dis, set, crowd), RequestTypes(u), Accepts(s, t, q, u, o, p),
         q[o].pc \in {"updating", "updateRead"}, q[o].preset = p, p \notin s.tombs, p \notin set
  PROVE Good(st, t, u, dis, set, crowd)
<1>1. /\ Base(st, s, q) /\ st \in [Presets -> Nat] /\ s \in PresetMaps /\ RequestTypes(q)
      /\ StayInv(st, s, q, dis) /\ UncrowdedInv(st, s, q, dis, set, crowd)
      /\ ZeroInv(s, set, crowd) /\ FlightInv(s, q) /\ GoneInv(st, s, q, dis, set) /\ AloneInv(q, crowd)
      /\ set \subseteq Presets /\ dis \subseteq Presets /\ crowd \subseteq Presets
  BY DEF Good, Base
<1>2. PICK v \in Nat : v = s.last[p] + 1 /\ v # 0
  BY <1>1 DEF PresetMaps
<1>3. /\ Others(q, u, o) /\ u[o].preset = p /\ t.gen = s.gen /\ t.tombs = s.tombs /\ u[o].pc \in {"writing", "done"}
      /\ u[o].pc = "writing" => u[o].value = v /\ u[o].gen = q[o].gen
  BY <1>2 DEF Accepts
<1>4. /\ t.memory[p] = v /\ t.last[p] = v /\ t.token[p] = o
      /\ \A x \in Presets : x # p => /\ t.memory[x] = s.memory[x] /\ t.last[x] = s.last[x]
                                     /\ t.token[x] = s.token[x] /\ t.pending[x] = s.pending[x]
                                     /\ t.inFlight[x] = s.inFlight[x] /\ t.chain[x] = s.chain[x]
  <2>1. /\ t.memory[p] = v /\ t.last[p] = v /\ t.token[p] = o
        /\ \A x \in Presets : x # p => /\ t.memory[x] = s.memory[x] /\ t.last[x] = s.last[x]
                                       /\ t.token[x] = s.token[x]
    BY <1>1, <1>2 DEF Accepts, PresetMaps
  <2>2. \A x \in Presets : x # p => t.pending[x] = s.pending[x] /\ t.inFlight[x] = s.inFlight[x]
    <3>1. PICK w : t.pending = [s.pending EXCEPT ![p] = w]
      BY DEF Accepts
    <3>2. PICK f : t.inFlight = [s.inFlight EXCEPT ![p] = f] \/ t.inFlight = s.inFlight
      BY DEF Accepts
    <3>3. s.pending \in [Presets -> Nat] /\ s.inFlight \in [Presets -> PresetFlights]
      BY <1>1 DEF PresetMaps
    <3> QED BY <3>1, <3>2, <3>3
  <2>3. \A x \in Presets : x # p => t.chain[x] = s.chain[x]
    <3>1. PICK c : t.chain = [s.chain EXCEPT ![p] = c] \/ t.chain = s.chain
      BY DEF Accepts, Enqueued
    <3>2. s.chain \in [Presets -> Seq(PresetWrites)]
      BY <1>1 DEF PresetMaps
    <3> QED BY <3>1, <3>2
  <2> QED BY <2>1, <2>2, <2>3
<1>5. \/ u[o].pc = "done" /\ t.pending[p] = v /\ t.inFlight[p] = s.inFlight[p] /\ t.chain[p] = s.chain[p]
      \/ /\ u[o].pc = "writing" /\ t.pending[p] = 0 /\ t.inFlight[p] = [op |-> o, value |-> v]
         /\ t.chain[p] = Append(s.chain[p], NewWrite(o, v))
  BY <1>1, <1>2 DEF Accepts, PresetMaps, Enqueued
<1>6. s.chain[p] \in Seq(PresetWrites)
  BY <1>1 DEF PresetMaps
<1>7. Base(st, t, u)
  BY <1>1, AcceptsBase
<1>8. \A x \in Presets : Leaving(s, q, dis, x) => Leaving(t, u, dis, x)
  <2>1. \A x \in Presets : s.memory[x] # 0 => t.memory[x] # 0
    BY <1>2, <1>4
  <2>2. \A x \in Presets : ~Dooms(s, q[o], x)
    BY DEF Dooms
  <2> QED BY <1>1, <1>3, <2>1, <2>2, StillLeaving
<1>9. StayInv(st, t, u, dis)
  <2> SUFFICES ASSUME NEW x \in Presets, ~Leaving(s, q, dis, x)
               PROVE /\ x \notin t.tombs /\ t.gen[x] = 0
                     /\ \A y \in PresetOps : Calm(t, u[y], x)
                     /\ Newest(st, t, u, x)
    BY <1>8 DEF StayInv
  <2>1. /\ x \notin s.tombs /\ s.gen[x] = 0
        /\ \A y \in PresetOps : Calm(s, q[y], x)
        /\ Newest(st, s, q, x)
    BY <1>1 DEF StayInv
  <2>2. Calm(t, u[o], x)
    <3>1. u[o].pc = "writing" /\ p = x => u[o].gen = 0 /\ t.memory[x] # 0
      BY <1>2, <1>3, <1>4, <2>1 DEF Calm
    <3> QED BY <1>3, <3>1 DEF Calm
  <2>3. ASSUME NEW y \in PresetOps, y # o PROVE Calm(t, u[y], x)
    <3>1. u[y] = q[y] /\ Calm(s, q[y], x) /\ (t.memory[x] = 0 => s.memory[x] = 0)
      BY <1>2, <1>3, <1>4, <2>1, <2>3 DEF Others
    <3> QED BY <3>1 DEF Calm
  <2>4. CASE x = p
    <3>1. CASE u[o].pc = "done"
      <4>1. t.pending[p] = t.last[p]
        BY <1>4, <1>5, <3>1
      <4> QED BY <1>2, <1>3, <1>4, <2>1, <2>2, <2>3, <2>4, <4>1 DEF Newest
    <3>2. CASE u[o].pc = "writing"
      <4>1. NewWrite(o, v) \in PresetWrites /\ NewWrite(o, v).op = o /\ NewWrite(o, v).value = v
        BY DEF NewWrite, PresetWrites
      <4>2. PICK d : d = Append(s.chain[p], NewWrite(o, v))
        OBVIOUS
      <4>3. Len(d) \in DOMAIN d /\ d[Len(d)] = NewWrite(o, v) /\ d \in Seq(PresetWrites)
        BY <1>6, <4>1, <4>2, Appended
      <4>4. d # <<>>
        BY <4>3
      <4>5. Carries(t, u, p, o)
        BY <1>3, <1>4, <1>5, <3>2, <4>1, <4>2, <4>3, <4>4 DEF Carries
      <4> QED BY <1>2, <1>3, <1>4, <2>1, <2>2, <2>3, <2>4, <4>5 DEF Newest
    <3> QED BY <1>3, <3>1, <3>2
  <2>5. CASE x # p
    <3>1. ASSUME NEW y \in PresetOps, Carries(s, q, x, y) PROVE Carries(t, u, x, y)
      <4>1. y # o
        BY <3>1 DEF Carries
      <4>2. u[y] = q[y]
        BY <1>3, <4>1 DEF Others
      <4> QED BY <1>4, <2>5, <3>1, <4>2 DEF Carries
    <3>2. Newest(st, t, u, x)
      BY <1>4, <2>1, <2>5, <3>1 DEF Newest
    <3> QED BY <1>3, <2>1, <2>2, <2>3, <3>2
  <2> QED BY <2>4, <2>5
<1>10. AloneInv(u, crowd)
  BY <1>1, <1>3, AloneKeep
<1>11. ASSUME p \notin crowd
       PROVE \A y \in PresetOps : y # o /\ q[y].preset = p => q[y].pc \in {"idle", "done"}
  <2>1. q[o].pc \notin {"idle", "done"}
    OBVIOUS
  <2> QED BY <1>1, <1>11, <2>1, AloneWith
<1>12. \A x \in Presets : x # p => /\ NoRestore(s, q, x) => NoRestore(t, u, x)
                                   /\ Cleared(st, s, x) => Cleared(st, t, x)
                                   /\ Erased(st, s, x) => Erased(st, t, x)
  <2>1. \A x \in Presets : x # p => (NoRestore(s, q, x) => NoRestore(t, u, x))
    BY <1>3, <1>4 DEF NoRestore, Others
  <2>2. \A x \in Presets : x # p => (Cleared(st, s, x) => Cleared(st, t, x))
    BY <1>4 DEF Cleared
  <2> QED BY <1>3, <2>1, <2>2 DEF Erased
<1>13. \A y \in PresetOps : Removes(u[y]) => y # o /\ u[y] = q[y]
  BY <1>3 DEF Removes, Others
<1>14. UncrowdedInv(st, t, u, dis, set, crowd)
  <2> SUFFICES ASSUME NEW x \in Presets \ crowd
               PROVE /\ t.memory[x] = 0 \/ Removing(u, x) => NoRestore(t, u, x)
                     /\ x \in dis => x \in set
                     /\ \A y \in PresetOps : u[y].preset = x =>
                          /\ u[y].pc = "writing" => t.memory[x] # 0
                          /\ u[y].pc \in {"removing", "removeRead"} =>
                               (t.memory[x] # 0 => u[y].had) /\ (u[y].had => Erased(st, t, x))
                          /\ u[y].pc = "deleting" => Erased(st, t, x)
    BY DEF UncrowdedInv
  <2>0. x \in dis => x \in set
    BY <1>1 DEF UncrowdedInv
  <2>1. CASE x = p
    <3>1. t.memory[x] # 0
      BY <1>2, <1>4, <2>1
    <3>2. \A y \in PresetOps : u[y].preset = x => ~Removes(u[y])
      BY <1>11, <1>13, <2>1 DEF Removes
    <3> QED BY <2>0, <3>1, <3>2 DEF Removing, Removes
  <2>2. CASE x # p
    <3>1. Removing(u, x) => Removing(q, x)
      BY <1>13 DEF Removing
    <3>2. t.memory[x] = 0 \/ Removing(u, x) => NoRestore(t, u, x)
      BY <1>1, <1>4, <1>12, <2>2, <3>1 DEF UncrowdedInv
    <3>3. ASSUME NEW y \in PresetOps, u[y].preset = x
          PROVE /\ u[y].pc = "writing" => t.memory[x] # 0
                /\ u[y].pc \in {"removing", "removeRead"} =>
                     (t.memory[x] # 0 => u[y].had) /\ (u[y].had => Erased(st, t, x))
                /\ u[y].pc = "deleting" => Erased(st, t, x)
      <4>1. u[y] = q[y]
        BY <1>3, <2>2, <3>3 DEF Others
      <4> QED BY <1>1, <1>4, <1>12, <2>2, <3>3, <4>1 DEF UncrowdedInv
    <3> QED BY <2>0, <3>2, <3>3
  <2> QED BY <2>1, <2>2
<1>15. ZeroInv(t, set, crowd)
  <2>1. ASSUME p \notin crowd PROVE Zeros(t.chain[p])
    <3>1. ~Leaving(s, q, dis, p)
      <4>1. p \notin dis
        BY <1>1, <2>1 DEF UncrowdedInv
      <4>2. \A y \in PresetOps : ~Dooms(s, q[y], p)
        BY <1>11, <2>1 DEF Dooms
      <4> QED BY <4>1, <4>2 DEF Leaving
    <3>2. \A i \in DOMAIN s.chain[p] : s.chain[p][i].value # 0
      BY <1>1, <3>1, ZeroLeaves
    <3>3. Zeros(s.chain[p])
      BY <1>1, <2>1 DEF ZeroInv
    <3> QED BY <1>5, <1>6, <3>2, <3>3, AppendedZeros
  <2> QED BY <1>1, <1>4, <2>1 DEF ZeroInv
<1>16. FlightInv(t, u)
  <2> SUFFICES ASSUME NEW x \in Presets, t.inFlight[x] # NoWrite
               PROVE \E y \in PresetOps :
                       /\ t.inFlight[x].op = y
                       /\ \/ u[y].preset = x /\ Underway(u[y]) /\ t.inFlight[x].value = u[y].value
                          \/ /\ u[y].pc = "flushing" /\ u[y].at = x /\ t.inFlight[x].value = u[y].seen
                             /\ \E i \in DOMAIN t.chain[x] : t.chain[x][i].op = y
    BY DEF FlightInv
  <2>1. CASE x = p /\ u[o].pc = "writing"
    <3>1. t.inFlight[x].op = o /\ t.inFlight[x].value = u[o].value /\ Underway(u[o])
      BY <1>3, <1>5, <2>1 DEF Underway
    <3> QED BY <1>3, <2>1, <3>1
  <2>2. CASE ~(x = p /\ u[o].pc = "writing")
    <3>1. t.inFlight[x] = s.inFlight[x] /\ t.chain[x] = s.chain[x]
      BY <1>4, <1>5, <2>2
    <3>2. PICK y \in PresetOps :
            /\ s.inFlight[x].op = y
            /\ \/ q[y].preset = x /\ Underway(q[y]) /\ s.inFlight[x].value = q[y].value
               \/ /\ q[y].pc = "flushing" /\ q[y].at = x /\ s.inFlight[x].value = q[y].seen
                  /\ \E i \in DOMAIN s.chain[x] : s.chain[x][i].op = y
      BY <1>1, <3>1 DEF FlightInv
    <3>3. y # o
      BY <3>2 DEF Underway
    <3> QED BY <1>3, <3>1, <3>2, <3>3 DEF Others
  <2> QED BY <2>1, <2>2
<1>17. GoneInv(st, t, u, dis, set)
  <2> SUFFICES ASSUME NEW x \in set
               PROVE /\ x \in dis /\ t.memory[x] = 0 /\ NoRestore(t, u, x) /\ Erased(st, t, x)
                     /\ \A y \in PresetOps : u[y].preset = x =>
                          /\ ~Underway(u[y])
                          /\ u[y].pc \in {"updating", "updateRead"} => Cleared(st, t, x)
                          /\ u[y].pc = "updateRead" => u[y].seen = 0
    BY DEF GoneInv
  <2>1. x # p /\ x \in Presets
    BY <1>1
  <2>2. x \in dis /\ t.memory[x] = 0 /\ NoRestore(t, u, x) /\ Erased(st, t, x)
    BY <1>1, <1>4, <1>12, <2>1 DEF GoneInv
  <2>3. ASSUME NEW y \in PresetOps, u[y].preset = x
        PROVE /\ ~Underway(u[y])
              /\ u[y].pc \in {"updating", "updateRead"} => Cleared(st, t, x)
              /\ u[y].pc = "updateRead" => u[y].seen = 0
    <3>1. u[y] = q[y]
      BY <1>3, <2>1, <2>3 DEF Others
    <3>2. /\ ~Underway(q[y])
          /\ q[y].pc \in {"updating", "updateRead"} => Cleared(st, s, x)
          /\ q[y].pc = "updateRead" => q[y].seen = 0
      BY <1>1, <2>3, <3>1 DEF GoneInv
    <3> QED BY <1>12, <2>1, <3>1, <3>2
  <2> QED BY <2>2, <2>3
<1> QED BY <1>1, <1>7, <1>9, <1>10, <1>14, <1>15, <1>16, <1>17 DEF Good

\* A deletion of p starts.
DeleteBegins(s, t, q, u, o, p) ==
  LET had == s.memory[p] # 0 \/ s.pending[p] # 0
  IN /\ q[o].pc = "idle" /\ Others(q, u, o)
     /\ u[o].pc = "removing" /\ u[o].preset = p /\ u[o].had = had
     /\ t.memory = s.memory /\ t.inFlight = s.inFlight /\ t.token = s.token /\ t.chain = s.chain /\ t.last = s.last
     /\ t.pending = [s.pending EXCEPT ![p] = 0]
     /\ t.tombs = (IF had THEN s.tombs \cup {p} ELSE s.tombs)
     /\ t.gen = (IF had THEN [s.gen EXCEPT ![p] = @ + 1] ELSE s.gen)

\* A write of p that was taken by a flush before the generation of p grew is not restored.
LEMMA GrownGen ==
  ASSUME NEW st, NEW s, NEW t \in PresetMaps, NEW q, NEW u, NEW o \in PresetOps, NEW p \in Presets,
         Base(st, s, q), Others(q, u, o), u[o].pc # "flushing", t.pending[p] = 0,
         t.gen[p] = s.gen[p] + 1 \/ (t.gen[p] = s.gen[p] /\ NoRestore(s, q, p))
  PROVE NoRestore(t, u, p)
<1>1. s.gen[p] \in Nat /\ RequestTypes(q) /\ TokenInv(s, q)
  BY DEF Base, PresetMaps
<1>2. ASSUME NEW y \in PresetOps, u[y].pc = "flushing", u[y].at = p PROVE u[y].gen # t.gen[p]
  <2>1. u[y] = q[y]
    BY <1>2 DEF Others
  <2>2. CASE t.gen[p] = s.gen[p] + 1
    <3>1. q[y].gen <= s.gen[p] /\ q[y].gen \in Nat
      BY <1>1, <1>2, <2>1 DEF TokenInv, RequestTypes, PresetRequests
    <3> QED BY <1>1, <2>1, <2>2, <3>1
  <2>3. CASE t.gen[p] = s.gen[p] /\ NoRestore(s, q, p)
    BY <1>2, <2>1, <2>3 DEF NoRestore
  <2> QED BY <2>2, <2>3
<1> QED BY <1>2 DEF NoRestore

LEMMA DeleteBeginsGood ==
  ASSUME NEW st, NEW s, NEW t \in PresetMaps, NEW q, NEW u, NEW dis, NEW set, NEW crowd, NEW o \in PresetOps,
         NEW p \in Presets, Good(st, s, q, dis, set, crowd), RequestTypes(u), DeleteBegins(s, t, q, u, o, p),
         AloneInv(u, crowd)
  PROVE Good(st, t, u, dis, set, crowd)
<1>1. /\ Base(st, s, q) /\ st \in [Presets -> Nat] /\ s \in PresetMaps /\ RequestTypes(q)
      /\ StayInv(st, s, q, dis) /\ UncrowdedInv(st, s, q, dis, set, crowd)
      /\ ZeroInv(s, set, crowd) /\ FlightInv(s, q) /\ GoneInv(st, s, q, dis, set)
      /\ set \subseteq Presets /\ dis \subseteq Presets /\ crowd \subseteq Presets
  BY DEF Good, Base
<1>2. PICK had \in BOOLEAN : had = (s.memory[p] # 0 \/ s.pending[p] # 0)
  OBVIOUS
<1>3. /\ q[o].pc = "idle" /\ Others(q, u, o)
      /\ u[o].pc = "removing" /\ u[o].preset = p /\ u[o].had = had
      /\ t.memory = s.memory /\ t.inFlight = s.inFlight /\ t.token = s.token /\ t.chain = s.chain /\ t.last = s.last
      /\ t.tombs = (IF had THEN s.tombs \cup {p} ELSE s.tombs)
  BY <1>2 DEF DeleteBegins
<1>4. /\ t.pending[p] = 0
      /\ \A x \in Presets : x # p => t.pending[x] = s.pending[x] /\ t.gen[x] = s.gen[x]
      /\ t.gen[p] = (IF had THEN s.gen[p] + 1 ELSE s.gen[p])
  <2>1. t.pending[p] = 0 /\ \A x \in Presets : x # p => t.pending[x] = s.pending[x]
    BY <1>1 DEF DeleteBegins, PresetMaps
  <2>2. CASE had
    <3>1. t.gen = [s.gen EXCEPT ![p] = @ + 1]
      BY <1>2, <2>2 DEF DeleteBegins
    <3>2. s.gen \in [Presets -> Nat]
      BY <1>1 DEF PresetMaps
    <3> QED BY <2>1, <2>2, <3>1, <3>2
  <2>3. CASE ~had
    BY <1>2, <2>1, <2>3 DEF DeleteBegins
  <2> QED BY <2>2, <2>3
<1>5. Base(st, t, u)
  <2>1. ~Waits(q[o]) /\ \A x \in Presets : ~Accepted(q, o, x)
    BY <1>3 DEF Waits, Accepted
  <2>2. ASSUME NEW x \in Presets
        PROVE /\ t.memory[x] \in {0, s.memory[x]} /\ t.pending[x] \in {0, s.pending[x]}
              /\ t.gen[x] >= s.gen[x]
    <3>1. s.gen[x] \in Nat
      BY <1>1 DEF PresetMaps
    <3> QED BY <1>3, <1>4, <3>1
  <2> QED BY <1>1, <1>3, <2>1, <2>2, QuietBase
<1>6. \A x \in Presets : Leaving(s, q, dis, x) => Leaving(t, u, dis, x)
  BY <1>1, <1>3, StillLeaving DEF Dooms
<1>7. s.memory[p] # 0 => Leaving(t, u, dis, p)
  BY <1>3 DEF Leaving, Dooms
<1>8. StayInv(st, t, u, dis)
  <2> SUFFICES ASSUME NEW x \in Presets, ~Leaving(t, u, dis, x)
               PROVE /\ x \notin t.tombs /\ t.gen[x] = 0
                     /\ \A y \in PresetOps : Calm(t, u[y], x)
                     /\ Newest(st, t, u, x)
    BY DEF StayInv
  <2>1. /\ x \notin s.tombs /\ s.gen[x] = 0
        /\ \A y \in PresetOps : Calm(s, q[y], x)
        /\ Newest(st, s, q, x)
    BY <1>1, <1>6 DEF StayInv
  <2>2. x = p => s.memory[p] = 0 /\ s.pending[p] = 0 /\ had = FALSE
    BY <1>2, <1>7, <2>1 DEF Newest
  <2>3. x \notin t.tombs /\ t.gen[x] = 0 /\ t.pending[x] = s.pending[x]
    BY <1>3, <1>4, <2>1, <2>2
  <2>4. \A y \in PresetOps : Calm(t, u[y], x)
    BY <1>3, <2>1 DEF Calm, Others
  <2>5. ASSUME NEW y \in PresetOps, Carries(s, q, x, y) PROVE Carries(t, u, x, y)
    <3>1. y # o
      BY <1>3, <2>5 DEF Carries
    <3> QED BY <1>3, <2>5, <3>1 DEF Carries, Others
  <2>6. Newest(st, t, u, x)
    BY <1>3, <2>1, <2>3, <2>5 DEF Newest
  <2> QED BY <2>3, <2>4, <2>6
<1>9. \A x \in Presets : x # p => (NoRestore(s, q, x) => NoRestore(t, u, x))
  BY <1>3, <1>4 DEF NoRestore, Others
<1>10. had \/ NoRestore(s, q, p) => NoRestore(t, u, p)
  <2>1. u[o].pc # "flushing"
    BY <1>3
  <2> QED BY <1>1, <1>3, <1>4, <2>1, GrownGen
<1>11. \A x \in Presets : /\ Cleared(st, s, x) => Cleared(st, t, x)
                          /\ Erased(st, s, x) => Erased(st, t, x)
  BY <1>3 DEF Erased, Cleared
<1>12. UncrowdedInv(st, t, u, dis, set, crowd)
  <2> SUFFICES ASSUME NEW x \in Presets \ crowd
               PROVE /\ t.memory[x] = 0 \/ Removing(u, x) => NoRestore(t, u, x)
                     /\ x \in dis => x \in set
                     /\ \A y \in PresetOps : u[y].preset = x =>
                          /\ u[y].pc = "writing" => t.memory[x] # 0
                          /\ u[y].pc \in {"removing", "removeRead"} =>
                               (t.memory[x] # 0 => u[y].had) /\ (u[y].had => Erased(st, t, x))
                          /\ u[y].pc = "deleting" => Erased(st, t, x)
    BY DEF UncrowdedInv
  <2>0. x \in dis => x \in set
    BY <1>1 DEF UncrowdedInv
  <2>1. CASE x = p
    <3>1. NoRestore(t, u, p)
      <4>1. s.memory[p] = 0 => NoRestore(s, q, p)
        BY <1>1, <2>1 DEF UncrowdedInv
      <4> QED BY <1>2, <1>10, <4>1
    <3>2. \A y \in PresetOps : y # o /\ u[y].preset = p => u[y].pc \in {"idle", "done"}
      <4>1. u[o].preset = p /\ u[o].pc \notin {"idle", "done"} /\ p \notin crowd
        BY <1>3, <2>1
      <4> QED BY <4>1, AloneWith
    <3>3. (t.memory[p] # 0 => u[o].had) /\ (u[o].had => Erased(st, t, p))
      BY <1>2, <1>3 DEF Erased
    <3> QED BY <1>3, <2>0, <2>1, <3>1, <3>2, <3>3
  <2>2. CASE x # p
    <3>1. Removing(u, x) => Removing(q, x)
      BY <1>3, <2>2 DEF Removing, Others
    <3>2. t.memory[x] = 0 \/ Removing(u, x) => NoRestore(t, u, x)
      BY <1>1, <1>3, <1>9, <2>2, <3>1 DEF UncrowdedInv
    <3>3. ASSUME NEW y \in PresetOps, u[y].preset = x
          PROVE /\ u[y].pc = "writing" => t.memory[x] # 0
                /\ u[y].pc \in {"removing", "removeRead"} =>
                     (t.memory[x] # 0 => u[y].had) /\ (u[y].had => Erased(st, t, x))
                /\ u[y].pc = "deleting" => Erased(st, t, x)
      <4>1. u[y] = q[y]
        BY <1>3, <2>2, <3>3 DEF Others
      <4> QED BY <1>1, <1>3, <1>11, <3>3, <4>1 DEF UncrowdedInv
    <3> QED BY <2>0, <3>2, <3>3
  <2> QED BY <2>1, <2>2
<1>13. ZeroInv(t, set, crowd)
  BY <1>1, <1>3 DEF ZeroInv
<1>14. FlightInv(t, u)
  BY <1>1, <1>3 DEF FlightInv, Others, Underway
<1>15. GoneInv(st, t, u, dis, set)
  <2> SUFFICES ASSUME NEW x \in set
               PROVE /\ x \in dis /\ t.memory[x] = 0 /\ NoRestore(t, u, x) /\ Erased(st, t, x)
                     /\ \A y \in PresetOps : u[y].preset = x =>
                          /\ ~Underway(u[y])
                          /\ u[y].pc \in {"updating", "updateRead"} => Cleared(st, t, x)
                          /\ u[y].pc = "updateRead" => u[y].seen = 0
    BY DEF GoneInv
  <2>1. x \in Presets /\ x \in dis /\ s.memory[x] = 0 /\ NoRestore(s, q, x) /\ Erased(st, s, x)
    BY <1>1 DEF GoneInv
  <2>2. NoRestore(t, u, x)
    BY <1>9, <1>10, <2>1
  <2>3. ASSUME NEW y \in PresetOps, u[y].preset = x
        PROVE /\ ~Underway(u[y])
              /\ u[y].pc \in {"updating", "updateRead"} => Cleared(st, t, x)
              /\ u[y].pc = "updateRead" => u[y].seen = 0
    <3>1. CASE y = o
      BY <1>3, <3>1 DEF Underway
    <3>2. CASE y # o
      <4>1. u[y] = q[y]
        BY <1>3, <3>2 DEF Others
      <4>2. /\ ~Underway(q[y])
            /\ q[y].pc \in {"updating", "updateRead"} => Cleared(st, s, x)
            /\ q[y].pc = "updateRead" => q[y].seen = 0
        BY <1>1, <2>3, <4>1 DEF GoneInv
      <4> QED BY <1>11, <2>1, <4>1, <4>2
    <3> QED BY <3>1, <3>2
  <2> QED BY <1>3, <1>11, <2>1, <2>2, <2>3
<1> QED BY <1>1, <1>5, <1>8, <1>12, <1>13, <1>14, <1>15 DEF Good

\* A deletion ends without a write: the preset leaves memory, deleted says if it was found.
RemoveEnds(s, t, q, u, o, p, dis, gone, set, done, crowd, deleted) ==
  /\ q[o].pc \in {"removing", "removeRead"} /\ q[o].preset = p /\ Others(q, u, o)
  /\ u[o].pc = "done" /\ u[o].preset = p
  /\ t.pending = s.pending /\ t.inFlight = s.inFlight /\ t.tombs = s.tombs /\ t.gen = s.gen
  /\ t.token = s.token /\ t.chain = s.chain /\ t.last = s.last
  /\ t.memory = [s.memory EXCEPT ![p] = 0]
  /\ gone = (IF deleted THEN dis \cup {p} ELSE dis)
  /\ done = (IF deleted /\ p \notin crowd THEN set \cup {p} ELSE set)
  /\ s.memory[p] # 0 => deleted
  /\ deleted /\ p \notin crowd => q[o].had

LEMMA RemoveEndsGood ==
  ASSUME NEW st, NEW s, NEW t \in PresetMaps, NEW q, NEW u, NEW dis, NEW gone, NEW set, NEW done, NEW crowd,
         NEW o \in PresetOps, NEW p \in Presets, NEW deleted \in BOOLEAN,
         Good(st, s, q, dis, set, crowd), RequestTypes(u),
         RemoveEnds(s, t, q, u, o, p, dis, gone, set, done, crowd, deleted)
  PROVE Good(st, t, u, gone, done, crowd)
<1>1. /\ Base(st, s, q) /\ st \in [Presets -> Nat] /\ s \in PresetMaps /\ RequestTypes(q)
      /\ StayInv(st, s, q, dis) /\ UncrowdedInv(st, s, q, dis, set, crowd)
      /\ ZeroInv(s, set, crowd) /\ FlightInv(s, q) /\ GoneInv(st, s, q, dis, set) /\ AloneInv(q, crowd)
      /\ set \subseteq Presets /\ dis \subseteq Presets /\ crowd \subseteq Presets
  BY DEF Good, Base
<1>2. /\ q[o].pc \in {"removing", "removeRead"} /\ q[o].preset = p /\ Others(q, u, o)
      /\ u[o].pc = "done" /\ u[o].preset = p
      /\ t.pending = s.pending /\ t.inFlight = s.inFlight /\ t.tombs = s.tombs /\ t.gen = s.gen
      /\ t.token = s.token /\ t.chain = s.chain /\ t.last = s.last
  BY DEF RemoveEnds
<1>3. t.memory[p] = 0 /\ \A x \in Presets : x # p => t.memory[x] = s.memory[x]
  BY <1>1 DEF RemoveEnds, PresetMaps
<1>4. /\ dis \subseteq gone /\ gone \subseteq dis \cup {p} /\ gone \subseteq Presets
      /\ set \subseteq done /\ done \subseteq set \cup {p} /\ done \subseteq Presets
      /\ s.memory[p] # 0 => p \in gone
      /\ p \in gone \ dis /\ p \notin crowd => p \in done
      /\ p \in done \ set => p \in gone /\ p \notin crowd /\ q[o].had
  BY <1>1 DEF RemoveEnds
<1>5. Base(st, t, u)
  <2>1. ~Waits(q[o]) /\ \A x \in Presets : ~Accepted(q, o, x)
    BY <1>2 DEF Waits, Accepted
  <2>2. ASSUME NEW x \in Presets
        PROVE /\ t.memory[x] \in {0, s.memory[x]} /\ t.pending[x] \in {0, s.pending[x]}
              /\ t.gen[x] >= s.gen[x]
    <3>1. s.gen[x] \in Nat
      BY <1>1 DEF PresetMaps
    <3> QED BY <1>2, <1>3, <3>1
  <2>3. u[o].pc \notin {"writing", "flushing"}
    BY <1>2
  <2> QED BY <1>1, <1>2, <2>1, <2>2, <2>3, QuietBase
<1>6. ASSUME NEW x \in Presets, Leaving(s, q, dis, x) PROVE Leaving(t, u, gone, x)
  <2>1. s.memory[x] # 0 => t.memory[x] # 0 \/ x \in gone
    BY <1>3, <1>4
  <2>2. Dooms(s, q[o], x) => x \in gone
    BY <1>2, <1>4 DEF Dooms
  <2> QED BY <1>1, <1>2, <1>4, <1>6, <2>1, <2>2, StillLeaving
<1>7. StayInv(st, t, u, gone)
  <2> SUFFICES ASSUME NEW x \in Presets, ~Leaving(t, u, gone, x)
               PROVE /\ x \notin t.tombs /\ t.gen[x] = 0
                     /\ \A y \in PresetOps : Calm(t, u[y], x)
                     /\ Newest(st, t, u, x)
    BY DEF StayInv
  <2>1. /\ x \notin s.tombs /\ s.gen[x] = 0
        /\ \A y \in PresetOps : Calm(s, q[y], x)
        /\ Newest(st, s, q, x)
    BY <1>1, <1>6 DEF StayInv
  <2>2. t.memory[x] = s.memory[x]
    BY <1>3, <1>4 DEF Leaving
  <2>3. \A y \in PresetOps : Calm(t, u[y], x)
    BY <1>2, <2>1, <2>2 DEF Calm, Others
  <2>4. ASSUME NEW y \in PresetOps, Carries(s, q, x, y) PROVE Carries(t, u, x, y)
    <3>1. y # o
      BY <1>2, <2>4 DEF Carries
    <3> QED BY <1>2, <2>4, <3>1 DEF Carries, Others
  <2>5. Newest(st, t, u, x)
    BY <1>2, <2>1, <2>2, <2>4 DEF Newest
  <2> QED BY <1>2, <2>1, <2>3, <2>5
<1>8. AloneInv(u, crowd)
  BY <1>1, <1>2, AloneKeep
<1>9. \A x \in Presets : /\ NoRestore(s, q, x) => NoRestore(t, u, x)
                         /\ Cleared(st, s, x) => Cleared(st, t, x)
                         /\ Erased(st, s, x) => Erased(st, t, x)
  BY <1>2 DEF NoRestore, Cleared, Erased, Others
<1>10. ASSUME p \notin crowd
       PROVE /\ NoRestore(s, q, p) /\ (q[o].had => Erased(st, s, p))
             /\ \A y \in PresetOps : u[y].preset = p => u[y].pc \in {"idle", "done"}
  <2>1. Removing(q, p)
    BY <1>2 DEF Removing, Removes
  <2>2. NoRestore(s, q, p) /\ (q[o].had => Erased(st, s, p))
    BY <1>1, <1>2, <1>10, <2>1 DEF UncrowdedInv
  <2>3. q[o].pc \notin {"idle", "done"} /\ q[o].preset = p
    BY <1>2
  <2>4. \A y \in PresetOps : y # o /\ q[y].preset = p => q[y].pc \in {"idle", "done"}
    BY <1>1, <1>10, <2>3, AloneWith
  <2>5. \A y \in PresetOps : u[y].preset = p => u[y].pc \in {"idle", "done"}
    BY <1>2, <2>4 DEF Others
  <2> QED BY <2>2, <2>5
<1>11. UncrowdedInv(st, t, u, gone, done, crowd)
  <2> SUFFICES ASSUME NEW x \in Presets \ crowd
               PROVE /\ t.memory[x] = 0 \/ Removing(u, x) => NoRestore(t, u, x)
                     /\ x \in gone => x \in done
                     /\ \A y \in PresetOps : u[y].preset = x =>
                          /\ u[y].pc = "writing" => t.memory[x] # 0
                          /\ u[y].pc \in {"removing", "removeRead"} =>
                               (t.memory[x] # 0 => u[y].had) /\ (u[y].had => Erased(st, t, x))
                          /\ u[y].pc = "deleting" => Erased(st, t, x)
    BY DEF UncrowdedInv
  <2>0. x \in gone => x \in done
    <3>1. x \in dis => x \in set
      BY <1>1 DEF UncrowdedInv
    <3> QED BY <1>4, <3>1
  <2>1. CASE x = p
    BY <1>9, <1>10, <2>0, <2>1
  <2>2. CASE x # p
    <3>1. Removing(u, x) => Removing(q, x)
      BY <1>2, <2>2 DEF Removing, Others
    <3>2. t.memory[x] = 0 \/ Removing(u, x) => NoRestore(t, u, x)
      BY <1>1, <1>3, <1>9, <2>2, <3>1 DEF UncrowdedInv
    <3>3. ASSUME NEW y \in PresetOps, u[y].preset = x
          PROVE /\ u[y].pc = "writing" => t.memory[x] # 0
                /\ u[y].pc \in {"removing", "removeRead"} =>
                     (t.memory[x] # 0 => u[y].had) /\ (u[y].had => Erased(st, t, x))
                /\ u[y].pc = "deleting" => Erased(st, t, x)
      <4>1. u[y] = q[y]
        BY <1>2, <2>2, <3>3 DEF Others
      <4> QED BY <1>1, <1>3, <1>9, <2>2, <3>3, <4>1 DEF UncrowdedInv
    <3> QED BY <2>0, <3>2, <3>3
  <2> QED BY <2>1, <2>2
<1>12. ZeroInv(t, done, crowd)
  BY <1>1, <1>2, <1>4 DEF ZeroInv
<1>13. FlightInv(t, u)
  <2>1. ~Underway(q[o]) /\ q[o].pc # "flushing"
    BY <1>2 DEF Underway
  <2> QED BY <1>1, <1>2, <2>1 DEF FlightInv, Others
<1>14. GoneInv(st, t, u, gone, done)
  <2> SUFFICES ASSUME NEW x \in done
               PROVE /\ x \in gone /\ t.memory[x] = 0 /\ NoRestore(t, u, x) /\ Erased(st, t, x)
                     /\ \A y \in PresetOps : u[y].preset = x =>
                          /\ ~Underway(u[y])
                          /\ u[y].pc \in {"updating", "updateRead"} => Cleared(st, t, x)
                          /\ u[y].pc = "updateRead" => u[y].seen = 0
    BY DEF GoneInv
  <2>1. CASE x \in set
    <3>1. x \in Presets /\ x \in gone /\ s.memory[x] = 0 /\ NoRestore(s, q, x) /\ Erased(st, s, x)
      BY <1>1, <1>4, <2>1 DEF GoneInv
    <3>2. ASSUME NEW y \in PresetOps, u[y].preset = x
          PROVE /\ ~Underway(u[y])
                /\ u[y].pc \in {"updating", "updateRead"} => Cleared(st, t, x)
                /\ u[y].pc = "updateRead" => u[y].seen = 0
      <4>1. CASE y = o
        BY <1>2, <4>1 DEF Underway
      <4>2. CASE y # o
        <5>1. u[y] = q[y]
          BY <1>2, <4>2 DEF Others
        <5>2. /\ ~Underway(q[y])
              /\ q[y].pc \in {"updating", "updateRead"} => Cleared(st, s, x)
              /\ q[y].pc = "updateRead" => q[y].seen = 0
          BY <1>1, <2>1, <3>2, <5>1 DEF GoneInv
        <5> QED BY <1>9, <3>1, <5>1, <5>2
      <4> QED BY <4>1, <4>2
    <3>3. t.memory[x] = 0
      BY <1>3, <3>1
    <3> QED BY <1>9, <3>1, <3>2, <3>3
  <2>2. CASE x \notin set
    <3>1. x = p /\ p \in gone /\ p \notin crowd /\ q[o].had
      BY <1>4, <2>2
    <3>2. NoRestore(t, u, p) /\ Erased(st, t, p) /\ t.memory[p] = 0
      BY <1>3, <1>9, <1>10, <3>1
    <3>3. \A y \in PresetOps : u[y].preset = p => u[y].pc \in {"idle", "done"}
      BY <1>10, <3>1
    <3> QED BY <3>1, <3>2, <3>3 DEF Underway
  <2> QED BY <2>1, <2>2
<1> QED BY <1>1, <1>4, <1>5, <1>7, <1>8, <1>11, <1>12, <1>13, <1>14 DEF Good

\* After its read, a deletion of p issues its write.
Erases(s, t, q, u, o, p) ==
  /\ q[o].pc = "removeRead" /\ q[o].preset = p /\ Others(q, u, o)
  /\ u[o].pc = "deleting" /\ u[o].preset = p
  /\ t.memory = s.memory /\ t.pending = s.pending /\ t.inFlight = s.inFlight
  /\ t.token = s.token /\ t.last = s.last
  /\ Enqueued(s, t, p, o, 0)
  /\ \/ t.tombs = s.tombs \cup {p} /\ t.gen = [s.gen EXCEPT ![p] = @ + 1]
     \/ t.tombs = s.tombs /\ t.gen = s.gen /\ (p \in s.tombs \/ q[o].had)

LEMMA ErasesGood ==
  ASSUME NEW st, NEW s, NEW t \in PresetMaps, NEW q, NEW u, NEW dis, NEW set, NEW crowd, NEW o \in PresetOps,
         NEW p \in Presets, Good(st, s, q, dis, set, crowd), RequestTypes(u), Erases(s, t, q, u, o, p)
  PROVE Good(st, t, u, dis, set, crowd)
<1>1. /\ Base(st, s, q) /\ st \in [Presets -> Nat] /\ s \in PresetMaps /\ RequestTypes(q)
      /\ StayInv(st, s, q, dis) /\ UncrowdedInv(st, s, q, dis, set, crowd)
      /\ ZeroInv(s, set, crowd) /\ FlightInv(s, q) /\ GoneInv(st, s, q, dis, set) /\ AloneInv(q, crowd)
      /\ set \subseteq Presets /\ dis \subseteq Presets /\ crowd \subseteq Presets
  BY DEF Good, Base
<1>2. /\ q[o].pc = "removeRead" /\ q[o].preset = p /\ Others(q, u, o)
      /\ u[o].pc = "deleting" /\ u[o].preset = p
      /\ t.memory = s.memory /\ t.pending = s.pending /\ t.inFlight = s.inFlight
      /\ t.token = s.token /\ t.last = s.last
      /\ Enqueued(s, t, p, o, 0)
      /\ t.tombs \in {s.tombs, s.tombs \cup {p}}
      /\ p \in t.tombs \/ q[o].had
  BY DEF Erases
<1>3. /\ \A x \in Presets : x # p => t.gen[x] = s.gen[x]
      /\ t.gen[p] \in {s.gen[p], s.gen[p] + 1}
  <2>1. s.gen \in [Presets -> Nat]
    BY <1>1 DEF PresetMaps
  <2>2. t.gen = s.gen \/ t.gen = [s.gen EXCEPT ![p] = @ + 1]
    BY DEF Erases
  <2> QED BY <2>1, <2>2
<1>4. Base(st, t, u)
  <2>1. Owned(u, p, NewWrite(o, 0)) /\ ~Waits(q[o]) /\ \A x \in Presets : Accepted(q, o, x) => Accepted(u, o, x)
    BY <1>2 DEF Owned, NewWrite, Waits, Accepted
  <2>2. \A x \in Presets : t.gen[x] >= s.gen[x]
    <3>1. \A x \in Presets : s.gen[x] \in Nat
      BY <1>1 DEF PresetMaps
    <3> QED BY <1>3, <3>1
  <2>3. u[o].pc \notin {"writing", "flushing"}
    BY <1>2
  <2> QED BY <1>1, <1>2, <2>1, <2>2, <2>3, ErasingBase
<1>5. /\ \A x \in Presets : x # p => t.chain[x] = s.chain[x]
      /\ t.chain[p] = Append(s.chain[p], NewWrite(o, 0)) /\ s.chain[p] \in Seq(PresetWrites)
  BY <1>1, <1>2 DEF Enqueued, PresetMaps
<1>6. /\ AllZero(s.chain[p]) => AllZero(t.chain[p])
      /\ Zeros(s.chain[p]) => Zeros(t.chain[p])
      /\ \A i \in DOMAIN s.chain[p] : i \in DOMAIN t.chain[p] /\ t.chain[p][i] = s.chain[p][i]
  <2>1. NewWrite(o, 0) \in PresetWrites
    BY DEF NewWrite, PresetWrites
  <2>2. \A i \in DOMAIN s.chain[p] : i \in DOMAIN t.chain[p] /\ t.chain[p][i] = s.chain[p][i]
    BY <1>5, <2>1, Appended
  <2> QED BY <1>5, <2>2, AppendedZeros
<1>7. Leaving(t, u, dis, p) /\ \A x \in Presets : Leaving(s, q, dis, x) => Leaving(t, u, dis, x)
  <2>1. Dooms(t, u[o], p)
    BY <1>2 DEF Dooms
  <2>2. \A x \in Presets : Dooms(s, q[o], x) => Dooms(t, u[o], x)
    BY <1>2 DEF Dooms
  <2>3. \A x \in Presets : Leaving(s, q, dis, x) => Leaving(t, u, dis, x)
    BY <1>1, <1>2, <2>2, StillLeaving
  <2> QED BY <2>1, <2>3 DEF Leaving
<1>8. StayInv(st, t, u, dis)
  <2> SUFFICES ASSUME NEW x \in Presets, x # p, ~Leaving(s, q, dis, x)
               PROVE /\ x \notin t.tombs /\ t.gen[x] = 0
                     /\ \A y \in PresetOps : Calm(t, u[y], x)
                     /\ Newest(st, t, u, x)
    BY <1>7 DEF StayInv
  <2>1. /\ x \notin s.tombs /\ s.gen[x] = 0
        /\ \A y \in PresetOps : Calm(s, q[y], x)
        /\ Newest(st, s, q, x)
    BY <1>1 DEF StayInv
  <2>3. \A y \in PresetOps : Calm(t, u[y], x)
    BY <1>2, <2>1 DEF Calm, Others
  <2>4. ASSUME NEW y \in PresetOps, Carries(s, q, x, y) PROVE Carries(t, u, x, y)
    <3>1. y # o /\ u[y] = q[y]
      BY <1>2, <2>4 DEF Carries, Others
    <3> QED BY <1>2, <1>5, <2>4, <3>1 DEF Carries
  <2>5. Newest(st, t, u, x)
    BY <1>2, <1>5, <2>1, <2>4 DEF Newest
  <2>6. x \notin t.tombs /\ t.gen[x] = 0
    BY <1>2, <1>3, <2>1
  <2> QED BY <2>3, <2>5, <2>6
<1>9. AloneInv(u, crowd)
  BY <1>1, <1>2, AloneKeep
<1>10. \A x \in Presets : NoRestore(s, q, x) => NoRestore(t, u, x)
  <2>1. \A x \in Presets : x # p => (NoRestore(s, q, x) => NoRestore(t, u, x))
    BY <1>2, <1>3 DEF NoRestore, Others
  <2>2. ASSUME NoRestore(s, q, p) PROVE NoRestore(t, u, p)
    <3>1. t.pending[p] = 0 /\ u[o].pc # "flushing"
      BY <1>2, <2>2 DEF NoRestore
    <3> QED BY <1>1, <1>2, <1>3, <2>2, <3>1, GrownGen
  <2> QED BY <2>1, <2>2
<1>11. \A x \in Presets : /\ Cleared(st, s, x) => Cleared(st, t, x)
                          /\ Erased(st, s, x) => Erased(st, t, x)
  <2>1. \A x \in Presets : Cleared(st, s, x) => Cleared(st, t, x)
    BY <1>2, <1>5, <1>6 DEF Cleared
  <2> QED BY <1>2, <2>1 DEF Erased
<1>12. UncrowdedInv(st, t, u, dis, set, crowd)
  <2> SUFFICES ASSUME NEW x \in Presets \ crowd
               PROVE /\ t.memory[x] = 0 \/ Removing(u, x) => NoRestore(t, u, x)
                     /\ x \in dis => x \in set
                     /\ \A y \in PresetOps : u[y].preset = x =>
                          /\ u[y].pc = "writing" => t.memory[x] # 0
                          /\ u[y].pc \in {"removing", "removeRead"} =>
                               (t.memory[x] # 0 => u[y].had) /\ (u[y].had => Erased(st, t, x))
                          /\ u[y].pc = "deleting" => Erased(st, t, x)
    BY DEF UncrowdedInv
  <2>1. \A y \in PresetOps : u[y].preset = x /\ Removes(u[y]) => q[y].preset = x /\ Removes(q[y])
    BY <1>2 DEF Others, Removes
  <2>2. t.memory[x] = 0 \/ Removing(u, x) => NoRestore(t, u, x)
    BY <1>1, <1>2, <1>10, <2>1 DEF UncrowdedInv, Removing
  <2>3. ASSUME NEW y \in PresetOps, u[y].preset = x
        PROVE /\ u[y].pc = "writing" => t.memory[x] # 0
              /\ u[y].pc \in {"removing", "removeRead"} =>
                   (t.memory[x] # 0 => u[y].had) /\ (u[y].had => Erased(st, t, x))
              /\ u[y].pc = "deleting" => Erased(st, t, x)
    <3>1. CASE y = o
      <4>1. x = p
        BY <1>2, <2>3, <3>1
      <4>2. q[o].had => Erased(st, s, p)
        BY <1>1, <1>2, <4>1 DEF UncrowdedInv
      <4>3. Erased(st, t, p)
        <5>1. CASE p \in t.tombs
          BY <5>1 DEF Erased
        <5>2. CASE q[o].had
          BY <1>11, <4>2, <5>2
        <5> QED BY <1>2, <5>1, <5>2
      <4> QED BY <1>2, <3>1, <4>1, <4>3
    <3>2. CASE y # o
      <4>1. u[y] = q[y]
        BY <1>2, <3>2 DEF Others
      <4> QED BY <1>1, <1>2, <1>11, <2>3, <4>1 DEF UncrowdedInv
    <3> QED BY <3>1, <3>2
  <2>4. x \in dis => x \in set
    BY <1>1 DEF UncrowdedInv
  <2> QED BY <2>2, <2>3, <2>4
<1>13. ZeroInv(t, set, crowd)
  BY <1>1, <1>5, <1>6 DEF ZeroInv
<1>14. FlightInv(t, u)
  <2> SUFFICES ASSUME NEW x \in Presets, s.inFlight[x] # NoWrite
               PROVE \E y \in PresetOps :
                       /\ s.inFlight[x].op = y
                       /\ \/ u[y].preset = x /\ Underway(u[y]) /\ s.inFlight[x].value = u[y].value
                          \/ /\ u[y].pc = "flushing" /\ u[y].at = x /\ s.inFlight[x].value = u[y].seen
                             /\ \E i \in DOMAIN t.chain[x] : t.chain[x][i].op = y
    BY <1>2 DEF FlightInv
  <2>1. PICK y \in PresetOps :
          /\ s.inFlight[x].op = y
          /\ \/ q[y].preset = x /\ Underway(q[y]) /\ s.inFlight[x].value = q[y].value
             \/ /\ q[y].pc = "flushing" /\ q[y].at = x /\ s.inFlight[x].value = q[y].seen
                /\ \E i \in DOMAIN s.chain[x] : s.chain[x][i].op = y
    BY <1>1 DEF FlightInv
  <2>2. (\E i \in DOMAIN s.chain[x] : s.chain[x][i].op = y) => \E i \in DOMAIN t.chain[x] : t.chain[x][i].op = y
    BY <1>5, <1>6
  <2>3. y # o
    BY <1>2, <2>1 DEF Underway
  <2> QED BY <1>2, <2>1, <2>2, <2>3 DEF Others
<1>15. GoneInv(st, t, u, dis, set)
  <2> SUFFICES ASSUME NEW x \in set
               PROVE /\ x \in dis /\ t.memory[x] = 0 /\ NoRestore(t, u, x) /\ Erased(st, t, x)
                     /\ \A y \in PresetOps : u[y].preset = x =>
                          /\ ~Underway(u[y])
                          /\ u[y].pc \in {"updating", "updateRead"} => Cleared(st, t, x)
                          /\ u[y].pc = "updateRead" => u[y].seen = 0
    BY DEF GoneInv
  <2>1. x \in Presets /\ x \in dis /\ s.memory[x] = 0 /\ NoRestore(s, q, x) /\ Erased(st, s, x)
    BY <1>1 DEF GoneInv
  <2>3. ASSUME NEW y \in PresetOps, u[y].preset = x
        PROVE /\ ~Underway(u[y])
              /\ u[y].pc \in {"updating", "updateRead"} => Cleared(st, t, x)
              /\ u[y].pc = "updateRead" => u[y].seen = 0
    <3>1. CASE y = o
      BY <1>2, <3>1 DEF Underway
    <3>2. CASE y # o
      <4>1. u[y] = q[y]
        BY <1>2, <3>2 DEF Others
      <4>2. /\ ~Underway(q[y])
            /\ q[y].pc \in {"updating", "updateRead"} => Cleared(st, s, x)
            /\ q[y].pc = "updateRead" => q[y].seen = 0
        BY <1>1, <2>3, <4>1 DEF GoneInv
      <4> QED BY <1>11, <2>1, <4>1, <4>2
    <3> QED BY <3>1, <3>2
  <2> QED BY <1>2, <1>10, <1>11, <2>1, <2>3
<1> QED BY <1>1, <1>4, <1>8, <1>9, <1>12, <1>13, <1>14, <1>15 DEF Good

\* The answer of a deletion: success removes the tombstone, failure leaves it.
DeleteAnswered(s, t, q, u, o, p, dis, gone, set, done, crowd, ok) ==
  /\ HeadAnswered(s, t, q, u, o, p) /\ q[o].pc = "deleting" /\ q[o].preset = p
  /\ u[o].pc = "done" /\ u[o].preset = p
  /\ t.pending = s.pending /\ t.inFlight = s.inFlight /\ t.gen = s.gen /\ t.token = s.token /\ t.last = s.last
  /\ t.memory = [s.memory EXCEPT ![p] = 0]
  /\ t.tombs = (IF ok THEN s.tombs \ {p} ELSE s.tombs)
  /\ ok => s.chain[p][1].state = "applied"
  /\ gone = dis \cup {p}
  /\ done = (IF p \notin crowd THEN set \cup {p} ELSE set)

LEMMA DeleteAnsweredGood ==
  ASSUME NEW st, NEW s, NEW t \in PresetMaps, NEW q, NEW u, NEW dis, NEW gone, NEW set, NEW done, NEW crowd,
         NEW o \in PresetOps, NEW p \in Presets, NEW ok \in BOOLEAN,
         Good(st, s, q, dis, set, crowd), RequestTypes(u),
         DeleteAnswered(s, t, q, u, o, p, dis, gone, set, done, crowd, ok)
  PROVE Good(st, t, u, gone, done, crowd)
<1>1. /\ Base(st, s, q) /\ st \in [Presets -> Nat] /\ s \in PresetMaps /\ RequestTypes(q)
      /\ StayInv(st, s, q, dis) /\ UncrowdedInv(st, s, q, dis, set, crowd)
      /\ ZeroInv(s, set, crowd) /\ FlightInv(s, q) /\ GoneInv(st, s, q, dis, set) /\ AloneInv(q, crowd)
      /\ set \subseteq Presets /\ dis \subseteq Presets /\ crowd \subseteq Presets /\ TokenInv(s, q)
  BY DEF Good, Base
<1>2. /\ HeadAnswered(s, t, q, u, o, p) /\ q[o].pc = "deleting" /\ q[o].preset = p /\ Others(q, u, o)
      /\ u[o].pc = "done" /\ u[o].preset = p
      /\ t.pending = s.pending /\ t.inFlight = s.inFlight /\ t.gen = s.gen /\ t.token = s.token /\ t.last = s.last
      /\ t.tombs \in {s.tombs, s.tombs \ {p}}
      /\ t.tombs # s.tombs => s.chain[p][1].state = "applied"
  BY DEF DeleteAnswered, HeadAnswered
<1>3. t.memory[p] = 0 /\ \A x \in Presets : x # p => t.memory[x] = s.memory[x]
  BY <1>1 DEF DeleteAnswered, PresetMaps
<1>4. /\ gone = dis \cup {p} /\ gone \subseteq Presets
      /\ set \subseteq done /\ done \subseteq set \cup {p} /\ done \subseteq Presets
      /\ p \notin crowd => p \in done
      /\ p \in done \ set => p \notin crowd
  BY <1>1 DEF DeleteAnswered
<1>5. ChainShortened(st, s, t, q, o, p)
  BY <1>1, <1>2, AnsweredChain
<1>6. /\ s.chain[p][1].value = 0
      /\ s.chain[p] \in Seq(PresetWrites) /\ s.chain[p] # <<>>
      /\ s.chain[p][1].op = o /\ 1 \in DOMAIN s.chain[p] /\ t.chain[p] = Tail(s.chain[p])
      /\ \A x \in Presets : x # p => t.chain[x] = s.chain[x]
  BY <1>2, <1>5 DEF ChainShortened, Owned
<1>7. \A x \in Presets : (AllZero(s.chain[x]) => AllZero(t.chain[x])) /\ (Zeros(s.chain[x]) => Zeros(t.chain[x]))
  BY <1>6, PoppedZeros
<1>8. Base(st, t, u)
  <2>1. \A x \in Presets : Accepted(q, o, x) => Accepted(u, o, x)
    BY <1>2 DEF Accepted
  <2>2. ASSUME NEW x \in Presets
        PROVE /\ t.memory[x] \in {0, s.memory[x]}
              /\ t.token[x] \in {NoOp, s.token[x]} /\ t.gen[x] >= s.gen[x]
              /\ t.pending[x] # 0 =>
                   /\ t.token[x] # NoOp
                   /\ t.pending[x] = s.pending[x]
                        \/ (t.pending[x] = s.last[x] /\ Unclaimed(q, o, s.token[x], x))
    <3>0. s.gen[x] \in Nat
      BY <1>1 DEF PresetMaps
    <3>1. s.pending[x] # 0 => s.token[x] # NoOp
      BY <1>1 DEF TokenInv
    <3> QED BY <1>2, <1>3, <3>0, <3>1
  <2>3. u[o].pc \notin {"writing", "flushing"} /\ t.last = s.last
    BY <1>2
  <2> QED BY <1>1, <1>2, <2>1, <2>2, <2>3, AnsweredBase
<1>9. ASSUME NEW x \in Presets, Leaving(s, q, dis, x) PROVE Leaving(t, u, gone, x)
  <2>1. s.memory[x] # 0 => t.memory[x] # 0 \/ x \in gone
    BY <1>3, <1>4
  <2>2. Dooms(s, q[o], x) => x \in gone
    BY <1>2, <1>4 DEF Dooms
  <2> QED BY <1>1, <1>2, <1>4, <1>9, <2>1, <2>2, StillLeaving
<1>10. StayInv(st, t, u, gone)
  <2> SUFFICES ASSUME NEW x \in Presets, ~Leaving(t, u, gone, x)
               PROVE /\ x \notin t.tombs /\ t.gen[x] = 0
                     /\ \A y \in PresetOps : Calm(t, u[y], x)
                     /\ Newest(st, t, u, x)
    BY DEF StayInv
  <2>1. /\ x \notin s.tombs /\ s.gen[x] = 0
        /\ \A y \in PresetOps : Calm(s, q[y], x)
        /\ Newest(st, s, q, x)
    BY <1>1, <1>9 DEF StayInv
  <2>2. x # p
    BY <1>4 DEF Leaving
  <2>3. t.memory[x] = s.memory[x] /\ t.chain[x] = s.chain[x]
    BY <1>3, <1>6, <2>2
  <2>4. \A y \in PresetOps : Calm(t, u[y], x)
    BY <1>2, <2>1, <2>3 DEF Calm, Others
  <2>5. ASSUME NEW y \in PresetOps, Carries(s, q, x, y) PROVE Carries(t, u, x, y)
    <3>1. y # o
      BY <1>2, <2>5 DEF Carries
    <3> QED BY <1>2, <2>3, <2>5, <3>1 DEF Carries, Others
  <2>6. Newest(st, t, u, x)
    BY <1>2, <2>1, <2>3, <2>5 DEF Newest
  <2>7. x \notin t.tombs /\ t.gen[x] = 0
    BY <1>2, <2>1
  <2> QED BY <2>4, <2>6, <2>7
<1>11. AloneInv(u, crowd)
  BY <1>1, <1>2, AloneKeep
<1>12. \A x \in Presets : /\ NoRestore(s, q, x) => NoRestore(t, u, x)
                          /\ Cleared(st, s, x) => Cleared(st, t, x)
                          /\ x # p \/ x \notin s.tombs \ t.tombs => (Erased(st, s, x) => Erased(st, t, x))
  <2>1. \A x \in Presets : NoRestore(s, q, x) => NoRestore(t, u, x)
    BY <1>2 DEF NoRestore, Others
  <2>2. \A x \in Presets : Cleared(st, s, x) => Cleared(st, t, x)
    BY <1>2, <1>7 DEF Cleared
  <2>3. \A x \in Presets : x # p \/ x \notin s.tombs \ t.tombs => (Erased(st, s, x) => Erased(st, t, x))
    BY <1>2, <2>2 DEF Erased
  <2> QED BY <2>1, <2>2, <2>3
<1>13. Removing(q, p)
  BY <1>2 DEF Removing, Removes
<1>14. ASSUME p \notin crowd \/ p \in set PROVE NoRestore(t, u, p) /\ Erased(st, t, p)
  <2>1. NoRestore(s, q, p) /\ Erased(st, s, p)
    <3>1. CASE p \in set
      BY <1>1, <3>1 DEF GoneInv
    <3>2. CASE p \notin crowd
      BY <1>1, <1>2, <1>13, <3>2 DEF UncrowdedInv
    <3> QED BY <1>14, <3>1, <3>2
  <2>2. CASE p \in s.tombs \ t.tombs
    <3>1. s.chain[p][1].state = "applied" /\ t.inFlight = s.inFlight
      BY <1>2, <2>2
    <3>2. Cleared(st, t, p)
      BY <1>2, <1>6, <1>13, <1>14, <3>1, ErasedCleared
    <3> QED BY <1>12, <2>1, <3>2 DEF Erased
  <2>3. CASE p \notin s.tombs \ t.tombs
    BY <1>12, <2>1, <2>3
  <2> QED BY <2>2, <2>3
<1>15. UncrowdedInv(st, t, u, gone, done, crowd)
  <2> SUFFICES ASSUME NEW x \in Presets \ crowd
               PROVE /\ t.memory[x] = 0 \/ Removing(u, x) => NoRestore(t, u, x)
                     /\ x \in gone => x \in done
                     /\ \A y \in PresetOps : u[y].preset = x =>
                          /\ u[y].pc = "writing" => t.memory[x] # 0
                          /\ u[y].pc \in {"removing", "removeRead"} =>
                               (t.memory[x] # 0 => u[y].had) /\ (u[y].had => Erased(st, t, x))
                          /\ u[y].pc = "deleting" => Erased(st, t, x)
    BY DEF UncrowdedInv
  <2>0. x \in gone => x \in done
    <3>1. x \in dis => x \in set
      BY <1>1 DEF UncrowdedInv
    <3> QED BY <1>4, <3>1
  <2>1. CASE x = p
    <3>1. q[o].pc \notin {"idle", "done"} /\ q[o].preset = p
      BY <1>2
    <3>2. \A y \in PresetOps : y # o /\ q[y].preset = p => q[y].pc \in {"idle", "done"}
      BY <1>1, <2>1, <3>1, AloneWith
    <3>3. \A y \in PresetOps : u[y].preset = p => u[y].pc \in {"idle", "done"}
      BY <1>2, <3>2 DEF Others
    <3> QED BY <1>14, <2>0, <2>1, <3>3
  <2>2. CASE x # p
    <3>1. Removing(u, x) => Removing(q, x)
      BY <1>2, <2>2 DEF Removing, Others
    <3>2. t.memory[x] = 0 \/ Removing(u, x) => NoRestore(t, u, x)
      BY <1>1, <1>3, <1>12, <2>2, <3>1 DEF UncrowdedInv
    <3>3. ASSUME NEW y \in PresetOps, u[y].preset = x
          PROVE /\ u[y].pc = "writing" => t.memory[x] # 0
                /\ u[y].pc \in {"removing", "removeRead"} =>
                     (t.memory[x] # 0 => u[y].had) /\ (u[y].had => Erased(st, t, x))
                /\ u[y].pc = "deleting" => Erased(st, t, x)
      <4>1. u[y] = q[y]
        BY <1>2, <2>2, <3>3 DEF Others
      <4> QED BY <1>1, <1>3, <1>12, <2>2, <3>3, <4>1 DEF UncrowdedInv
    <3> QED BY <2>0, <3>2, <3>3
  <2> QED BY <2>1, <2>2
<1>16. ZeroInv(t, done, crowd)
  BY <1>1, <1>4, <1>7 DEF ZeroInv
<1>17. FlightInv(t, u)
  <2> SUFFICES ASSUME NEW x \in Presets, s.inFlight[x] # NoWrite
               PROVE \E y \in PresetOps :
                       /\ s.inFlight[x].op = y
                       /\ \/ u[y].preset = x /\ Underway(u[y]) /\ s.inFlight[x].value = u[y].value
                          \/ /\ u[y].pc = "flushing" /\ u[y].at = x /\ s.inFlight[x].value = u[y].seen
                             /\ \E i \in DOMAIN t.chain[x] : t.chain[x][i].op = y
    BY <1>2 DEF FlightInv
  <2>1. PICK y \in PresetOps :
          /\ s.inFlight[x].op = y
          /\ \/ q[y].preset = x /\ Underway(q[y]) /\ s.inFlight[x].value = q[y].value
             \/ /\ q[y].pc = "flushing" /\ q[y].at = x /\ s.inFlight[x].value = q[y].seen
                /\ \E i \in DOMAIN s.chain[x] : s.chain[x][i].op = y
    BY <1>1 DEF FlightInv
  <2>2. y # o
    BY <1>2, <2>1 DEF Underway
  <2>3. ASSUME NEW i \in DOMAIN s.chain[x], s.chain[x][i].op = y PROVE \E j \in DOMAIN t.chain[x] : t.chain[x][j].op = y
    <3>1. CASE x = p
      <4>1. PICK c \in Seq(PresetWrites) : c = s.chain[p] /\ c # <<>>
        BY <1>6
      <4>2. i # 1 /\ i \in DOMAIN c
        BY <1>6, <2>2, <2>3, <3>1, <4>1
      <4>3. PICK d : d = Tail(c)
        OBVIOUS
      <4>4. i - 1 \in DOMAIN d /\ d[i - 1] = c[i]
        BY <4>1, <4>2, <4>3, Popped
      <4>5. t.chain[x] = d /\ c[i].op = y
        BY <1>6, <2>3, <3>1, <4>1, <4>3
      <4> QED BY <4>4, <4>5
    <3>2. CASE x # p
      BY <1>6, <2>3, <3>2
    <3> QED BY <3>1, <3>2
  <2> QED BY <1>2, <2>1, <2>2, <2>3 DEF Others
<1>18. GoneInv(st, t, u, gone, done)
  <2> SUFFICES ASSUME NEW x \in done
               PROVE /\ x \in gone /\ t.memory[x] = 0 /\ NoRestore(t, u, x) /\ Erased(st, t, x)
                     /\ \A y \in PresetOps : u[y].preset = x =>
                          /\ ~Underway(u[y])
                          /\ u[y].pc \in {"updating", "updateRead"} => Cleared(st, t, x)
                          /\ u[y].pc = "updateRead" => u[y].seen = 0
    BY DEF GoneInv
  <2>1. CASE x \in set
    <3>1. x \in Presets /\ x \in gone /\ s.memory[x] = 0 /\ NoRestore(s, q, x) /\ Erased(st, s, x)
      BY <1>1, <1>4, <2>1 DEF GoneInv
    <3>2. ASSUME NEW y \in PresetOps, u[y].preset = x
          PROVE /\ ~Underway(u[y])
                /\ u[y].pc \in {"updating", "updateRead"} => Cleared(st, t, x)
                /\ u[y].pc = "updateRead" => u[y].seen = 0
      <4>1. CASE y = o
        BY <1>2, <4>1 DEF Underway
      <4>2. CASE y # o
        <5>1. u[y] = q[y]
          BY <1>2, <4>2 DEF Others
        <5>2. /\ ~Underway(q[y])
              /\ q[y].pc \in {"updating", "updateRead"} => Cleared(st, s, x)
              /\ q[y].pc = "updateRead" => q[y].seen = 0
          BY <1>1, <2>1, <3>2, <5>1 DEF GoneInv
        <5> QED BY <1>12, <3>1, <5>1, <5>2
      <4> QED BY <4>1, <4>2
    <3>3. t.memory[x] = 0
      BY <1>3, <3>1
    <3>4. NoRestore(t, u, x) /\ Erased(st, t, x)
      BY <1>12, <1>14, <2>1, <3>1
    <3> QED BY <3>1, <3>2, <3>3, <3>4
  <2>2. CASE x \notin set
    <3>1. x = p /\ p \in gone /\ p \notin crowd
      BY <1>4, <2>2
    <3>2. q[o].pc \notin {"idle", "done"} /\ q[o].preset = p
      BY <1>2
    <3>3. \A y \in PresetOps : y # o /\ q[y].preset = p => q[y].pc \in {"idle", "done"}
      BY <1>1, <3>1, <3>2, AloneWith
    <3>4. \A y \in PresetOps : u[y].preset = p => u[y].pc \in {"idle", "done"}
      BY <1>2, <3>3 DEF Others
    <3> QED BY <1>3, <1>14, <3>1, <3>4 DEF Underway
  <2> QED BY <2>1, <2>2
<1> QED BY <1>1, <1>4, <1>8, <1>10, <1>11, <1>15, <1>16, <1>17, <1>18 DEF Good

-----------------------------------------------------------------------------
(* The operators of the service are made of these moves. *)

RequestOK(r) ==
  /\ r \in PresetRequests
  /\ r.pc # "idle" => r.preset \in Presets
  /\ r.pc \in {"flushing", "untombing"} => r.at \in Presets

\* Only o's record changes.
Replaces(q, u, o, r) == u = [q EXCEPT ![o] = r]

LEMMA Replaced ==
  ASSUME NEW q, NEW o \in PresetOps, NEW r, NEW u, RequestTypes(q), RequestOK(r), Replaces(q, u, o, r)
  PROVE RequestTypes(u) /\ u[o] = r /\ Others(q, u, o)
<1>1. q \in [PresetOps -> PresetRequests] /\ u = [q EXCEPT ![o] = r]
  BY DEF RequestTypes, Replaces
<1>2. u[o] = r /\ Others(q, u, o) /\ u \in [PresetOps -> PresetRequests]
  BY <1>1 DEF Others, RequestOK
<1>3. ASSUME NEW x \in PresetOps
      PROVE /\ u[x].pc # "idle" => u[x].preset \in Presets
            /\ u[x].pc \in {"flushing", "untombing"} => u[x].at \in Presets
  <2>1. CASE x = o
    BY <1>2, <2>1 DEF RequestOK
  <2>2. CASE x # o
    BY <1>2, <2>2 DEF RequestTypes, Others
  <2> QED BY <2>1, <2>2
<1> QED BY <1>2, <1>3 DEF RequestTypes

LEMMA ReplacedTwice ==
  ASSUME NEW q, NEW u, NEW w, NEW o \in PresetOps, NEW r, NEW x, RequestTypes(q), RequestOK(r),
         Replaces(q, u, o, r), Replaces(q, w, o, x)
  PROVE Replaces(u, w, o, x)
  BY DEF Replaces, RequestTypes, RequestOK

LEMMA EnqueueFields ==
  ASSUME NEW s \in PresetMaps, NEW t, NEW p \in Presets, NEW o \in PresetOps, NEW v \in Nat, t = EnqueueWrite(s, p, o, v)
  PROVE /\ t \in PresetMaps /\ Enqueued(s, t, p, o, v)
        /\ t.memory = s.memory /\ t.pending = s.pending /\ t.inFlight = s.inFlight /\ t.tombs = s.tombs
        /\ t.gen = s.gen /\ t.token = s.token /\ t.last = s.last
<1>1. PICK e \in PresetWrites : e = NewWrite(o, v) /\ t = [s EXCEPT !.chain[p] = Append(@, e)]
  <2>1. NewWrite(o, v) \in PresetWrites
    BY DEF NewWrite, PresetWrites
  <2>2. t = [s EXCEPT !.chain[p] = Append(@, NewWrite(o, v))]
    BY DEF EnqueueWrite, NewWrite
  <2> QED BY <2>1, <2>2
<1>2. s.chain \in [Presets -> Seq(PresetWrites)]
  BY DEF PresetMaps
<1>3. PICK c : c = [s.chain EXCEPT ![p] = Append(@, e)]
  OBVIOUS
<1>4. c \in [Presets -> Seq(PresetWrites)]
  BY <1>2, <1>3
<1>5. t = [s EXCEPT !.chain = c]
  BY <1>1, <1>3
<1>6. t.chain = c /\ t \in PresetMaps
  BY <1>4, <1>5 DEF PresetMaps
<1>7. /\ t.memory = s.memory /\ t.pending = s.pending /\ t.inFlight = s.inFlight /\ t.tombs = s.tombs
      /\ t.gen = s.gen /\ t.token = s.token /\ t.last = s.last
  BY <1>5 DEF PresetMaps
<1> QED BY <1>1, <1>3, <1>6, <1>7 DEF Enqueued

LEMMA EndedRequest ==
  ASSUME NEW p \in Presets, NEW r, r = [IdleRequest EXCEPT !.pc = "done", !.preset = p]
  PROVE RequestOK(r) /\ r.pc = "done" /\ r.preset = p
<1>1. PICK e \in SUBSET Presets : e = {}
  OBVIOUS
<1>2. PICK n \in Presets \cup {NoOp} : n = NoOp
  OBVIOUS
<1>6. PICK k \in PresetOps \cup {NoOp} : k = NoOp
  OBVIOUS
<1>7. PICK b \in BOOLEAN : b = FALSE
  OBVIOUS
<1>3. r = [pc |-> "done", preset |-> p, gen |-> 0, seen |-> 0, had |-> b, todo |-> e, at |-> n,
           token |-> k, value |-> 0]
  BY <1>1, <1>2, <1>6, <1>7 DEF IdleRequest, GonePreset
<1>4. r \in PresetRequests
  BY <1>3 DEF PresetRequests, PresetPcs
<1>5. r.pc = "done" /\ r.preset = p
  BY <1>3
<1> QED BY <1>4, <1>5 DEF RequestOK

LEMMA EndGood ==
  ASSUME NEW st, NEW s, NEW q, NEW u, NEW dis, NEW set, NEW crowd, NEW o \in PresetOps, NEW r, RequestOK(r),
         r.pc # "idle", Good(st, s, q, dis, set, crowd), q[o].pc = "turning", q[o].preset = r.preset,
         q[o].value = r.value, NEW y \in WriteEnded(s, o, r), Replaces(q, u, o, y.r)
  PROVE Good(st, y.s, u, dis, set, crowd)
<1>1. s \in PresetMaps /\ RequestTypes(q) /\ r \in PresetRequests /\ r.preset \in Presets
  BY DEF Good, Base, RequestOK
<1>2. PICK p \in Presets : p = r.preset
  BY <1>1
<1>3. /\ y.s = [s EXCEPT !.inFlight[p] = IF @ = [op |-> o, value |-> r.value] THEN NoWrite ELSE @]
      /\ y.r = [IdleRequest EXCEPT !.pc = "done", !.preset = p]
  BY <1>2 DEF WriteEnded
<1>4. s.inFlight \in [Presets -> PresetFlights] /\ NoWrite \in PresetFlights
  BY <1>1 DEF PresetMaps, NoWrite, PresetFlights, GonePreset
<1>5. PICK f : f = [s.inFlight EXCEPT ![p] = IF @ = [op |-> o, value |-> r.value] THEN NoWrite ELSE @]
  OBVIOUS
<1>6. f \in [Presets -> PresetFlights]
  BY <1>4, <1>5
<1>7. PICK t : t = y.s
  OBVIOUS
<1>8. t = [s EXCEPT !.inFlight = f]
  BY <1>3, <1>5, <1>7
<1>9. /\ t \in PresetMaps /\ t.inFlight = f
      /\ t.memory = s.memory /\ t.pending = s.pending /\ t.tombs = s.tombs /\ t.gen = s.gen
      /\ t.token = s.token /\ t.chain = s.chain /\ t.last = s.last
  BY <1>1, <1>6, <1>8 DEF PresetMaps
<1>10. RequestOK(y.r) /\ y.r.pc = "done" /\ y.r.preset = p
  BY <1>3, EndedRequest
<1>11. RequestTypes(u) /\ u[o] = y.r /\ Others(q, u, o)
  BY <1>1, <1>10, Replaced
<1>12. WriteEnds(s, t, q, u, o)
  BY <1>2, <1>5, <1>9, <1>10, <1>11 DEF WriteEnds
<1>13. Good(st, t, u, dis, set, crowd)
  BY <1>9, <1>11, <1>12, WriteEndsGood
<1> QED BY <1>7, <1>13

LEMMA FlushPresetsGood ==
  ASSUME NEW st, NEW s, NEW q, NEW u, NEW dis, NEW set, NEW crowd, NEW o \in PresetOps, NEW r, RequestOK(r),
         r.pc # "idle", Good(st, s, q, dis, set, crowd), q[o].pc = "turning", q[o].preset = r.preset,
         q[o].value = r.value, NEW todo, todo \subseteq Presets, NEW y \in FlushPresets(s, o, r, todo),
         Replaces(q, u, o, y.r)
  PROVE Good(st, y.s, u, dis, set, crowd)
<1>1. s \in PresetMaps /\ RequestTypes(q) /\ r \in PresetRequests /\ r.preset \in Presets
  BY DEF Good, Base, RequestOK
<1>2. PICK live \in SUBSET Presets : live = {p \in todo : s.pending[p] # 0}
  OBVIOUS
<1>3. CASE live = {}
  <2>1. PICK t : t = [s EXCEPT !.unavailable = WaitingPresets(s) # {} \/ s.tombs # {}]
    OBVIOUS
  <2>2. y \in WriteEnded(t, o, r)
    BY <1>2, <1>3, <2>1 DEF FlushPresets, GonePreset
  <2>3. /\ t \in PresetMaps
        /\ t.memory = s.memory /\ t.pending = s.pending /\ t.inFlight = s.inFlight /\ t.tombs = s.tombs
        /\ t.gen = s.gen /\ t.token = s.token /\ t.chain = s.chain /\ t.last = s.last
    BY <1>1, <2>1 DEF PresetMaps
  <2>4. Good(st, t, q, dis, set, crowd)
    BY <2>3, SameGood
  <2> QED BY <2>2, <2>4, EndGood
<1>4. CASE live # {}
  <2>0. PICK p \in live :
          y = [s |-> EnqueueWrite([s EXCEPT !.pending[p] = 0, !.inFlight[p] = [op |-> o, value |-> s.pending[p]]],
                                  p, o, s.pending[p]),
               r |-> [r EXCEPT !.pc = "flushing", !.at = p, !.todo = todo \ {p}, !.gen = s.gen[p],
                               !.seen = s.pending[p], !.token = s.token[p]]]
    BY <1>2, <1>4 DEF FlushPresets, GonePreset
  <2>1. /\ y.s = EnqueueWrite([s EXCEPT !.pending[p] = 0, !.inFlight[p] = [op |-> o, value |-> s.pending[p]]],
                              p, o, s.pending[p])
        /\ y.r = [r EXCEPT !.pc = "flushing", !.at = p, !.todo = todo \ {p}, !.gen = s.gen[p],
                           !.seen = s.pending[p], !.token = s.token[p]]
    BY <2>0
  <2>2. p \in Presets /\ s.pending[p] # 0
    BY <1>2, <2>1
  <2>3. s.pending[p] \in Nat /\ s.gen[p] \in Nat /\ s.token[p] \in PresetOps \cup {NoOp}
    BY <1>1, <2>2 DEF PresetMaps
  <2>4. PICK g : g = [s.pending EXCEPT ![p] = 0]
    OBVIOUS
  <2>5. PICK f : f = [s.inFlight EXCEPT ![p] = [op |-> o, value |-> s.pending[p]]]
    OBVIOUS
  <2>6. g \in [Presets -> Nat] /\ f \in [Presets -> PresetFlights]
    <3>1. s.pending \in [Presets -> Nat] /\ s.inFlight \in [Presets -> PresetFlights]
      BY <1>1 DEF PresetMaps
    <3>2. [op |-> o, value |-> s.pending[p]] \in PresetFlights
      BY <2>3 DEF PresetFlights
    <3> QED BY <2>4, <2>5, <3>1, <3>2
  <2>7. PICK a : a = [s EXCEPT !.pending = g, !.inFlight = f]
    OBVIOUS
  <2>8. /\ a \in PresetMaps /\ a.pending = g /\ a.inFlight = f
        /\ a.memory = s.memory /\ a.tombs = s.tombs /\ a.gen = s.gen
        /\ a.token = s.token /\ a.chain = s.chain /\ a.last = s.last
    BY <1>1, <2>6, <2>7 DEF PresetMaps
  <2>9. y.s = EnqueueWrite(a, p, o, s.pending[p])
    <3>1. a = [s EXCEPT !.pending[p] = 0, !.inFlight[p] = [op |-> o, value |-> s.pending[p]]]
      BY <1>1, <2>4, <2>5, <2>7 DEF PresetMaps
    <3> QED BY <2>1, <3>1
  <2>10. PICK t : t = y.s
    OBVIOUS
  <2>11. /\ t \in PresetMaps /\ Enqueued(a, t, p, o, s.pending[p])
         /\ t.memory = s.memory /\ t.pending = g /\ t.inFlight = f /\ t.tombs = s.tombs
         /\ t.gen = s.gen /\ t.token = s.token /\ t.last = s.last
    <3>1. t = EnqueueWrite(a, p, o, s.pending[p]) /\ a \in PresetMaps
      BY <2>8, <2>9, <2>10
    <3>2. /\ t \in PresetMaps /\ Enqueued(a, t, p, o, s.pending[p])
          /\ t.memory = a.memory /\ t.pending = a.pending /\ t.inFlight = a.inFlight /\ t.tombs = a.tombs
          /\ t.gen = a.gen /\ t.token = a.token /\ t.last = a.last
      BY <2>2, <2>3, <3>1, EnqueueFields
    <3> QED BY <2>8, <3>2
  <2>12. Enqueued(s, t, p, o, s.pending[p])
    BY <2>8, <2>11 DEF Enqueued
  <2>13. /\ RequestOK(y.r) /\ y.r.pc = "flushing" /\ y.r.at = p /\ y.r.gen = s.gen[p] /\ y.r.seen = s.pending[p]
         /\ y.r.token = s.token[p] /\ y.r.preset = r.preset /\ y.r.value = r.value
    <3>1. todo \ {p} \in SUBSET Presets
      OBVIOUS
    <3> QED BY <1>1, <2>1, <2>2, <2>3, <3>1 DEF RequestOK, PresetRequests, PresetPcs
  <2>14. RequestTypes(u) /\ u[o] = y.r /\ Others(q, u, o)
    BY <1>1, <2>13, Replaced
  <2>15. Flushes(s, t, q, u, o, p)
    BY <2>2, <2>4, <2>5, <2>11, <2>12, <2>13, <2>14 DEF Flushes
  <2>16. Good(st, t, u, dis, set, crowd)
    BY <2>2, <2>11, <2>14, <2>15, FlushesGood
  <2> QED BY <2>10, <2>16
<1> QED BY <1>3, <1>4

LEMMA FlushDeletesGood ==
  ASSUME NEW st, NEW s, NEW q, NEW u, NEW dis, NEW set, NEW crowd, NEW o \in PresetOps, NEW r, RequestOK(r),
         r.pc # "idle", Good(st, s, q, dis, set, crowd), q[o].pc = "turning", q[o].preset = r.preset,
         q[o].value = r.value, NEW todo, todo \subseteq Presets, \A x \in todo : Leaving(s, q, dis, x),
         NEW y \in FlushDeletes(s, o, r, todo), Replaces(q, u, o, y.r)
  PROVE Good(st, y.s, u, dis, set, crowd)
<1>1. s \in PresetMaps /\ RequestTypes(q) /\ r \in PresetRequests /\ r.preset \in Presets
  BY DEF Good, Base, RequestOK
<1>2. CASE todo = {}
  <2>1. y \in FlushPresets(s, o, r, WaitingPresets(s)) /\ WaitingPresets(s) \subseteq Presets
    BY <1>2 DEF FlushDeletes, WaitingPresets
  <2> QED BY <2>1, FlushPresetsGood
<1>3. CASE todo # {}
  <2>0. PICK p \in todo : y = [s |-> EnqueueWrite(s, p, o, 0),
                               r |-> [r EXCEPT !.pc = "untombing", !.at = p, !.todo = todo \ {p}]]
    BY <1>3 DEF FlushDeletes, GonePreset
  <2>1. y.s = EnqueueWrite(s, p, o, 0) /\ y.r = [r EXCEPT !.pc = "untombing", !.at = p, !.todo = todo \ {p}]
    BY <2>0
  <2>2. PICK t : t = y.s
    OBVIOUS
  <2>3. /\ t \in PresetMaps /\ Enqueued(s, t, p, o, 0)
        /\ t.memory = s.memory /\ t.pending = s.pending /\ t.inFlight = s.inFlight /\ t.tombs = s.tombs
        /\ t.gen = s.gen /\ t.token = s.token /\ t.last = s.last
    BY <1>1, <2>1, <2>2, EnqueueFields
  <2>4. /\ RequestOK(y.r) /\ y.r.pc = "untombing" /\ y.r.at = p /\ y.r.todo = todo \ {p}
        /\ y.r.preset = r.preset /\ y.r.value = r.value
    <3>1. todo \ {p} \in SUBSET Presets
      OBVIOUS
    <3> QED BY <1>1, <2>1, <3>1 DEF RequestOK, PresetRequests, PresetPcs
  <2>5. RequestTypes(u) /\ u[o] = y.r /\ Others(q, u, o)
    BY <1>1, <2>4, Replaced
  <2>6. Untombs(s, t, q, u, o, p)
    BY <2>3, <2>4, <2>5 DEF Untombs
  <2>7. Good(st, t, u, dis, set, crowd)
    BY <2>1, <2>3, <2>4, <2>5, <2>6, UntombsGood
  <2> QED BY <2>2, <2>7
<1> QED BY <1>2, <1>3

LEMMA PersistGood ==
  ASSUME NEW st, NEW s, NEW q, NEW u, NEW dis, NEW set, NEW crowd, NEW o \in PresetOps, NEW r, RequestOK(r),
         NEW p \in Presets, r.preset = p, r.pc # "flushing", Good(st, s, q, dis, set, crowd),
         q[o].pc \in {"updating", "updateRead"},
         q[o].preset = p, q[o].gen = r.gen, p \notin s.tombs, p \notin set, NEW online \in BOOLEAN,
         NEW y \in PersistPreset(s, o, r, online), Replaces(q, u, o, y.r)
  PROVE Good(st, y.s, u, dis, set, crowd)
<1>1. s \in PresetMaps /\ RequestTypes(q) /\ r \in PresetRequests
  BY DEF Good, Base, RequestOK
<1>2. PICK v \in Nat : v = s.last[p] + 1
  BY <1>1 DEF PresetMaps
<1>3. PICK m \in [Presets -> Nat] : m = [s.memory EXCEPT ![p] = v]
  BY <1>1 DEF PresetMaps
<1>4. PICK l \in [Presets -> Nat] : l = [s.last EXCEPT ![p] = v]
  BY <1>1 DEF PresetMaps
<1>5. PICK k \in [Presets -> PresetOps \cup {NoOp}] : k = [s.token EXCEPT ![p] = o]
  BY <1>1 DEF PresetMaps
<1>6. PICK b \in SUBSET Presets : b = s.tombs \ {p}
  BY <1>1 DEF PresetMaps
<1>7. PICK a : a = [s EXCEPT !.memory[p] = v, !.last[p] = v, !.token[p] = o, !.tombs = @ \ {p}]
  OBVIOUS
<1>8. a = [s EXCEPT !.memory = m, !.last = l, !.token = k, !.tombs = b]
  BY <1>1, <1>3, <1>4, <1>5, <1>6, <1>7 DEF PresetMaps
<1>9. /\ a \in PresetMaps /\ a.memory = m /\ a.last = l /\ a.token = k /\ a.tombs = b
      /\ a.gen = s.gen /\ a.pending = s.pending /\ a.inFlight = s.inFlight /\ a.chain = s.chain
  BY <1>1, <1>8 DEF PresetMaps
<1>10. CASE online
  <2>1. y = [s |-> EnqueueWrite([a EXCEPT !.pending[p] = 0, !.inFlight[p] = [op |-> o, value |-> v]], p, o, v),
             r |-> [r EXCEPT !.pc = "writing", !.value = v]]
    BY <1>2, <1>7, <1>10 DEF PersistPreset, GonePreset
  <2>2. PICK g \in [Presets -> Nat] : g = [s.pending EXCEPT ![p] = 0]
    BY <1>1 DEF PresetMaps
  <2>3. PICK f \in [Presets -> PresetFlights] : f = [s.inFlight EXCEPT ![p] = [op |-> o, value |-> v]]
    <3>1. [op |-> o, value |-> v] \in PresetFlights /\ s.inFlight \in [Presets -> PresetFlights]
      BY <1>1 DEF PresetFlights, PresetMaps
    <3> QED BY <3>1
  <2>4. PICK c : c = [a EXCEPT !.pending[p] = 0, !.inFlight[p] = [op |-> o, value |-> v]]
    OBVIOUS
  <2>5. c = [a EXCEPT !.pending = g, !.inFlight = f]
    BY <1>9, <2>2, <2>3, <2>4 DEF PresetMaps
  <2>6. /\ c \in PresetMaps /\ c.memory = m /\ c.last = l /\ c.token = k /\ c.tombs = b
        /\ c.gen = s.gen /\ c.pending = g /\ c.inFlight = f /\ c.chain = s.chain
    BY <1>9, <2>5 DEF PresetMaps
  <2>7. PICK t : t = EnqueueWrite(c, p, o, v)
    OBVIOUS
  <2>8. /\ t \in PresetMaps /\ Enqueued(c, t, p, o, v)
        /\ t.memory = c.memory /\ t.pending = c.pending /\ t.inFlight = c.inFlight /\ t.tombs = c.tombs
        /\ t.gen = c.gen /\ t.token = c.token /\ t.last = c.last
    BY <2>6, <2>7, EnqueueFields
  <2>9. Enqueued(s, t, p, o, v)
    BY <2>6, <2>8 DEF Enqueued
  <2>10. y.s = t /\ y.r = [r EXCEPT !.pc = "writing", !.value = v]
    BY <2>1, <2>4, <2>7
  <2>11. RequestOK(y.r) /\ y.r.pc = "writing" /\ y.r.value = v /\ y.r.gen = r.gen /\ y.r.preset = p
    <3>1. PICK d : d = y.r
      OBVIOUS
    <3>2. d = [r EXCEPT !.pc = "writing", !.value = v]
      BY <2>10, <3>1
    <3>3. d \in PresetRequests /\ d.pc = "writing" /\ d.value = v /\ d.gen = r.gen /\ d.preset = r.preset
      BY <1>1, <3>2 DEF PresetRequests, PresetPcs
    <3> QED BY <3>1, <3>3 DEF RequestOK
  <2>12. RequestTypes(u) /\ u[o] = y.r /\ Others(q, u, o)
    BY <1>1, <2>11, Replaced
  <2>13. Accepts(s, t, q, u, o, p)
    BY <1>2, <1>3, <1>4, <1>5, <1>6, <2>2, <2>3, <2>6, <2>8, <2>9, <2>11, <2>12 DEF Accepts
  <2>14. Good(st, t, u, dis, set, crowd)
    BY <2>8, <2>12, <2>13, AcceptsGood
  <2> QED BY <2>10, <2>14
<1>11. CASE ~online
  <2>1. y = [s |-> [a EXCEPT !.pending[p] = v], r |-> RequestEnded(r)]
    BY <1>2, <1>7, <1>11 DEF PersistPreset
  <2>2. PICK g \in [Presets -> Nat] : g = [s.pending EXCEPT ![p] = v]
    BY <1>1 DEF PresetMaps
  <2>4. PICK t : t = [a EXCEPT !.pending[p] = v]
    OBVIOUS
  <2>5. t = [a EXCEPT !.pending = g]
    BY <1>9, <2>2, <2>4 DEF PresetMaps
  <2>6. /\ t \in PresetMaps /\ t.memory = m /\ t.last = l /\ t.token = k /\ t.tombs = b
        /\ t.gen = s.gen /\ t.pending = g /\ t.inFlight = s.inFlight /\ t.chain = s.chain
    BY <1>9, <2>5 DEF PresetMaps
  <2>10. y.s = t /\ y.r = [IdleRequest EXCEPT !.pc = "done", !.preset = p]
    BY <2>1, <2>4 DEF RequestEnded
  <2>11. RequestOK(y.r) /\ y.r.pc = "done" /\ y.r.preset = p
    BY <2>10, EndedRequest
  <2>12. RequestTypes(u) /\ u[o] = y.r /\ Others(q, u, o)
    BY <1>1, <2>11, Replaced
  <2>13. Accepts(s, t, q, u, o, p)
    BY <1>2, <1>3, <1>4, <1>5, <1>6, <2>2, <2>6, <2>11, <2>12 DEF Accepts
  <2>14. Good(st, t, u, dis, set, crowd)
    BY <2>6, <2>12, <2>13, AcceptsGood
  <2> QED BY <2>10, <2>14
<1> QED BY <1>10, <1>11

\* A request that has not issued a write ends.
LEMMA RefusedGood ==
  ASSUME NEW st, NEW s, NEW q, NEW u, NEW dis, NEW set, NEW crowd, NEW o \in PresetOps, NEW p \in Presets,
         Good(st, s, q, dis, set, crowd), q[o].pc \in {"idle", "updating", "updateRead"}, NEW r,
         RequestOK(r), r.pc = "done", r.preset = p, Replaces(q, u, o, r)
  PROVE Good(st, s, u, dis, set, crowd)
<1>1. s \in PresetMaps /\ RequestTypes(q) /\ AloneInv(q, crowd)
  BY DEF Good, Base
<1>2. RequestOK(r) /\ r.pc = "done" /\ r.preset = p
  OBVIOUS
<1>3. RequestTypes(u) /\ u[o] = r /\ Others(q, u, o)
  BY <1>1, <1>2, Replaced
<1>4. AloneInv(u, crowd)
  BY <1>1, <1>2, <1>3, AloneKeep
<1>5. \A x \in Presets :
        /\ Dooms(s, q[o], x) => Dooms(s, u[o], x)
        /\ ~Leaving(s, u, dis, x) => Calm(s, u[o], x)
        /\ u[o].preset = x /\ u[o].pc \in {"removing", "removeRead"} =>
             q[o].preset = x /\ q[o].pc \in {"removing", "removeRead"} /\ u[o].had = q[o].had
        /\ x \in set /\ u[o].preset = x =>
             /\ u[o].pc \in {"updating", "updateRead"} => Cleared(st, s, x)
             /\ u[o].pc = "updateRead" => u[o].seen = 0
  <2>1. \A x \in Presets : ~Dooms(s, q[o], x)
    BY DEF Dooms
  <2>2. \A x \in Presets : Calm(s, u[o], x)
    BY <1>2, <1>3 DEF Calm
  <2> QED BY <1>2, <1>3, <2>1, <2>2
<1>6. u[o].pc = "done"
  BY <1>2, <1>3
<1> QED BY <1>3, <1>4, <1>5, <1>6, QuietGood

LEMMA RequestOver ==
  ASSUME NEW r, r.preset \in Presets
  PROVE /\ RequestOK(RequestEnded(r))
        /\ RequestEnded(r).pc = "done" /\ RequestEnded(r).preset = r.preset
<1>1. PICK d : d = RequestEnded(r)
  OBVIOUS
<1>2. PICK p \in Presets : p = r.preset
  OBVIOUS
<1>3. d = [IdleRequest EXCEPT !.pc = "done", !.preset = p]
  BY <1>1, <1>2 DEF RequestEnded
<1>4. RequestOK(d) /\ d.pc = "done" /\ d.preset = p
  BY <1>3, EndedRequest
<1> QED BY <1>1, <1>2, <1>4

LEMMA UpdateReadGood ==
  ASSUME NEW st, NEW s, NEW q, NEW u, NEW dis, NEW set, NEW crowd, NEW o \in PresetOps, NEW r, RequestOK(r),
         NEW p \in Presets, r.preset = p, r.pc # "flushing", Good(st, s, q, dis, set, crowd),
         q[o].pc \in {"updating", "updateRead"},
         q[o].preset = p, q[o].gen = r.gen, NEW existing, p \in set => existing = 0, NEW online \in BOOLEAN,
         NEW y \in UpdateAfterRead(s, o, r, existing, online), Replaces(q, u, o, y.r)
  PROVE Good(st, y.s, u, dis, set, crowd)
<1>1. CASE existing = 0 \/ s.gen[p] # r.gen \/ p \in s.tombs
  <2>1. y = [s |-> s, r |-> RequestEnded(r)]
    BY <1>1 DEF UpdateAfterRead, GonePreset
  <2>2. y.s = s /\ y.r = RequestEnded(r)
    BY <2>1
  <2>3. PICK d : d = RequestEnded(r)
    OBVIOUS
  <2>4. RequestOK(d) /\ d.pc = "done" /\ d.preset = p
    BY <2>3, RequestOver
  <2>5. Replaces(q, u, o, d) /\ q[o].pc \in {"idle", "updating", "updateRead"}
    BY <2>2, <2>3
  <2>6. Good(st, s, u, dis, set, crowd)
    BY <2>4, <2>5, RefusedGood
  <2> QED BY <2>2, <2>6
<1>2. CASE ~(existing = 0 \/ s.gen[p] # r.gen \/ p \in s.tombs)
  <2>1. y \in PersistPreset(s, o, r, online)
    BY <1>2 DEF UpdateAfterRead, GonePreset
  <2>2. p \notin s.tombs /\ p \notin set
    BY <1>2
  <2> QED BY <2>1, <2>2, PersistGood
<1> QED BY <1>1, <1>2

-----------------------------------------------------------------------------
(* The actions. *)

\* o starts a request for p: w is crowd, with p if another request for p is under way.
Joins(q, o, p, crowd, w) ==
  /\ crowd \subseteq w /\ w \subseteq Presets
  /\ \A x \in PresetOps : x # o /\ q[x].pc \notin {"idle", "done"} /\ q[x].preset = p => p \in w

LEMMA JoinsAlone ==
  ASSUME NEW q, NEW u, NEW o \in PresetOps, NEW p \in Presets, NEW crowd, NEW w, AloneInv(q, crowd),
         Joins(q, o, p, crowd, w), Others(q, u, o), u[o].preset = p
  PROVE AloneInv(u, w)
  BY DEF AloneInv, Joins, Others

LEMMA MeetJoins ==
  ASSUME NEW o \in PresetOps, NEW p \in Presets, Meet(o, p), crowded \subseteq Presets
  PROVE Joins(request, o, p, crowded, crowded')
  BY DEF Meet, Joins, PresetUnderway

UpdateOf(p, n) == [IdleRequest EXCEPT !.preset = p, !.gen = n]

LEMMA UpdateOfOK ==
  ASSUME NEW p \in Presets, NEW n \in Nat
  PROVE RequestOK(UpdateOf(p, n)) /\ UpdateOf(p, n).pc = "idle" /\ UpdateOf(p, n).preset = p /\ UpdateOf(p, n).gen = n
<1>0. PICK r : r = UpdateOf(p, n)
  OBVIOUS
<1>1. PICK e \in SUBSET Presets : e = {}
  OBVIOUS
<1>2. PICK m \in Presets \cup {NoOp} : m = NoOp
  OBVIOUS
<1>3. PICK k \in PresetOps \cup {NoOp} : k = NoOp
  OBVIOUS
<1>4. PICK b \in BOOLEAN : b = FALSE
  OBVIOUS
<1>5. PICK d : d = [pc |-> "idle", preset |-> p, gen |-> n, seen |-> 0, had |-> b, todo |-> e, at |-> m,
                    token |-> k, value |-> 0]
  OBVIOUS
<1>6. r = d
  <2>1. r = [pc |-> "idle", preset |-> p, gen |-> n, seen |-> 0, had |-> b, todo |-> e, at |-> m,
             token |-> k, value |-> 0]
    BY <1>1, <1>2, <1>3, <1>4, <1>0 DEF IdleRequest, GonePreset, UpdateOf
  <2> QED BY <2>1, <1>5
<1>7. "idle" \in PresetPcs /\ 0 \in Nat
  BY DEF PresetPcs
<1>8. d \in PresetRequests
  BY <1>5, <1>7 DEF PresetRequests
<1>9. d.pc = "idle" /\ d.preset = p /\ d.gen = n
  BY <1>5
<1> QED BY <1>0, <1>6, <1>8, <1>9 DEF RequestOK

\* An update that asks Firestore, or is about to use what it knows itself.
LEMMA UpdateStartsGood ==
  ASSUME NEW st, NEW s, NEW q, NEW u, NEW dis, NEW set, NEW crowd, NEW w, NEW o \in PresetOps, NEW p \in Presets,
         Good(st, s, q, dis, set, crowd), Joins(q, o, p, crowd, w), q[o].pc = "idle", NEW r, RequestOK(r),
         r.pc = "updating", r.preset = p, r.gen = s.gen[p], p \notin s.tombs, Replaces(q, u, o, r)
  PROVE Good(st, s, u, dis, set, w)
<1>1. Good(st, s, q, dis, set, w)
  BY CrowdGood DEF Joins
<1>2. s \in PresetMaps /\ RequestTypes(q) /\ AloneInv(q, crowd) /\ GoneInv(st, s, q, dis, set) /\ StayInv(st, s, q, dis)
  BY DEF Good, Base
<1>3. RequestTypes(u) /\ u[o] = r /\ Others(q, u, o)
  BY <1>2, Replaced
<1>4. AloneInv(u, w)
  BY <1>2, <1>3, JoinsAlone
<1>5. \A x \in Presets : ~Dooms(s, q[o], x)
  BY DEF Dooms
<1>6. ASSUME NEW x \in Presets, ~Leaving(s, u, dis, x) PROVE Calm(s, u[o], x)
  <2>1. ~Leaving(s, q, dis, x)
    BY <1>3, <1>5, <1>6 DEF Leaving, Others
  <2>2. s.gen[x] = 0
    BY <2>1, <1>2 DEF StayInv
  <2>3. r.preset = x => r.gen = 0
    BY <2>2
  <2>4. Calm(s, r, x)
    BY <2>3 DEF Calm
  <2> QED BY <1>3, <2>4
<1>7. \A x \in Presets : x \in set /\ u[o].preset = x => Cleared(st, s, x)
  BY <1>2, <1>3 DEF GoneInv, Erased
<1>8. \A x \in Presets :
        /\ Dooms(s, q[o], x) => Dooms(s, u[o], x)
        /\ ~Leaving(s, u, dis, x) => Calm(s, u[o], x)
        /\ u[o].preset = x /\ u[o].pc \in {"removing", "removeRead"} =>
             q[o].preset = x /\ q[o].pc \in {"removing", "removeRead"} /\ u[o].had = q[o].had
        /\ x \in set /\ u[o].preset = x =>
             /\ u[o].pc \in {"updating", "updateRead"} => Cleared(st, s, x)
             /\ u[o].pc = "updateRead" => u[o].seen = 0
  BY <1>3, <1>5, <1>6, <1>7
<1>9. u[o].pc = "updating"
  BY <1>3
<1> QED BY <1>1, <1>3, <1>4, <1>8, <1>9, QuietGood

LEMMA UpdateLocalGood ==
  ASSUME NEW st, NEW s, NEW q, NEW u, NEW dis, NEW set, NEW crowd, NEW w, NEW o \in PresetOps, NEW p \in Presets,
         Good(st, s, q, dis, set, crowd), Joins(q, o, p, crowd, w), q[o].pc = "idle", NEW r, RequestOK(r),
         r.pc = "idle", r.preset = p, r.gen = s.gen[p], ~AsksFirestore(s, p),
         NEW y \in UpdateAfterRead(s, o, r, LocalAnswer(s, p), TRUE), Replaces(q, u, o, y.r)
  PROVE Good(st, y.s, u, dis, set, w)
<1>1. Good(st, s, q, dis, set, w)
  BY CrowdGood DEF Joins
<1>2. s \in PresetMaps /\ RequestTypes(q) /\ GoneInv(st, s, q, dis, set)
  BY DEF Good, Base
<1>3. CASE p \in s.tombs
  <2>1. y = [s |-> s, r |-> RequestEnded(r)]
    BY <1>3 DEF UpdateAfterRead, GonePreset
  <2>2. y.s = s /\ y.r = RequestEnded(r)
    BY <2>1
  <2>3. PICK d : d = RequestEnded(r)
    OBVIOUS
  <2>4. RequestOK(d) /\ d.pc = "done" /\ d.preset = p
    BY <2>3, RequestOver
  <2>5. Replaces(q, u, o, d) /\ q[o].pc \in {"idle", "updating", "updateRead"}
    BY <2>2, <2>3
  <2>6. Good(st, s, u, dis, set, w)
    BY <1>1, <2>4, <2>5, RefusedGood
  <2> QED BY <2>2, <2>6
<1>4. CASE p \notin s.tombs
  <2>1. PICK d : d = [r EXCEPT !.pc = "updating"]
    OBVIOUS
  <2>2. RequestOK(d) /\ d.pc = "updating" /\ d.preset = p /\ d.gen = s.gen[p]
    <3>1. r \in PresetRequests
      BY DEF RequestOK
    <3>2. d \in PresetRequests /\ d.pc = "updating" /\ d.preset = r.preset /\ d.gen = r.gen
      BY <2>1, <3>1 DEF PresetRequests, PresetPcs
    <3> QED BY <3>2 DEF RequestOK
  <2>3. PICK q1 : Replaces(q, q1, o, d)
    BY DEF Replaces
  <2>4. Good(st, s, q1, dis, set, w)
    BY <1>4, <2>2, <2>3, UpdateStartsGood
  <2>5. RequestTypes(q1) /\ q1[o] = d
    BY <1>2, <2>2, <2>3, Replaced
  <2>6. Replaces(q1, u, o, y.r)
    BY <1>2, <2>2, <2>3, ReplacedTwice
  <2>7. PICK existing : existing = LocalAnswer(s, p)
    OBVIOUS
  <2>8. p \in set => s.pending[p] = 0 /\ s.inFlight[p] = NoWrite
    BY <1>2, <1>4 DEF GoneInv, NoRestore, Erased, Cleared
  <2>9. p \notin set
    BY <1>4, <2>8 DEF AsksFirestore, GonePreset
  <2>10. y \in UpdateAfterRead(s, o, r, existing, TRUE) /\ TRUE \in BOOLEAN /\ r.pc # "flushing"
    BY <2>7
  <2>11. q1[o].pc \in {"updating", "updateRead"} /\ q1[o].preset = p /\ q1[o].gen = r.gen
    BY <2>2, <2>5
  <2>12. p \in set => existing = 0
    BY <2>9
  <2> QED BY <2>4, <2>6, <2>10, <2>11, <2>12, UpdateReadGood
<1> QED BY <1>3, <1>4

Rated(s, t, b) == t = [s EXCEPT !.unavailable = b]

LEMMA UnavailableFields ==
  ASSUME NEW s \in PresetMaps, NEW b \in BOOLEAN, NEW t, Rated(s, t, b)
  PROVE /\ t \in PresetMaps
        /\ t.memory = s.memory /\ t.pending = s.pending /\ t.inFlight = s.inFlight /\ t.tombs = s.tombs
        /\ t.gen = s.gen /\ t.token = s.token /\ t.chain = s.chain /\ t.last = s.last
  BY DEF PresetMaps, Rated

LEMMA MarkFields ==
  ASSUME NEW s \in PresetMaps, NEW p \in Presets, NEW t, t = MarkDeleted(s, p)
  PROVE /\ t \in PresetMaps /\ t.tombs = s.tombs \cup {p} /\ t.gen = [s.gen EXCEPT ![p] = @ + 1]
        /\ t.memory = s.memory /\ t.pending = s.pending /\ t.inFlight = s.inFlight
        /\ t.token = s.token /\ t.chain = s.chain /\ t.last = s.last
<1>1. PICK b \in SUBSET Presets : b = s.tombs \cup {p}
  BY DEF PresetMaps
<1>2. PICK g \in [Presets -> Nat] : g = [s.gen EXCEPT ![p] = @ + 1]
  <2>1. s.gen \in [Presets -> Nat]
    BY DEF PresetMaps
  <2>2. PICK n \in Nat : n = s.gen[p] + 1
    BY <2>1
  <2>3. [s.gen EXCEPT ![p] = n] \in [Presets -> Nat]
    BY <2>1
  <2> QED BY <2>2, <2>3
<1>3. t = [s EXCEPT !.tombs = b, !.gen = g]
  BY <1>1, <1>2 DEF MarkDeleted, PresetMaps
<1> QED BY <1>1, <1>2, <1>3 DEF PresetMaps

LEMMA UnqueuedFields ==
  ASSUME NEW s \in PresetMaps, NEW p \in Presets, NEW t, t = PresetUnqueued(s, p)
  PROVE /\ t \in PresetMaps /\ t.pending = [s.pending EXCEPT ![p] = 0]
        /\ t.tombs = s.tombs /\ t.gen = s.gen /\ t.memory = s.memory /\ t.inFlight = s.inFlight
        /\ t.token = s.token /\ t.chain = s.chain /\ t.last = s.last
<1>1. PICK g \in [Presets -> Nat] : g = [s.pending EXCEPT ![p] = 0]
  BY DEF PresetMaps
<1>2. t = [s EXCEPT !.pending = g]
  BY <1>1 DEF PresetUnqueued, GonePreset, PresetMaps
<1> QED BY <1>1, <1>2 DEF PresetMaps

Forgets(s, t, p) == t = [s EXCEPT !.memory[p] = 0]

LEMMA ForgottenFields ==
  ASSUME NEW s \in PresetMaps, NEW p \in Presets, NEW t, Forgets(s, t, p)
  PROVE /\ t \in PresetMaps /\ t.memory = [s.memory EXCEPT ![p] = 0]
        /\ t.pending = s.pending /\ t.tombs = s.tombs /\ t.gen = s.gen /\ t.inFlight = s.inFlight
        /\ t.token = s.token /\ t.chain = s.chain /\ t.last = s.last
<1>1. PICK g \in [Presets -> Nat] : g = [s.memory EXCEPT ![p] = 0]
  BY DEF PresetMaps
<1>2. t = [s EXCEPT !.memory = g]
  BY <1>1 DEF PresetMaps, Forgets
<1> QED BY <1>1, <1>2 DEF PresetMaps

RemovalOf(p, had) == [IdleRequest EXCEPT !.preset = p, !.had = had]

LEMMA RemovalOfOK ==
  ASSUME NEW p \in Presets, NEW had \in BOOLEAN
  PROVE /\ RequestOK(RemovalOf(p, had)) /\ RemovalOf(p, had).pc = "idle" /\ RemovalOf(p, had).preset = p
        /\ RemovalOf(p, had).had = had
<1>0. PICK r : r = RemovalOf(p, had)
  OBVIOUS
<1>1. PICK e \in SUBSET Presets : e = {}
  OBVIOUS
<1>2. PICK m \in Presets \cup {NoOp} : m = NoOp
  OBVIOUS
<1>3. PICK k \in PresetOps \cup {NoOp} : k = NoOp
  OBVIOUS
<1>5. PICK d : d = [pc |-> "idle", preset |-> p, gen |-> 0, seen |-> 0, had |-> had, todo |-> e, at |-> m,
                    token |-> k, value |-> 0]
  OBVIOUS
<1>6. r = d
  <2>1. r = [pc |-> "idle", preset |-> p, gen |-> 0, seen |-> 0, had |-> had, todo |-> e, at |-> m,
             token |-> k, value |-> 0]
    BY <1>1, <1>2, <1>3, <1>0 DEF IdleRequest, GonePreset, RemovalOf
  <2> QED BY <2>1, <1>5
<1>7. "idle" \in PresetPcs /\ 0 \in Nat
  BY DEF PresetPcs
<1>8. d \in PresetRequests
  BY <1>5, <1>7 DEF PresetRequests
<1>9. d.pc = "idle" /\ d.preset = p /\ d.had = had
  BY <1>5
<1> QED BY <1>0, <1>6, <1>8, <1>9 DEF RequestOK

LEMMA PcReplaced ==
  ASSUME NEW r, NEW d, NEW c, RequestOK(r), r.preset \in Presets,
         c \in {"updating", "updateRead", "removing", "removeRead", "deleting", "turning"},
         d = [r EXCEPT !.pc = c]
  PROVE /\ RequestOK(d) /\ d.pc = c /\ d.preset = r.preset /\ d.had = r.had /\ d.gen = r.gen
        /\ d.seen = r.seen /\ d.value = r.value
<1>1. r \in PresetRequests
  BY DEF RequestOK
<1>2. c \in PresetPcs
  BY DEF PresetPcs
<1>3. d \in PresetRequests /\ d.pc = c /\ d.preset = r.preset /\ d.had = r.had /\ d.gen = r.gen /\ d.seen = r.seen
      /\ d.value = r.value
  BY <1>1, <1>2 DEF PresetRequests
<1> QED BY <1>3 DEF RequestOK

\* What a deletion does before it reads.
Had(s, p) == s.memory[p] # 0 \/ s.pending[p] # 0
Knows(r, s, p) == r.had = Had(s, p)
Marked(s, p, t) == t = IF Had(s, p) THEN MarkDeleted(PresetUnqueued(s, p), p) ELSE PresetUnqueued(s, p)

LEMMA DeleteStartsGood ==
  ASSUME NEW st, NEW s, NEW t, NEW q, NEW u, NEW dis, NEW set, NEW crowd, NEW w, NEW o \in PresetOps,
         NEW p \in Presets, Good(st, s, q, dis, set, crowd), Joins(q, o, p, crowd, w), q[o].pc = "idle",
         Marked(s, p, t), NEW r, RequestOK(r),
         r.pc = "removing", r.preset = p, Knows(r, s, p), Replaces(q, u, o, r)
  PROVE Good(st, t, u, dis, set, w)
<1>1. Good(st, s, q, dis, set, w)
  BY CrowdGood DEF Joins
<1>2. s \in PresetMaps /\ RequestTypes(q) /\ AloneInv(q, crowd)
  BY DEF Good, Base
<1>3. RequestTypes(u) /\ u[o] = r /\ Others(q, u, o)
  BY <1>2, Replaced
<1>4. AloneInv(u, w)
  BY <1>2, <1>3, JoinsAlone
<1>5. PICK c : c = PresetUnqueued(s, p)
  OBVIOUS
<1>6. /\ c \in PresetMaps /\ c.pending = [s.pending EXCEPT ![p] = 0]
      /\ c.tombs = s.tombs /\ c.gen = s.gen /\ c.memory = s.memory /\ c.inFlight = s.inFlight
      /\ c.token = s.token /\ c.chain = s.chain /\ c.last = s.last
  BY <1>2, <1>5, UnqueuedFields
<1>7. t = IF Had(s, p) THEN MarkDeleted(c, p) ELSE c
  BY <1>5 DEF Marked
<1>8. t \in PresetMaps /\ DeleteBegins(s, t, q, u, o, p)
  <2>1. CASE Had(s, p)
    <3>1. t = MarkDeleted(c, p)
      BY <1>7, <2>1
    <3>2. /\ t \in PresetMaps /\ t.tombs = c.tombs \cup {p} /\ t.gen = [c.gen EXCEPT ![p] = @ + 1]
          /\ t.memory = c.memory /\ t.pending = c.pending /\ t.inFlight = c.inFlight
          /\ t.token = c.token /\ t.chain = c.chain /\ t.last = c.last
      BY <1>6, <3>1, MarkFields
    <3>3. s.memory[p] # 0 \/ s.pending[p] # 0
      BY <2>1 DEF Had
    <3>4. u[o].pc = "removing" /\ u[o].preset = p /\ u[o].had = (s.memory[p] # 0 \/ s.pending[p] # 0)
      BY <1>3 DEF Had, Knows
    <3>5. /\ t.memory = s.memory /\ t.inFlight = s.inFlight /\ t.token = s.token /\ t.chain = s.chain /\ t.last = s.last
          /\ t.pending = [s.pending EXCEPT ![p] = 0] /\ t.tombs = s.tombs \cup {p} /\ t.gen = [s.gen EXCEPT ![p] = @ + 1]
      BY <1>6, <3>2
    <3> QED BY <1>3, <3>2, <3>3, <3>4, <3>5 DEF DeleteBegins
  <2>2. CASE ~Had(s, p)
    <3>1. t = c
      BY <1>7, <2>2
    <3>3. ~(s.memory[p] # 0 \/ s.pending[p] # 0)
      BY <2>2 DEF Had
    <3>4. u[o].pc = "removing" /\ u[o].preset = p /\ u[o].had = (s.memory[p] # 0 \/ s.pending[p] # 0)
      BY <1>3 DEF Had, Knows
    <3> QED BY <1>3, <1>6, <3>1, <3>3, <3>4 DEF DeleteBegins
  <2> QED BY <2>1, <2>2
<1> QED BY <1>1, <1>3, <1>4, <1>8, DeleteBeginsGood

LEMMA MarkedMemory ==
  ASSUME NEW s \in PresetMaps, NEW p \in Presets, NEW t, Marked(s, p, t)
  PROVE t.memory = s.memory
<1>1. PICK c : c = PresetUnqueued(s, p)
  OBVIOUS
<1>2. c \in PresetMaps /\ c.memory = s.memory
  BY <1>1, UnqueuedFields
<1>3. CASE Had(s, p)
  <2>1. t = MarkDeleted(c, p)
    BY <1>1, <1>3 DEF Marked
  <2> QED BY <1>2, <2>1, MarkFields, ZenonT(30)
<1>4. CASE ~Had(s, p)
  BY <1>1, <1>2, <1>4 DEF Marked
<1> QED BY <1>3, <1>4

\* What the answer of a deletion adds to the presets that were deleted.
Reports(dis, gone, set, done, crowd, p, deleted) ==
  /\ gone = (IF deleted THEN dis \cup {p} ELSE dis)
  /\ done = (IF deleted /\ p \notin crowd THEN set \cup {p} ELSE set)

\* The collection cannot be had: the deletion is answered with what memory held.
LEMMA DeleteFailsGood ==
  ASSUME NEW st, NEW s, NEW t, NEW m, NEW q, NEW u, NEW dis, NEW gone, NEW set, NEW done, NEW crowd, NEW w,
         NEW o \in PresetOps, NEW p \in Presets, Good(st, s, q, dis, set, crowd), Joins(q, o, p, crowd, w),
         q[o].pc = "idle", Marked(s, p, m),
         Forgets(m, t, p), NEW r, RequestOK(r), r.preset = p, Knows(r, s, p),
         Replaces(q, u, o, RequestEnded(r)), Reports(dis, gone, set, done, w, p, Had(s, p))
  PROVE Good(st, t, u, gone, done, w)
<1>0. PICK had \in BOOLEAN : had = Had(s, p)
  BY DEF Had
<1>1. RequestTypes(q) /\ s \in PresetMaps
  BY DEF Good, Base
<1>2. PICK d : d = [r EXCEPT !.pc = "removing"]
  OBVIOUS
<1>3. RequestOK(d) /\ d.pc = "removing" /\ d.preset = p /\ Knows(d, s, p)
  <2>1. RequestOK(d) /\ d.pc = "removing" /\ d.preset = p /\ d.had = r.had
    BY <1>2, PcReplaced
  <2>2. d.had = Had(s, p)
    BY <2>1 DEF Knows
  <2> QED BY <2>1, <2>2 DEF Knows
<1>4. PICK q1 : Replaces(q, q1, o, d)
  BY DEF Replaces
<1>5. Good(st, m, q1, dis, set, w) /\ m \in PresetMaps /\ RequestTypes(q1) /\ q1[o] = d /\ m.memory = s.memory
  <2>1. Good(st, m, q1, dis, set, w)
    BY <1>3, <1>4, DeleteStartsGood
  <2>2. m \in PresetMaps /\ RequestTypes(q1)
    BY <2>1 DEF Good, Base
  <2>3. q1[o] = d
    BY <1>1, <1>3, <1>4, Replaced
  <2>4. m.memory = s.memory
    BY <1>1, MarkedMemory
  <2> QED BY <2>1, <2>2, <2>3, <2>4
<1>6. PICK e : e = RequestEnded(r)
  OBVIOUS
<1>7. RequestOK(e) /\ e.pc = "done" /\ e.preset = p
  BY <1>6, RequestOver
<1>8. Replaces(q1, u, o, e)
  BY <1>1, <1>3, <1>4, <1>6, ReplacedTwice
<1>9. RequestTypes(u) /\ u[o] = e /\ Others(q1, u, o)
  BY <1>5, <1>7, <1>8, Replaced
<1>10. /\ t \in PresetMaps /\ t.memory = [m.memory EXCEPT ![p] = 0]
       /\ t.pending = m.pending /\ t.tombs = m.tombs /\ t.gen = m.gen /\ t.inFlight = m.inFlight
       /\ t.token = m.token /\ t.chain = m.chain /\ t.last = m.last
  BY <1>5, ForgottenFields
<1>11. q1[o].pc = "removing" /\ q1[o].preset = p /\ q1[o].had = had /\ u[o].pc = "done" /\ u[o].preset = p
  BY <1>0, <1>3, <1>5, <1>7, <1>9 DEF Knows
<1>12. m.memory[p] # 0 => had
  BY <1>0, <1>5 DEF Had
<1>13. RemoveEnds(m, t, q1, u, o, p, dis, gone, set, done, w, had)
  BY <1>0, <1>9, <1>10, <1>11, <1>12 DEF RemoveEnds, Reports
<1> QED BY <1>0, <1>1, <1>5, <1>9, <1>10, <1>13, RemoveEndsGood

LEMMA RequestTyped ==
  ASSUME NEW q, NEW o \in PresetOps, RequestTypes(q), q[o].pc # "idle"
  PROVE RequestOK(q[o]) /\ q[o].preset \in Presets
  BY DEF RequestTypes, RequestOK

\* Firestore takes the snapshot of a read.
LEMMA SnapshotGood ==
  ASSUME NEW st, NEW s, NEW q, NEW u, NEW dis, NEW set, NEW crowd, NEW o \in PresetOps,
         Good(st, s, q, dis, set, crowd), NEW p \in Presets, q[o].preset = p, NEW r, RequestOK(r),
         \/ q[o].pc = "updating" /\ r.pc = "updateRead"
         \/ q[o].pc = "removing" /\ r.pc = "removeRead",
         r.preset = p, r.gen = q[o].gen, r.had = q[o].had, r.seen = st[p], Replaces(q, u, o, r)
  PROVE Good(st, s, u, dis, set, crowd)
<1>1. s \in PresetMaps /\ RequestTypes(q) /\ AloneInv(q, crowd) /\ StayInv(st, s, q, dis) /\ GoneInv(st, s, q, dis, set)
  BY DEF Good, Base
<1>2. RequestTypes(u) /\ u[o] = r /\ Others(q, u, o)
  BY <1>1, Replaced
<1>3. AloneInv(u, crowd)
  BY <1>1, <1>2, AloneKeep
<1>4. ASSUME NEW x \in Presets
      PROVE Dooms(s, q[o], x) => Dooms(s, u[o], x)
  BY <1>2 DEF Dooms
<1>5. ASSUME NEW x \in Presets, ~Leaving(s, u, dis, x) PROVE Calm(s, u[o], x)
  <2>1. ~Leaving(s, q, dis, x)
    BY <1>2, <1>4, <1>5 DEF Leaving, Others
  <2>2. Calm(s, q[o], x)
    BY <1>1, <2>1 DEF StayInv
  <2>3. Calm(s, r, x)
    BY <2>2 DEF Calm
  <2> QED BY <1>2, <2>3
<1>6. p \in set /\ r.pc = "updateRead" => Cleared(st, s, p) /\ r.seen = 0
  BY <1>1 DEF GoneInv, Cleared
<1>7. \A x \in Presets :
        /\ Dooms(s, q[o], x) => Dooms(s, u[o], x)
        /\ ~Leaving(s, u, dis, x) => Calm(s, u[o], x)
        /\ u[o].preset = x /\ u[o].pc \in {"removing", "removeRead"} =>
             q[o].preset = x /\ q[o].pc \in {"removing", "removeRead"} /\ u[o].had = q[o].had
        /\ x \in set /\ u[o].preset = x =>
             /\ u[o].pc \in {"updating", "updateRead"} => Cleared(st, s, x)
             /\ u[o].pc = "updateRead" => u[o].seen = 0
  BY <1>2, <1>4, <1>5, <1>6
<1>8. q[o].pc \in {"updating", "removing"} /\ u[o].pc \in {"updateRead", "removeRead"}
  BY <1>2
<1> QED BY <1>2, <1>3, <1>7, <1>8, QuietGood

\* The read of an update is answered or fails.
LEMMA ReadUpdateGood ==
  ASSUME NEW st, NEW s, NEW t, NEW q, NEW u, NEW dis, NEW set, NEW crowd, NEW o \in PresetOps,
         Good(st, s, q, dis, set, crowd), q[o].pc = "updateRead", NEW b \in BOOLEAN,
         Rated(s, t, b), NEW existing, existing \in {q[o].seen, s.memory[q[o].preset]},
         NEW online \in BOOLEAN, NEW y \in UpdateAfterRead(t, o, q[o], existing, online), Replaces(q, u, o, y.r)
  PROVE Good(st, y.s, u, dis, set, crowd)
<1>1. s \in PresetMaps /\ RequestTypes(q) /\ GoneInv(st, s, q, dis, set)
  BY DEF Good, Base
<1>2. PICK r : r = q[o]
  OBVIOUS
<1>3. RequestOK(r) /\ r.preset \in Presets /\ r.pc = "updateRead"
  BY <1>1, <1>2, RequestTyped
<1>4. PICK p \in Presets : p = r.preset
  BY <1>3
<1>5. /\ t \in PresetMaps
      /\ t.memory = s.memory /\ t.pending = s.pending /\ t.inFlight = s.inFlight /\ t.tombs = s.tombs
      /\ t.gen = s.gen /\ t.token = s.token /\ t.chain = s.chain /\ t.last = s.last
  BY <1>1, UnavailableFields
<1>6. Good(st, t, q, dis, set, crowd)
  BY <1>5, SameGood
<1>7. p \in set => q[o].seen = 0 /\ s.memory[p] = 0
  BY <1>1, <1>2, <1>3, <1>4 DEF GoneInv
<1>8. p \in set => existing = 0
  BY <1>2, <1>4, <1>7
<1>9. y \in UpdateAfterRead(t, o, r, existing, online)
  BY <1>2
<1>10. q[o].pc \in {"updating", "updateRead"} /\ q[o].preset = p /\ q[o].gen = r.gen /\ r.pc # "flushing"
  BY <1>2, <1>3, <1>4
<1> QED BY <1>3, <1>4, <1>6, <1>8, <1>9, <1>10, UpdateReadGood

\* The read of a deletion is answered, and the deletion goes on.
LEMMA ReadDeleteGood ==
  ASSUME NEW st, NEW s, NEW m, NEW t, NEW q, NEW u, NEW dis, NEW set, NEW crowd, NEW o \in PresetOps,
         NEW p \in Presets, Good(st, s, q, dis, set, crowd), q[o].pc = "removeRead", q[o].preset = p,
         NEW found \in BOOLEAN, found \/ q[o].had,
         m = IF found /\ p \notin s.tombs THEN MarkDeleted(s, p) ELSE s,
         t = EnqueueWrite(m, p, o, 0), NEW r, r = [q[o] EXCEPT !.pc = "deleting"], Replaces(q, u, o, r)
  PROVE Good(st, t, u, dis, set, crowd)
<1>1. s \in PresetMaps /\ RequestTypes(q)
  BY DEF Good, Base
<1>2. RequestOK(q[o]) /\ q[o].preset \in Presets
  BY <1>1, RequestTyped
<1>3. RequestOK(r) /\ r.pc = "deleting" /\ r.preset = p
  BY <1>2, PcReplaced
<1>4. RequestTypes(u) /\ u[o] = r /\ Others(q, u, o)
  BY <1>1, <1>3, Replaced
<1>5. /\ m \in PresetMaps /\ m.memory = s.memory /\ m.pending = s.pending /\ m.inFlight = s.inFlight
      /\ m.token = s.token /\ m.last = s.last /\ m.chain = s.chain
      /\ \/ m.tombs = s.tombs \cup {p} /\ m.gen = [s.gen EXCEPT ![p] = @ + 1]
         \/ m.tombs = s.tombs /\ m.gen = s.gen /\ (p \in s.tombs \/ q[o].had)
  <2>1. CASE found /\ p \notin s.tombs
    <3>1. m = MarkDeleted(s, p)
      BY <2>1
    <3> QED BY <1>1, <3>1, MarkFields
  <2>2. CASE ~(found /\ p \notin s.tombs)
    BY <1>1, <2>2
  <2> QED BY <2>1, <2>2
<1>6. 0 \in Nat
  OBVIOUS
<1>7. /\ t \in PresetMaps /\ Enqueued(m, t, p, o, 0)
      /\ t.memory = m.memory /\ t.pending = m.pending /\ t.inFlight = m.inFlight /\ t.tombs = m.tombs
      /\ t.gen = m.gen /\ t.token = m.token /\ t.last = m.last
  BY <1>5, <1>6, EnqueueFields
<1>8. Enqueued(s, t, p, o, 0)
  BY <1>5, <1>7 DEF Enqueued
<1>9. Erases(s, t, q, u, o, p)
  BY <1>3, <1>4, <1>5, <1>7, <1>8 DEF Erases
<1> QED BY <1>4, <1>7, <1>9, ErasesGood

Remembered(s, p) == s.memory[p] # 0

\* The read of a deletion finds nothing, or fails, and the deletion ends.
LEMMA ReadDeleteEndsGood ==
  ASSUME NEW st, NEW s, NEW m, NEW t, NEW q, NEW u, NEW dis, NEW gone, NEW set, NEW done, NEW crowd,
         NEW o \in PresetOps, NEW p \in Presets, Good(st, s, q, dis, set, crowd), q[o].pc = "removeRead",
         q[o].preset = p, NEW b \in BOOLEAN, Rated(s, m, b), Forgets(m, t, p),
         Replaces(q, u, o, RequestEnded(q[o])), Reports(dis, gone, set, done, crowd, p, Remembered(s, p))
  PROVE Good(st, t, u, gone, done, crowd)
<1>1. s \in PresetMaps /\ RequestTypes(q) /\ UncrowdedInv(st, s, q, dis, set, crowd) /\ crowd \subseteq Presets
  BY DEF Good, Base
<1>2. PICK e : e = RequestEnded(q[o])
  OBVIOUS
<1>3. RequestOK(e) /\ e.pc = "done" /\ e.preset = p
  BY <1>2, RequestOver
<1>4. RequestTypes(u) /\ u[o] = e /\ Others(q, u, o)
  BY <1>1, <1>2, <1>3, Replaced
<1>5. /\ m \in PresetMaps
      /\ m.memory = s.memory /\ m.pending = s.pending /\ m.inFlight = s.inFlight /\ m.tombs = s.tombs
      /\ m.gen = s.gen /\ m.token = s.token /\ m.chain = s.chain /\ m.last = s.last
  BY <1>1, UnavailableFields
<1>7. /\ t \in PresetMaps /\ t.memory = [m.memory EXCEPT ![p] = 0]
      /\ t.pending = m.pending /\ t.tombs = m.tombs /\ t.gen = m.gen /\ t.inFlight = m.inFlight
      /\ t.token = m.token /\ t.chain = m.chain /\ t.last = m.last
  BY <1>5, ForgottenFields
<1>8. PICK d \in BOOLEAN : d = Remembered(s, p)
  BY DEF Remembered
<1>9. d /\ p \notin crowd => q[o].had
  BY <1>1, <1>8 DEF UncrowdedInv, Remembered
<1>10. s.memory[p] # 0 => d
  BY <1>8 DEF Remembered
<1>11. gone = (IF d THEN dis \cup {p} ELSE dis) /\ done = (IF d /\ p \notin crowd THEN set \cup {p} ELSE set)
  BY <1>8 DEF Reports
<1>12. u[o].pc = "done" /\ u[o].preset = p
  BY <1>3, <1>4
<1>13. RemoveEnds(s, t, q, u, o, p, dis, gone, set, done, crowd, d)
  BY <1>4, <1>5, <1>7, <1>9, <1>10, <1>11, <1>12 DEF RemoveEnds
<1>14. d \in BOOLEAN /\ t \in PresetMaps /\ RequestTypes(u)
  BY <1>4, <1>7
<1> QED BY <1>13, <1>14, RemoveEndsGood

\* The first write of the chain of p, of request o, is answered: k are the maps without it.
AnswerOf(s, k, q, o, p, ok) ==
  /\ s.chain[p] # <<>> /\ Head(s.chain[p]).op = o
  /\ k = [s EXCEPT !.chain[p] = Tail(@)]
  /\ ok => Head(s.chain[p]).state = "applied"

LEMMA AnswerFields ==
  ASSUME NEW s \in PresetMaps, NEW k, NEW q, NEW o, NEW p \in Presets, NEW ok, AnswerOf(s, k, q, o, p, ok)
  PROVE /\ k \in PresetMaps /\ k.chain = [s.chain EXCEPT ![p] = Tail(@)]
        /\ k.memory = s.memory /\ k.pending = s.pending /\ k.inFlight = s.inFlight /\ k.tombs = s.tombs
        /\ k.gen = s.gen /\ k.token = s.token /\ k.last = s.last
<1>1. s.chain \in [Presets -> Seq(PresetWrites)] /\ s.chain[p] \in Seq(PresetWrites) /\ s.chain[p] # <<>>
  BY DEF PresetMaps, AnswerOf
<1>2. PICK d \in Seq(PresetWrites) : d = Tail(s.chain[p])
  BY <1>1, Popped
<1>3. PICK c \in [Presets -> Seq(PresetWrites)] : c = [s.chain EXCEPT ![p] = d]
  BY <1>1
<1>4. k = [s EXCEPT !.chain = c]
  BY <1>2, <1>3 DEF AnswerOf, PresetMaps
<1> QED BY <1>2, <1>3, <1>4 DEF PresetMaps

LEMMA AnswerApplied ==
  ASSUME NEW s \in PresetMaps, NEW k, NEW q, NEW o, NEW p \in Presets, NEW ok, AnswerOf(s, k, q, o, p, ok), ok
  PROVE s.chain[p][1].state = "applied"
<1>1. s.chain[p] \in Seq(PresetWrites) /\ s.chain[p] # <<>>
  BY DEF PresetMaps, AnswerOf
<1>2. Head(s.chain[p]) = s.chain[p][1]
  BY <1>1
<1> QED BY <1>2 DEF AnswerOf

\* The request that waits for the write.
LEMMA AnswerOwner ==
  ASSUME NEW st, NEW s, NEW k, NEW q, NEW o, NEW p \in Presets, NEW ok, Base(st, s, q),
         AnswerOf(s, k, q, o, p, ok)
  PROVE /\ o \in PresetOps /\ RequestOK(q[o]) /\ q[o].preset \in Presets
        /\ \/ q[o].pc \in {"writing", "deleting"} /\ q[o].preset = p
           \/ q[o].pc \in {"flushing", "untombing"} /\ q[o].at = p
<1>1. s.chain[p] \in Seq(PresetWrites) /\ s.chain[p] # <<>>
  BY DEF Base, PresetMaps, AnswerOf
<1>2. PICK e \in PresetWrites : e = s.chain[p][1] /\ Head(s.chain[p]) = e
  BY <1>1, Popped
<1>3. 1 \in DOMAIN s.chain[p]
  BY <1>1, Popped
<1>4. Owned(q, p, e)
  BY <1>2, <1>3 DEF Base, ChainInv
<1>5. e.op = o /\ o \in PresetOps
  BY <1>2, WriteFields DEF AnswerOf
<1>6. \/ q[o].pc \in {"writing", "deleting"} /\ q[o].preset = p
      \/ q[o].pc \in {"flushing", "untombing"} /\ q[o].at = p
  BY <1>4, <1>5 DEF Owned
<1>7. RequestTypes(q) /\ q[o].pc # "idle"
  BY <1>6 DEF Base
<1> QED BY <1>5, <1>6, <1>7, RequestTyped

\* o between the answer and what it does next.
LEMMA TurningRequest ==
  ASSUME NEW st, NEW s, NEW k, NEW t \in PresetMaps, NEW q, NEW o, NEW p \in Presets, NEW ok, Base(st, s, q),
         AnswerOf(s, k, q, o, p, ok), t.chain = k.chain
  PROVE \E q1 : /\ RequestTypes(q1) /\ q1[o].pc = "turning" /\ q1[o].preset = q[o].preset /\ q1[o].value = q[o].value
                /\ HeadAnswered(s, t, q, q1, o, p)
                /\ \A u, x : Replaces(q, u, o, x) => Replaces(q1, u, o, x)
<1>1. o \in PresetOps /\ RequestOK(q[o]) /\ q[o].preset \in Presets
  BY AnswerOwner
<1>2. PICK d : d = [q[o] EXCEPT !.pc = "turning"]
  OBVIOUS
<1>3. RequestOK(d) /\ d.pc = "turning" /\ d.preset = q[o].preset /\ d.value = q[o].value
  BY <1>1, <1>2, PcReplaced
<1>4. PICK q1 : Replaces(q, q1, o, d)
  BY DEF Replaces
<1>5. RequestTypes(q) /\ s \in PresetMaps
  BY DEF Base
<1>6. RequestTypes(q1) /\ q1[o] = d /\ Others(q, q1, o)
  BY <1>1, <1>3, <1>4, <1>5, Replaced
<1>7. /\ k \in PresetMaps /\ k.chain = [s.chain EXCEPT ![p] = Tail(@)]
      /\ k.memory = s.memory /\ k.pending = s.pending /\ k.inFlight = s.inFlight /\ k.tombs = s.tombs
      /\ k.gen = s.gen /\ k.token = s.token /\ k.last = s.last
  <2>1. s \in PresetMaps /\ AnswerOf(s, k, q, o, p, ok)
    BY <1>5
  <2> QED BY <2>1, AnswerFields
<1>8. HeadAnswered(s, t, q, q1, o, p)
  BY <1>6, <1>7 DEF HeadAnswered, AnswerOf
<1>9. \A u, x : Replaces(q, u, o, x) => Replaces(q1, u, o, x)
  BY <1>1, <1>3, <1>4, <1>5, ReplacedTwice
<1> QED BY <1>3, <1>6, <1>8, <1>9

LEMMA MapsWith ==
  ASSUME NEW k \in PresetMaps, NEW g \in [Presets -> Nat], NEW f \in [Presets -> PresetOps \cup {NoOp}],
         NEW b \in SUBSET Presets, NEW i \in [Presets -> PresetFlights], NEW a \in BOOLEAN, NEW t,
         t = [k EXCEPT !.pending = g, !.token = f, !.tombs = b, !.inFlight = i, !.unavailable = a]
  PROVE /\ t \in PresetMaps /\ t.pending = g /\ t.token = f /\ t.tombs = b /\ t.inFlight = i
        /\ t.memory = k.memory /\ t.gen = k.gen /\ t.chain = k.chain /\ t.last = k.last
  BY DEF PresetMaps

\* An update's own write is answered.
LEMMA PersistedGood ==
  ASSUME NEW st, NEW s, NEW k, NEW q, NEW u, NEW dis, NEW set, NEW crowd, NEW o, NEW p \in Presets,
         NEW ok \in BOOLEAN, Good(st, s, q, dis, set, crowd), AnswerOf(s, k, q, o, p, ok), q[o].pc = "writing",
         NEW y \in Persisted(k, o, q[o], ok), Replaces(q, u, o, y.r)
  PROVE Good(st, y.s, u, dis, set, crowd)
<1>1. Base(st, s, q) /\ s \in PresetMaps
  BY DEF Good, Base
<1>2. PICK r : r = q[o]
  OBVIOUS
<1>3. o \in PresetOps /\ RequestOK(r) /\ r.preset = p /\ r.pc = "writing" /\ r.value \in Nat
  <2>1. o \in PresetOps /\ RequestOK(q[o]) /\ q[o].preset = p
    BY <1>1, AnswerOwner
  <2>2. q[o] \in PresetRequests
    BY <2>1 DEF RequestOK
  <2>3. q[o].value \in Nat
    BY <2>2 DEF PresetRequests
  <2> QED BY <1>2, <2>1, <2>3
<1>4. /\ k \in PresetMaps
      /\ k.memory = s.memory /\ k.pending = s.pending /\ k.inFlight = s.inFlight /\ k.tombs = s.tombs
      /\ k.gen = s.gen /\ k.token = s.token /\ k.last = s.last
  <2>1. s \in PresetMaps /\ AnswerOf(s, k, q, o, p, ok)
    BY <1>1
  <2> QED BY <2>1, AnswerFields
<1>9. ok => s.chain[p][1].state = "applied"
  BY <1>1, AnswerApplied
<1>5. PICK mine \in BOOLEAN : mine = (k.token[p] = o)
  OBVIOUS
<1>6. PICK same \in BOOLEAN : same = (k.gen[p] = r.gen)
  OBVIOUS
<1>7. CASE ok
  <2>1. PICK g \in [Presets -> Nat] : g = [k.pending EXCEPT ![p] = IF mine THEN 0 ELSE @]
    BY <1>4 DEF PresetMaps
  <2>2. PICK f \in [Presets -> PresetOps \cup {NoOp}] : f = [k.token EXCEPT ![p] = IF mine THEN NoOp ELSE @]
    BY <1>4 DEF PresetMaps
  <2>3. PICK b \in SUBSET Presets : b = IF same THEN k.tombs \ {p} ELSE k.tombs
    BY <1>4 DEF PresetMaps
  <2>4. PICK t : t = [k EXCEPT !.pending[p] = IF mine THEN 0 ELSE @, !.token[p] = IF mine THEN NoOp ELSE @,
                               !.tombs = IF same THEN @ \ {p} ELSE @]
    OBVIOUS
  <2>5. t = [k EXCEPT !.pending = g, !.token = f, !.tombs = b]
    BY <1>4, <2>1, <2>2, <2>3, <2>4 DEF PresetMaps
  <2>6. /\ t \in PresetMaps /\ t.pending = g /\ t.token = f /\ t.tombs = b /\ t.inFlight = k.inFlight
        /\ t.memory = k.memory /\ t.gen = k.gen /\ t.chain = k.chain /\ t.last = k.last
    BY <1>4, <2>5 DEF PresetMaps
  <2>7. y \in FlushDeletes(t, o, r, t.tombs)
    BY <1>2, <1>3, <1>5, <1>6, <1>7, <2>4 DEF Persisted, GonePreset
  <2>8. PICK q1 : /\ RequestTypes(q1) /\ q1[o].pc = "turning" /\ q1[o].preset = q[o].preset /\ q1[o].value = q[o].value
                  /\ HeadAnswered(s, t, q, q1, o, p)
                  /\ \A v, x : Replaces(q, v, o, x) => Replaces(q1, v, o, x)
    BY <1>1, <2>6, TurningRequest
  <2>9. WriteAnswered(s, t, q, q1, o, p, ok)
    <3>1. \A x \in Presets : x # p => t.pending[x] = s.pending[x] /\ t.token[x] = s.token[x]
      BY <1>1, <1>4, <2>1, <2>2, <2>6 DEF PresetMaps
    <3>2. t.pending[p] = (IF s.token[p] = o THEN 0 ELSE s.pending[p])
      <4>1. t.pending[p] = (IF mine THEN 0 ELSE s.pending[p])
        BY <1>1, <1>4, <2>1, <2>6 DEF PresetMaps
      <4> QED BY <1>4, <1>5, <4>1
    <3>3. t.token[p] = (IF s.token[p] = o THEN NoOp ELSE s.token[p])
      <4>1. t.token[p] = (IF mine THEN NoOp ELSE s.token[p])
        BY <1>1, <1>4, <2>2, <2>6 DEF PresetMaps
      <4> QED BY <1>4, <1>5, <4>1
    <3>4. t.tombs = (IF s.gen[p] = q[o].gen THEN s.tombs \ {p} ELSE s.tombs)
      BY <1>2, <1>4, <1>6, <2>3, <2>6
    <3>5. t.memory = s.memory /\ t.gen = s.gen /\ t.last = s.last /\ t.inFlight = s.inFlight /\ q[o].preset = p
      BY <1>2, <1>3, <1>4, <2>6
    <3> QED BY <1>9, <1>7, <2>8, <3>1, <3>2, <3>3, <3>4, <3>5 DEF WriteAnswered
  <2>10. Good(st, t, q1, dis, set, crowd)
    BY <1>3, <2>6, <2>8, <2>9, WriteAnsweredGood
  <2>11. t.tombs \subseteq Presets /\ \A x \in t.tombs : Leaving(t, q1, dis, x)
    BY <2>6, <2>10 DEF Good, StayInv
  <2>12. q1[o].preset = r.preset /\ q1[o].value = r.value /\ Replaces(q1, u, o, y.r) /\ r.pc # "idle"
    BY <1>2, <1>3, <2>8
  <2> QED BY <1>3, <2>7, <2>8, <2>10, <2>11, <2>12, FlushDeletesGood
<1>8. CASE ~ok
  <2>1. PICK g \in [Presets -> Nat] :
               g = [k.pending EXCEPT ![p] = IF ~mine THEN @ ELSE IF same THEN r.value ELSE 0]
    BY <1>3, <1>4 DEF PresetMaps
  <2>2. PICK f \in [Presets -> PresetOps \cup {NoOp}] : f = [k.token EXCEPT ![p] = IF mine /\ ~same THEN NoOp ELSE @]
    BY <1>4 DEF PresetMaps
  <2>4. PICK t : t = [k EXCEPT !.pending[p] = IF ~mine THEN @ ELSE IF same THEN r.value ELSE 0,
                               !.token[p] = IF mine /\ ~same THEN NoOp ELSE @, !.unavailable = TRUE]
    OBVIOUS
  <2>5. t = [k EXCEPT !.pending = g, !.token = f, !.unavailable = TRUE]
    BY <1>4, <2>1, <2>2, <2>4 DEF PresetMaps
  <2>6. /\ t \in PresetMaps /\ t.pending = g /\ t.token = f /\ t.tombs = k.tombs /\ t.inFlight = k.inFlight
        /\ t.memory = k.memory /\ t.gen = k.gen /\ t.chain = k.chain /\ t.last = k.last
    BY <1>4, <2>5 DEF PresetMaps
  <2>7. y \in WriteEnded(t, o, r)
    BY <1>2, <1>3, <1>5, <1>6, <1>8, <2>4 DEF Persisted, GonePreset
  <2>8. PICK q1 : /\ RequestTypes(q1) /\ q1[o].pc = "turning" /\ q1[o].preset = q[o].preset /\ q1[o].value = q[o].value
                  /\ HeadAnswered(s, t, q, q1, o, p)
                  /\ \A v, x : Replaces(q, v, o, x) => Replaces(q1, v, o, x)
    BY <1>1, <2>6, TurningRequest
  <2>9. WriteAnswered(s, t, q, q1, o, p, ok)
    <3>1. \A x \in Presets : x # p => t.pending[x] = s.pending[x] /\ t.token[x] = s.token[x]
      BY <1>1, <1>4, <2>1, <2>2, <2>6 DEF PresetMaps
    <3>2. t.pending[p] = (IF ~(s.token[p] = o) THEN s.pending[p] ELSE IF s.gen[p] = q[o].gen THEN q[o].value ELSE 0)
      <4>1. t.pending[p] = (IF ~mine THEN s.pending[p] ELSE IF same THEN r.value ELSE 0)
        BY <1>1, <1>4, <2>1, <2>6 DEF PresetMaps
      <4> QED BY <1>2, <1>4, <1>5, <1>6, <4>1
    <3>3. t.token[p] = (IF s.token[p] = o /\ ~(s.gen[p] = q[o].gen) THEN NoOp ELSE s.token[p])
      <4>1. t.token[p] = (IF mine /\ ~same THEN NoOp ELSE s.token[p])
        BY <1>1, <1>4, <2>2, <2>6 DEF PresetMaps
      <4> QED BY <1>2, <1>4, <1>5, <1>6, <4>1
    <3>5. /\ t.memory = s.memory /\ t.gen = s.gen /\ t.last = s.last /\ t.inFlight = s.inFlight /\ q[o].preset = p
          /\ t.tombs = s.tombs
      BY <1>2, <1>3, <1>4, <2>6
    <3> QED BY <1>4, <1>8, <2>8, <3>1, <3>2, <3>3, <3>5 DEF WriteAnswered
  <2>10. Good(st, t, q1, dis, set, crowd)
    BY <1>3, <2>6, <2>8, <2>9, WriteAnsweredGood
  <2>12. q1[o].preset = r.preset /\ q1[o].value = r.value /\ Replaces(q1, u, o, y.r) /\ r.pc # "idle"
    BY <1>2, <1>3, <2>8
  <2> QED BY <1>3, <2>7, <2>8, <2>10, <2>12, EndGood
<1> QED BY <1>7, <1>8

\* The write of one preset of a flush is answered.
LEMMA FlushedGood ==
  ASSUME NEW st, NEW s, NEW k, NEW q, NEW u, NEW dis, NEW set, NEW crowd, NEW o, NEW p \in Presets,
         NEW ok \in BOOLEAN, Good(st, s, q, dis, set, crowd), AnswerOf(s, k, q, o, p, ok), q[o].pc = "flushing",
         NEW y \in Flushed(k, o, q[o], ok), Replaces(q, u, o, y.r)
  PROVE Good(st, y.s, u, dis, set, crowd)
<1>1. Base(st, s, q) /\ s \in PresetMaps
  BY DEF Good, Base
<1>2. PICK r : r = q[o]
  OBVIOUS
<1>3. o \in PresetOps /\ RequestOK(r) /\ r.at = p /\ r.pc = "flushing" /\ r.seen \in Nat /\ r.todo \subseteq Presets
  <2>1. o \in PresetOps /\ RequestOK(q[o]) /\ q[o].at = p
    BY <1>1, AnswerOwner
  <2>2. q[o] \in PresetRequests
    BY <2>1 DEF RequestOK
  <2>3. q[o].seen \in Nat /\ q[o].todo \subseteq Presets
    BY <2>2 DEF PresetRequests
  <2> QED BY <1>2, <2>1, <2>3
<1>4. /\ k \in PresetMaps
      /\ k.memory = s.memory /\ k.pending = s.pending /\ k.inFlight = s.inFlight /\ k.tombs = s.tombs
      /\ k.gen = s.gen /\ k.token = s.token /\ k.last = s.last
  <2>1. s \in PresetMaps /\ AnswerOf(s, k, q, o, p, ok)
    BY <1>1
  <2> QED BY <2>1, AnswerFields
<1>5. ok => s.chain[p][1].state = "applied"
  BY <1>1, AnswerApplied
<1>6. PICK restore \in BOOLEAN : restore = (~ok /\ k.token[p] = r.token /\ k.gen[p] = r.gen /\ k.pending[p] = 0)
  OBVIOUS
<1>7. PICK g \in [Presets -> Nat] : g = [k.pending EXCEPT ![p] = IF restore THEN r.seen ELSE @]
  BY <1>3, <1>4 DEF PresetMaps
<1>8. PICK f \in [Presets -> PresetOps \cup {NoOp}] : f = [k.token EXCEPT ![p] = IF ok /\ @ = r.token THEN NoOp ELSE @]
  BY <1>4 DEF PresetMaps
<1>10. PICK i \in [Presets -> PresetFlights] :
              i = [k.inFlight EXCEPT ![p] = IF @ = [op |-> o, value |-> r.seen] THEN NoWrite ELSE @]
  <2>1. NoWrite \in PresetFlights
    BY DEF NoWrite, PresetFlights, GonePreset
  <2> QED BY <1>4, <2>1 DEF PresetMaps
<1>11. PICK a \in BOOLEAN : a = (k.unavailable \/ ~ok)
  OBVIOUS
<1>12. PICK t : t = [k EXCEPT !.inFlight[p] = IF @ = [op |-> o, value |-> r.seen] THEN NoWrite ELSE @,
                              !.token[p] = IF ok /\ @ = r.token THEN NoOp ELSE @,
                              !.pending[p] = IF restore THEN r.seen ELSE @,
                              !.unavailable = @ \/ ~ok]
  OBVIOUS
<1>13. t = [k EXCEPT !.inFlight = i, !.token = f, !.pending = g, !.unavailable = a]
  BY <1>4, <1>7, <1>8, <1>10, <1>11, <1>12 DEF PresetMaps
<1>14. /\ t \in PresetMaps /\ t.pending = g /\ t.token = f /\ t.tombs = k.tombs /\ t.inFlight = i
       /\ t.memory = k.memory /\ t.gen = k.gen /\ t.chain = k.chain /\ t.last = k.last
  BY <1>4, <1>13 DEF PresetMaps
<1>15. y \in FlushPresets(t, o, r, r.todo)
  BY <1>2, <1>3, <1>6, <1>12 DEF Flushed, GonePreset
<1>16. PICK q1 : /\ RequestTypes(q1) /\ q1[o].pc = "turning" /\ q1[o].preset = q[o].preset /\ q1[o].value = q[o].value
                 /\ HeadAnswered(s, t, q, q1, o, p)
                 /\ \A v, x : Replaces(q, v, o, x) => Replaces(q1, v, o, x)
  BY <1>1, <1>14, TurningRequest
<1>17. FlushAnswered(s, t, q, q1, o, p, ok)
  <2>1. \A x \in Presets : x # p => /\ t.pending[x] = s.pending[x] /\ t.token[x] = s.token[x]
                                    /\ t.inFlight[x] = s.inFlight[x]
    BY <1>1, <1>4, <1>7, <1>8, <1>10, <1>14 DEF PresetMaps
  <2>2. t.inFlight[p] = (IF s.inFlight[p] = [op |-> o, value |-> q[o].seen] THEN NoWrite ELSE s.inFlight[p])
    BY <1>1, <1>2, <1>4, <1>10, <1>14 DEF PresetMaps
  <2>3. t.pending[p] = (IF ~ok /\ s.token[p] = q[o].token /\ s.gen[p] = q[o].gen /\ s.pending[p] = 0
                        THEN q[o].seen ELSE s.pending[p])
    <3>1. t.pending[p] = (IF restore THEN r.seen ELSE s.pending[p])
      BY <1>1, <1>4, <1>7, <1>14 DEF PresetMaps
    <3> QED BY <1>2, <1>4, <1>6, <3>1
  <2>4. t.token[p] = (IF ok /\ s.token[p] = q[o].token THEN NoOp ELSE s.token[p])
    BY <1>1, <1>2, <1>4, <1>8, <1>14 DEF PresetMaps
  <2>5. t.memory = s.memory /\ t.gen = s.gen /\ t.last = s.last /\ t.tombs = s.tombs /\ q[o].at = p
    BY <1>2, <1>3, <1>4, <1>14
  <2> QED BY <1>5, <1>16, <2>1, <2>2, <2>3, <2>4, <2>5 DEF FlushAnswered
<1>18. Good(st, t, q1, dis, set, crowd)
  BY <1>3, <1>14, <1>16, <1>17, FlushAnsweredGood
<1>19. q1[o].preset = r.preset /\ q1[o].value = r.value /\ Replaces(q1, u, o, y.r) /\ r.pc # "idle"
  BY <1>2, <1>3, <1>16
<1> QED BY <1>3, <1>15, <1>16, <1>18, <1>19, FlushPresetsGood

\* The deletion of a preset with a tombstone is answered.
LEMMA UntombedGood ==
  ASSUME NEW st, NEW s, NEW k, NEW q, NEW u, NEW dis, NEW set, NEW crowd, NEW o, NEW p \in Presets,
         NEW ok \in BOOLEAN, Good(st, s, q, dis, set, crowd), AnswerOf(s, k, q, o, p, ok), q[o].pc = "untombing",
         NEW y \in Untombed(k, o, q[o], ok), Replaces(q, u, o, y.r)
  PROVE Good(st, y.s, u, dis, set, crowd)
<1>1. Base(st, s, q) /\ s \in PresetMaps /\ StayInv(st, s, q, dis)
  BY DEF Good, Base
<1>2. PICK r : r = q[o]
  OBVIOUS
<1>3. o \in PresetOps /\ RequestOK(r) /\ r.at = p /\ r.pc = "untombing" /\ r.todo \subseteq Presets
  <2>1. o \in PresetOps /\ RequestOK(q[o]) /\ q[o].at = p
    BY <1>1, AnswerOwner
  <2>2. q[o] \in PresetRequests
    BY <2>1 DEF RequestOK
  <2>3. q[o].todo \subseteq Presets
    BY <2>2 DEF PresetRequests
  <2> QED BY <1>2, <2>1, <2>3
<1>4. /\ k \in PresetMaps
      /\ k.memory = s.memory /\ k.pending = s.pending /\ k.inFlight = s.inFlight /\ k.tombs = s.tombs
      /\ k.gen = s.gen /\ k.token = s.token /\ k.last = s.last
  <2>1. s \in PresetMaps /\ AnswerOf(s, k, q, o, p, ok)
    BY <1>1
  <2> QED BY <2>1, AnswerFields
<1>5. ok => s.chain[p][1].state = "applied"
  BY <1>1, AnswerApplied
<1>6. PICK b \in SUBSET Presets : b = IF ok THEN k.tombs \ {p} ELSE k.tombs
  BY <1>4 DEF PresetMaps
<1>7. PICK a \in BOOLEAN : a = (k.unavailable \/ ~ok)
  OBVIOUS
<1>8. PICK t : t = [k EXCEPT !.tombs = IF ok THEN @ \ {r.at} ELSE @, !.unavailable = @ \/ ~ok]
  OBVIOUS
<1>9. t = [k EXCEPT !.tombs = b, !.unavailable = a]
  BY <1>3, <1>4, <1>6, <1>7, <1>8 DEF PresetMaps
<1>10. /\ t \in PresetMaps /\ t.pending = k.pending /\ t.token = k.token /\ t.tombs = b /\ t.inFlight = k.inFlight
       /\ t.memory = k.memory /\ t.gen = k.gen /\ t.chain = k.chain /\ t.last = k.last
  BY <1>4, <1>9 DEF PresetMaps
<1>11. y \in FlushDeletes(t, o, r, r.todo)
  BY <1>2, <1>8 DEF Untombed
<1>12. PICK q1 : /\ RequestTypes(q1) /\ q1[o].pc = "turning" /\ q1[o].preset = q[o].preset /\ q1[o].value = q[o].value
                 /\ HeadAnswered(s, t, q, q1, o, p)
                 /\ \A v, x : Replaces(q, v, o, x) => Replaces(q1, v, o, x)
  BY <1>1, <1>10, TurningRequest
<1>13. UntombAnswered(s, t, q, q1, o, p, ok)
  <2>1. t.tombs = (IF ok THEN s.tombs \ {p} ELSE s.tombs)
    BY <1>4, <1>6, <1>10
  <2>2. /\ t.memory = s.memory /\ t.pending = s.pending /\ t.inFlight = s.inFlight
        /\ t.gen = s.gen /\ t.token = s.token /\ t.last = s.last /\ q[o].at = p
    BY <1>2, <1>3, <1>4, <1>10
  <2> QED BY <1>5, <1>12, <2>1, <2>2 DEF UntombAnswered
<1>14. Good(st, t, q1, dis, set, crowd)
  BY <1>3, <1>10, <1>12, <1>13, UntombAnsweredGood
<1>15. ASSUME NEW x \in r.todo PROVE Leaving(t, q1, dis, x)
  <2>1. x \in Presets
    BY <1>3
  <2>2. ~Calm(s, q[o], x)
    BY <1>2, <1>3 DEF Calm
  <2>3. Leaving(s, q, dis, x)
    BY <1>1, <1>3, <2>1, <2>2 DEF StayInv
  <2>4. ~Dooms(s, q[o], x)
    BY <1>2, <1>3 DEF Dooms
  <2>5. t.memory = s.memory /\ Others(q, q1, o)
    BY <1>4, <1>10, <1>12 DEF HeadAnswered
  <2> QED BY <2>3, <2>4, <2>5 DEF Leaving, Dooms, Others
<1>16. q1[o].preset = r.preset /\ q1[o].value = r.value /\ Replaces(q1, u, o, y.r) /\ r.pc # "idle"
  BY <1>2, <1>3, <1>12
<1> QED BY <1>3, <1>11, <1>12, <1>14, <1>15, <1>16, FlushDeletesGood

\* A deletion's own write is answered.
LEMMA DeleteSettledGood ==
  ASSUME NEW st, NEW s, NEW k, NEW q, NEW u, NEW dis, NEW gone, NEW set, NEW done, NEW crowd, NEW o,
         NEW p \in Presets, NEW ok \in BOOLEAN, Good(st, s, q, dis, set, crowd), AnswerOf(s, k, q, o, p, ok),
         q[o].pc = "deleting", NEW y \in DeleteSettled(k, o, q[o], ok), Replaces(q, u, o, y.r),
         Reports(dis, gone, set, done, crowd, p, TRUE)
  PROVE Good(st, y.s, u, gone, done, crowd)
<1>1. Base(st, s, q) /\ s \in PresetMaps /\ RequestTypes(q)
  BY DEF Good, Base
<1>2. PICK r : r = q[o]
  OBVIOUS
<1>3. o \in PresetOps /\ RequestOK(r) /\ r.preset = p /\ r.pc = "deleting"
  BY <1>1, <1>2, AnswerOwner
<1>4. /\ k \in PresetMaps /\ k.chain = [s.chain EXCEPT ![p] = Tail(@)]
      /\ k.memory = s.memory /\ k.pending = s.pending /\ k.inFlight = s.inFlight /\ k.tombs = s.tombs
      /\ k.gen = s.gen /\ k.token = s.token /\ k.last = s.last
  <2>1. s \in PresetMaps /\ AnswerOf(s, k, q, o, p, ok)
    BY <1>1
  <2> QED BY <2>1, AnswerFields
<1>5. ok => s.chain[p][1].state = "applied"
  BY <1>1, AnswerApplied
<1>6. PICK b \in SUBSET Presets : b = IF ok THEN k.tombs \ {p} ELSE k.tombs
  BY <1>4 DEF PresetMaps
<1>7. PICK m \in [Presets -> Nat] : m = [k.memory EXCEPT ![p] = 0]
  BY <1>4 DEF PresetMaps
<1>8. \E a \in BOOLEAN : y = [s |-> Forgotten([k EXCEPT !.tombs = b, !.unavailable = a], r), r |-> RequestEnded(r)]
  <2>1. CASE ok
    <3>1. PICK t : t = [k EXCEPT !.tombs = @ \ {r.preset}]
      OBVIOUS
    <3>2. PICK a \in BOOLEAN : a = (WaitingPresets(t) # {} \/ t.tombs # {})
      OBVIOUS
    <3>3. y = [s |-> Forgotten([t EXCEPT !.unavailable = a], r), r |-> RequestEnded(r)]
      BY <1>2, <2>1, <3>1, <3>2 DEF DeleteSettled
    <3>4. t = [k EXCEPT !.tombs = b]
      BY <1>3, <1>4, <1>6, <2>1, <3>1 DEF PresetMaps
    <3>5. [t EXCEPT !.unavailable = a] = [k EXCEPT !.tombs = b, !.unavailable = a]
      BY <1>4, <3>4 DEF PresetMaps
    <3> QED BY <3>3, <3>5
  <2>2. CASE ~ok
    <3>1. y = [s |-> Forgotten([k EXCEPT !.unavailable = TRUE], r), r |-> RequestEnded(r)]
      BY <1>2, <2>2 DEF DeleteSettled
    <3>2. [k EXCEPT !.unavailable = TRUE] = [k EXCEPT !.tombs = b, !.unavailable = TRUE]
      BY <1>4, <1>6, <2>2 DEF PresetMaps
    <3> QED BY <3>1, <3>2
  <2> QED BY <2>1, <2>2
<1>9. PICK a \in BOOLEAN :
            y = [s |-> Forgotten([k EXCEPT !.tombs = b, !.unavailable = a], r), r |-> RequestEnded(r)]
  BY <1>8
<1>10. PICK t : t = y.s
  OBVIOUS
<1>11. t = [k EXCEPT !.tombs = b, !.unavailable = a, !.memory = m]
  BY <1>3, <1>4, <1>7, <1>9, <1>10 DEF Forgotten, GonePreset, PresetMaps
<1>12. /\ t \in PresetMaps /\ t.pending = k.pending /\ t.token = k.token /\ t.tombs = b /\ t.inFlight = k.inFlight
       /\ t.memory = m /\ t.gen = k.gen /\ t.chain = k.chain /\ t.last = k.last
  BY <1>4, <1>11 DEF PresetMaps
<1>13. PICK e : e = RequestEnded(r)
  OBVIOUS
<1>14. RequestOK(e) /\ e.pc = "done" /\ e.preset = p
  BY <1>3, <1>13, RequestOver
<1>15. Replaces(q, u, o, e)
  BY <1>9, <1>13
<1>16. RequestTypes(u) /\ u[o] = e /\ Others(q, u, o)
  BY <1>1, <1>3, <1>14, <1>15, Replaced
<1>17. HeadAnswered(s, t, q, u, o, p)
  BY <1>4, <1>12, <1>16 DEF HeadAnswered, AnswerOf
<1>18. gone = dis \cup {p} /\ done = (IF p \notin crowd THEN set \cup {p} ELSE set)
  BY DEF Reports
<1>19. t.tombs = (IF ok THEN s.tombs \ {p} ELSE s.tombs) /\ t.memory = [s.memory EXCEPT ![p] = 0]
  BY <1>4, <1>6, <1>7, <1>12
<1>20. /\ t.pending = s.pending /\ t.inFlight = s.inFlight /\ t.gen = s.gen /\ t.token = s.token /\ t.last = s.last
       /\ q[o].pc = "deleting" /\ q[o].preset = p /\ u[o].pc = "done" /\ u[o].preset = p
  BY <1>2, <1>3, <1>4, <1>12, <1>14, <1>16
<1>21. DeleteAnswered(s, t, q, u, o, p, dis, gone, set, done, crowd, ok)
  BY <1>5, <1>17, <1>18, <1>19, <1>20 DEF DeleteAnswered
<1>22. Good(st, t, u, gone, done, crowd)
  BY <1>3, <1>12, <1>16, <1>21, DeleteAnsweredGood
<1> QED BY <1>10, <1>22

\* The invariant of the service.
PresetInv == Good(stored, svc, request, dismissed, settledGone, crowded)

LEMMA PresetInitInv == PresetInit => PresetInv
<1> SUFFICES ASSUME PresetInit PROVE PresetInv
  OBVIOUS
<1>1. PICK e \in SUBSET Presets : e = {}
  OBVIOUS
<1>2. PICK n \in Presets \cup {NoOp} : n = NoOp
  OBVIOUS
<1>3. PICK k \in PresetOps \cup {NoOp} : k = NoOp
  OBVIOUS
<1>4. PICK b \in BOOLEAN : b = FALSE
  OBVIOUS
<1>5. PICK d : d = [pc |-> "idle", preset |-> n, gen |-> 0, seen |-> 0, had |-> b, todo |-> e, at |-> n,
                    token |-> k, value |-> 0]
  OBVIOUS
<1>6. d \in PresetRequests /\ d.pc = "idle"
  BY <1>5 DEF PresetRequests, PresetPcs
<1>7. IdleRequest = d
  BY <1>1, <1>2, <1>3, <1>4, <1>5 DEF IdleRequest, GonePreset
<1>8. request \in [PresetOps -> PresetRequests] /\ \A o \in PresetOps : request[o].pc = "idle"
  BY <1>6, <1>7 DEF PresetInit
<1>9. PICK m \in [Presets -> Nat] : m = [p \in Presets |-> IF p \in OwnPresets THEN 1 ELSE 0]
  OBVIOUS
<1>10. PICK z \in [Presets -> Nat] : z = [p \in Presets |-> 0]
  OBVIOUS
<1>11. PICK l \in [Presets -> Nat] : l = [p \in Presets |-> 1]
  OBVIOUS
<1>12. PICK i \in [Presets -> PresetFlights] : i = [p \in Presets |-> NoWrite]
  BY DEF NoWrite, PresetFlights, GonePreset
<1>13. PICK f \in [Presets -> PresetOps \cup {NoOp}] : f = [p \in Presets |-> NoOp]
  OBVIOUS
<1>14. PICK c \in [Presets -> Seq(PresetWrites)] : c = [p \in Presets |-> <<>>]
  <2>0. <<>> \in Seq(PresetWrites)
    OBVIOUS
  <2>1. PICK x \in Seq(PresetWrites) : x = <<>>
    BY <2>0
  <2>2. [p \in Presets |-> x] \in [Presets -> Seq(PresetWrites)]
    BY <2>1
  <2> QED BY <2>1, <2>2
<1>15. PICK s : s = svc
  OBVIOUS
<1>16. s = [memory |-> m, pending |-> z, inFlight |-> i, tombs |-> e, gen |-> z, token |-> f, chain |-> c,
            last |-> l, unavailable |-> b]
  BY <1>1, <1>4, <1>9, <1>10, <1>11, <1>12, <1>13, <1>14, <1>15 DEF PresetInit, GonePreset
<1>17. /\ s \in PresetMaps /\ s.memory = m /\ s.pending = z /\ s.inFlight = i /\ s.tombs = e /\ s.gen = z
       /\ s.token = f /\ s.chain = c /\ s.last = l
  BY <1>16 DEF PresetMaps
<1>18. /\ \A p \in Presets : /\ s.memory[p] \in {0, 1} /\ s.pending[p] = 0 /\ s.inFlight[p] = NoWrite /\ s.gen[p] = 0
                             /\ s.token[p] = NoOp /\ s.chain[p] = <<>> /\ s.last[p] = 1
       /\ s.tombs = {}
  BY <1>1, <1>9, <1>10, <1>11, <1>12, <1>13, <1>14, <1>17
<1>19. stored \in [Presets -> Nat] /\ (\A p \in Presets : stored[p] = 1) /\ dismissed = {} /\ settledGone = {} /\ crowded = {}
  BY DEF PresetInit
<1>20. Base(stored, s, request)
  <2>1. RequestTypes(request)
    BY <1>8 DEF RequestTypes
  <2>2. ChainInv(stored, s, request)
    BY <1>18 DEF ChainInv, Fronted
  <2>3. OrderInv(stored, s)
    BY <1>18, <1>19 DEF OrderInv, Ordered
  <2>4. TokenInv(s, request)
    BY <1>8, <1>18 DEF TokenInv
  <2> QED BY <1>17, <1>19, <2>1, <2>2, <2>3, <2>4 DEF Base
<1>21. StayInv(stored, s, request, dismissed)
  <2>1. ASSUME NEW p \in Presets PROVE Newest(stored, s, request, p)
    BY <1>18, <1>19 DEF Newest
  <2>2. \A p \in Presets : \A o \in PresetOps : Calm(s, request[o], p)
    BY <1>8 DEF Calm
  <2> QED BY <1>18, <2>1, <2>2 DEF StayInv
<1>22. AloneInv(request, crowded)
  BY <1>8 DEF AloneInv
<1>23. UncrowdedInv(stored, s, request, dismissed, settledGone, crowded)
  BY <1>8, <1>18, <1>19 DEF UncrowdedInv, NoRestore
<1>24. ZeroInv(s, settledGone, crowded) /\ FlightInv(s, request) /\ GoneInv(stored, s, request, dismissed, settledGone)
  BY <1>18, <1>19 DEF ZeroInv, Zeros, FlightInv, GoneInv
<1>25. settledGone \subseteq Presets /\ dismissed \subseteq Presets /\ crowded \subseteq Presets
  BY <1>19
<1> QED BY <1>15, <1>20, <1>21, <1>22, <1>23, <1>24, <1>25 DEF PresetInv, Good

LEMMA UpdatePresetInv ==
  ASSUME NEW o \in PresetOps, NEW p \in Presets, PresetInv, UpdatePreset(o, p)
  PROVE PresetInv'
<1>1. Good(stored, svc, request, dismissed, settledGone, crowded) /\ crowded \subseteq Presets
      /\ svc \in PresetMaps /\ RequestTypes(request)
  BY DEF PresetInv, Good, Base
<1>2. Joins(request, o, p, crowded, crowded')
  BY <1>1, MeetJoins DEF UpdatePreset
<1>3. PICK n \in Nat : n = svc.gen[p]
  BY <1>1 DEF PresetMaps
<1>4. PICK r : r = UpdateOf(p, n)
  OBVIOUS
<1>5. RequestOK(r) /\ r.pc = "idle" /\ r.preset = p /\ r.gen = svc.gen[p]
  BY <1>3, <1>4, UpdateOfOK
<1>6. /\ request[o].pc = "idle" /\ stored' = stored /\ dismissed' = dismissed /\ settledGone' = settledGone
      /\ IF AsksFirestore(svc, p)
         THEN request' = [request EXCEPT ![o] = [r EXCEPT !.pc = "updating"]] /\ svc' = svc
         ELSE PresetStep(o, UpdateAfterRead(svc, o, r, LocalAnswer(svc, p), TRUE))
  BY <1>3, <1>4 DEF UpdatePreset, UpdateOf
<1>7. Good(stored, svc', request', dismissed, settledGone, crowded')
  <2>1. CASE AsksFirestore(svc, p)
    <3>1. PICK d : d = [r EXCEPT !.pc = "updating"]
      OBVIOUS
    <3>2. RequestOK(d) /\ d.pc = "updating" /\ d.preset = p /\ d.gen = svc.gen[p]
      BY <1>5, <3>1, PcReplaced
    <3>3. Replaces(request, request', o, d) /\ svc' = svc
      BY <1>6, <2>1, <3>1 DEF Replaces
    <3>4. p \notin svc.tombs
      BY <2>1 DEF AsksFirestore
    <3>5. Good(stored, svc, request', dismissed, settledGone, crowded')
      BY <1>1, <1>2, <1>6, <3>2, <3>3, <3>4, UpdateStartsGood
    <3> QED BY <3>3, <3>5
  <2>2. CASE ~AsksFirestore(svc, p)
    <3>1. PICK x \in UpdateAfterRead(svc, o, r, LocalAnswer(svc, p), TRUE) :
                 svc' = x.s /\ Replaces(request, request', o, x.r)
      BY <1>6, <2>2 DEF PresetStep, Replaces
    <3>2. Good(stored, x.s, request', dismissed, settledGone, crowded')
      BY <1>1, <1>2, <1>5, <1>6, <2>2, <3>1, UpdateLocalGood
    <3> QED BY <3>1, <3>2
  <2> QED BY <2>1, <2>2
<1> QED BY <1>6, <1>7 DEF PresetInv

LEMMA DeletePresetInv ==
  ASSUME NEW o \in PresetOps, NEW p \in Presets, PresetInv, DeletePreset(o, p)
  PROVE PresetInv'
<1>1. Good(stored, svc, request, dismissed, settledGone, crowded) /\ crowded \subseteq Presets
      /\ svc \in PresetMaps /\ RequestTypes(request)
  BY DEF PresetInv, Good, Base
<1>2. Joins(request, o, p, crowded, crowded')
  BY <1>1, MeetJoins DEF DeletePreset
<1>3. PICK had \in BOOLEAN : had = Had(svc, p)
  BY DEF Had
<1>4. PICK r : r = RemovalOf(p, had)
  OBVIOUS
<1>5. RequestOK(r) /\ r.pc = "idle" /\ r.preset = p /\ r.had = had
  BY <1>3, <1>4, RemovalOfOK
<1>6. PICK m : m = IF had THEN MarkDeleted(PresetUnqueued(svc, p), p) ELSE PresetUnqueued(svc, p)
  OBVIOUS
<1>7. Marked(svc, p, m)
  BY <1>3, <1>6 DEF Marked
<1>8. /\ request[o].pc = "idle" /\ stored' = stored
      /\ \/ /\ svc' = m
            /\ request' = [request EXCEPT ![o] = [r EXCEPT !.pc = "removing"]]
            /\ dismissed' = dismissed /\ settledGone' = settledGone
         \/ /\ svc' = [m EXCEPT !.memory[p] = 0]
            /\ request' = [request EXCEPT ![o] = RequestEnded(r)]
            /\ dismissed' = (IF had THEN dismissed \cup {p} ELSE dismissed)
            /\ settledGone' = (IF had /\ p \notin crowded' THEN settledGone \cup {p} ELSE settledGone)
  BY <1>3, <1>4, <1>6 DEF DeletePreset, Had, GonePreset, RemovalOf
<1>9. CASE /\ svc' = m
           /\ request' = [request EXCEPT ![o] = [r EXCEPT !.pc = "removing"]]
           /\ dismissed' = dismissed /\ settledGone' = settledGone
  <2>1. PICK d : d = [r EXCEPT !.pc = "removing"]
    OBVIOUS
  <2>2. RequestOK(d) /\ d.pc = "removing" /\ d.preset = p /\ Knows(d, svc, p)
    BY <1>3, <1>5, <2>1, PcReplaced DEF Knows
  <2>3. Replaces(request, request', o, d)
    BY <1>9, <2>1 DEF Replaces
  <2>4. Good(stored, m, request', dismissed, settledGone, crowded')
    <3>1. /\ Good(stored, svc, request, dismissed, settledGone, crowded)
          /\ Joins(request, o, p, crowded, crowded') /\ request[o].pc = "idle" /\ Marked(svc, p, m)
          /\ RequestOK(d) /\ d.pc = "removing" /\ d.preset = p /\ Knows(d, svc, p)
          /\ Replaces(request, request', o, d)
      BY <1>1, <1>2, <1>7, <1>8, <2>2, <2>3
    <3>2. PICK s, q, u, w : s = svc /\ q = request /\ u = request' /\ w = crowded'
      OBVIOUS
    <3>3. /\ Good(stored, s, q, dismissed, settledGone, crowded)
          /\ Joins(q, o, p, crowded, w) /\ q[o].pc = "idle" /\ Marked(s, p, m)
          /\ RequestOK(d) /\ d.pc = "removing" /\ d.preset = p /\ Knows(d, s, p)
          /\ Replaces(q, u, o, d)
      BY <3>1, <3>2
    <3>4. Good(stored, m, u, dismissed, settledGone, w)
      BY <3>3, DeleteStartsGood
    <3> QED BY <3>2, <3>4
  <2> QED BY <1>8, <1>9, <2>4 DEF PresetInv
<1>10. CASE /\ svc' = [m EXCEPT !.memory[p] = 0]
            /\ request' = [request EXCEPT ![o] = RequestEnded(r)]
            /\ dismissed' = (IF had THEN dismissed \cup {p} ELSE dismissed)
            /\ settledGone' = (IF had /\ p \notin crowded' THEN settledGone \cup {p} ELSE settledGone)
  <2>1. Forgets(m, svc', p) /\ Replaces(request, request', o, RequestEnded(r))
    BY <1>10 DEF Forgets, Replaces
  <2>2. Reports(dismissed, dismissed', settledGone, settledGone', crowded', p, Had(svc, p))
    BY <1>3, <1>10 DEF Reports
  <2>3. RequestOK(r) /\ r.preset = p /\ Knows(r, svc, p)
    BY <1>3, <1>5 DEF Knows
  <2>4. Good(stored, svc', request', dismissed', settledGone', crowded')
    BY <1>1, <1>2, <1>7, <1>8, <2>1, <2>2, <2>3, DeleteFailsGood
  <2> QED BY <1>8, <2>4 DEF PresetInv
<1> QED BY <1>8, <1>9, <1>10

LEMMA ReadSnapshotInv ==
  ASSUME NEW o \in PresetOps, PresetInv, ReadSnapshot(o)
  PROVE PresetInv'
<1>1. Good(stored, svc, request, dismissed, settledGone, crowded) /\ stored \in [Presets -> Nat]
      /\ RequestTypes(request) /\ request \in [PresetOps -> PresetRequests]
  BY DEF PresetInv, Good, Base, RequestTypes
<1>2. request[o].pc \in {"updating", "removing"}
  BY DEF ReadSnapshot
<1>3. RequestOK(request[o]) /\ request[o].preset \in Presets
  BY <1>1, <1>2, RequestTyped
<1>4. PICK p \in Presets : p = request[o].preset
  BY <1>3
<1>5. PICK n \in Nat : n = stored[p]
  BY <1>1
<1>6. PICK c \in {"updateRead", "removeRead"} : c = IF request[o].pc = "updating" THEN "updateRead" ELSE "removeRead"
  OBVIOUS
<1>7. PICK a : a = request[o]
  OBVIOUS
<1>8. PICK r : r = [a EXCEPT !.seen = n, !.pc = c]
  OBVIOUS
<1>9. RequestOK(r) /\ r.pc = c /\ r.preset = p /\ r.gen = request[o].gen /\ r.had = request[o].had /\ r.seen = n
  <2>1. a \in PresetRequests /\ c \in PresetPcs
    BY <1>3, <1>7 DEF RequestOK, PresetPcs
  <2>2. /\ r \in PresetRequests /\ r.pc = c /\ r.preset = a.preset /\ r.gen = a.gen /\ r.had = a.had /\ r.seen = n
    BY <1>8, <2>1 DEF PresetRequests
  <2> QED BY <1>4, <1>7, <2>2 DEF RequestOK
<1>10. Replaces(request, request', o, r)
  <2>1. request' = [request EXCEPT ![o].seen = n, ![o].pc = IF @ = "updating" THEN "updateRead" ELSE "removeRead"]
    BY <1>4, <1>5 DEF ReadSnapshot
  <2>2. request' = [request EXCEPT ![o] = [a EXCEPT !.seen = n, !.pc = c]]
    <3>1. a \in PresetRequests
      BY <1>3, <1>7 DEF RequestOK
    <3> QED BY <1>1, <1>6, <1>7, <2>1, <3>1 DEF PresetRequests
  <2> QED BY <1>8, <2>2 DEF Replaces
<1>11. stored' = stored /\ svc' = svc /\ dismissed' = dismissed /\ settledGone' = settledGone /\ crowded' = crowded
  BY DEF ReadSnapshot
<1>12. \/ request[o].pc = "updating" /\ r.pc = "updateRead"
       \/ request[o].pc = "removing" /\ r.pc = "removeRead"
  BY <1>2, <1>6, <1>9
<1>13. r.preset = p /\ request[o].preset = p /\ r.gen = request[o].gen /\ r.had = request[o].had /\ r.seen = stored[p]
  BY <1>4, <1>5, <1>9
<1>14. Good(stored, svc, request', dismissed, settledGone, crowded)
  BY <1>1, <1>9, <1>10, <1>12, <1>13, SnapshotGood
<1> QED BY <1>11, <1>14 DEF PresetInv

LEMMA ReadForUpdateInv ==
  ASSUME NEW o \in PresetOps, PresetInv, ReadForUpdate(o)
  PROVE PresetInv'
<1>1. Good(stored, svc, request, dismissed, settledGone, crowded)
  BY DEF PresetInv
<1>2. /\ request[o].pc = "updateRead" /\ stored' = stored /\ dismissed' = dismissed
      /\ settledGone' = settledGone /\ crowded' = crowded
  BY DEF ReadForUpdate
<1>3. \E b \in BOOLEAN, online \in BOOLEAN, existing \in {request[o].seen, svc.memory[request[o].preset]} :
         PresetStep(o, UpdateAfterRead([svc EXCEPT !.unavailable = b], o, request[o], existing, online))
  <2>1. CASE PresetStep(o, UpdateAfterRead([svc EXCEPT !.unavailable = FALSE \/ UnsettledPresets(svc)], o,
                                           request[o], request[o].seen, TRUE))
    <3>1. PICK b \in BOOLEAN : b = (FALSE \/ UnsettledPresets(svc))
      OBVIOUS
    <3> QED BY <2>1, <3>1
  <2>2. CASE \E online \in BOOLEAN :
               PresetStep(o, UpdateAfterRead([svc EXCEPT !.unavailable = TRUE \/ UnsettledPresets(svc)], o,
                                             request[o], svc.memory[request[o].preset], online))
    <3>1. PICK b \in BOOLEAN : b = (TRUE \/ UnsettledPresets(svc))
      OBVIOUS
    <3> QED BY <2>2, <3>1
  <2> QED BY <2>1, <2>2 DEF ReadForUpdate
<1>4. PICK b \in BOOLEAN, online \in BOOLEAN, existing \in {request[o].seen, svc.memory[request[o].preset]} :
         PresetStep(o, UpdateAfterRead([svc EXCEPT !.unavailable = b], o, request[o], existing, online))
  BY <1>3
<1>5. PICK t : t = [svc EXCEPT !.unavailable = b]
  OBVIOUS
<1>6. PICK x \in UpdateAfterRead(t, o, request[o], existing, online) :
             svc' = x.s /\ Replaces(request, request', o, x.r)
  BY <1>4, <1>5 DEF PresetStep, Replaces
<1>7. Rated(svc, t, b)
  BY <1>5 DEF Rated
<1>8. Good(stored, x.s, request', dismissed, settledGone, crowded)
  BY <1>1, <1>2, <1>6, <1>7, ReadUpdateGood
<1> QED BY <1>2, <1>6, <1>8 DEF PresetInv

LEMMA ReadForDeleteInv ==
  ASSUME NEW o \in PresetOps, PresetInv, ReadForDelete(o)
  PROVE PresetInv'
<1>1. Good(stored, svc, request, dismissed, settledGone, crowded) /\ RequestTypes(request)
  BY DEF PresetInv, Good, Base
<1>2. request[o].pc = "removeRead" /\ stored' = stored /\ crowded' = crowded
  BY DEF ReadForDelete
<1>3. RequestOK(request[o]) /\ request[o].preset \in Presets
  BY <1>1, <1>2, RequestTyped
<1>4. PICK p \in Presets : p = request[o].preset
  BY <1>3
<1>5. PICK found \in BOOLEAN : found = (request[o].seen # 0)
  OBVIOUS
<1>6. PICK m : m = IF found /\ p \notin svc.tombs THEN MarkDeleted(svc, p) ELSE svc
  OBVIOUS
<1>7. \/ /\ found \/ request[o].had
         /\ svc' = EnqueueWrite(m, p, o, 0)
         /\ request' = [request EXCEPT ![o].pc = "deleting"]
         /\ dismissed' = dismissed /\ settledGone' = settledGone
      \/ /\ \E b \in BOOLEAN : svc' = Forgotten([svc EXCEPT !.unavailable = b], request[o])
         /\ request' = [request EXCEPT ![o] = RequestEnded(request[o])]
         /\ Dismiss(o, svc.memory[p] # 0)
  <2>1. CASE /\ found \/ request[o].had
             /\ svc' = EnqueueWrite(m, p, o, 0)
             /\ request' = [request EXCEPT ![o].pc = "deleting"]
             /\ dismissed' = dismissed /\ settledGone' = settledGone
    BY <2>1
  <2>2. CASE /\ svc' = Forgotten([svc EXCEPT !.unavailable = WaitingPresets(svc) # {} \/ svc.tombs # {}], request[o])
             /\ request' = [request EXCEPT ![o] = RequestEnded(request[o])]
             /\ Dismiss(o, svc.memory[p] # 0)
    <3>1. PICK b \in BOOLEAN : b = (WaitingPresets(svc) # {} \/ svc.tombs # {})
      OBVIOUS
    <3>2. svc' = Forgotten([svc EXCEPT !.unavailable = b], request[o])
      BY <2>2, <3>1
    <3> QED BY <2>2, <3>2
  <2>3. CASE /\ svc' = Forgotten([svc EXCEPT !.unavailable = TRUE], request[o])
             /\ request' = [request EXCEPT ![o] = RequestEnded(request[o])]
             /\ Dismiss(o, svc.memory[p] # 0)
    BY <2>3
  <2> QED BY <1>4, <1>5, <1>6, <2>1, <2>2, <2>3 DEF ReadForDelete, GonePreset
<1>8. CASE /\ found \/ request[o].had
           /\ svc' = EnqueueWrite(m, p, o, 0)
           /\ request' = [request EXCEPT ![o].pc = "deleting"]
           /\ dismissed' = dismissed /\ settledGone' = settledGone
  <2>1. PICK r : r = [request[o] EXCEPT !.pc = "deleting"]
    OBVIOUS
  <2>2. Replaces(request, request', o, r)
    BY <1>8, <2>1 DEF Replaces
  <2>3. Good(stored, svc', request', dismissed, settledGone, crowded)
    BY <1>1, <1>2, <1>4, <1>6, <1>8, <2>1, <2>2, ReadDeleteGood
  <2> QED BY <1>2, <1>8, <2>3 DEF PresetInv
<1>9. CASE /\ \E b \in BOOLEAN : svc' = Forgotten([svc EXCEPT !.unavailable = b], request[o])
           /\ request' = [request EXCEPT ![o] = RequestEnded(request[o])]
           /\ Dismiss(o, svc.memory[p] # 0)
  <2>1. PICK b \in BOOLEAN : svc' = Forgotten([svc EXCEPT !.unavailable = b], request[o])
    BY <1>9
  <2>2. PICK n : n = [svc EXCEPT !.unavailable = b]
    OBVIOUS
  <2>3. Rated(svc, n, b) /\ Forgets(n, svc', p)
    BY <1>4, <2>1, <2>2 DEF Rated, Forgets, Forgotten, GonePreset
  <2>4. Replaces(request, request', o, RequestEnded(request[o]))
    BY <1>9 DEF Replaces
  <2>5. Reports(dismissed, dismissed', settledGone, settledGone', crowded, p, Remembered(svc, p))
    BY <1>4, <1>9 DEF Reports, Remembered, Dismiss
  <2>6. Good(stored, svc', request', dismissed', settledGone', crowded)
    BY <1>1, <1>2, <1>4, <2>3, <2>4, <2>5, ReadDeleteEndsGood
  <2> QED BY <1>2, <2>6 DEF PresetInv
<1> QED BY <1>7, <1>8, <1>9

LEMMA ApplyWriteInv ==
  ASSUME NEW p \in Presets, PresetInv, ApplyWrite(p)
  PROVE PresetInv' /\ \A x \in Presets : stored'[x] # 0 => stored'[x] >= stored[x]
<1>1. Good(stored, svc, request, dismissed, settledGone, crowded) /\ Base(stored, svc, request)
      /\ stored \in [Presets -> Nat]
  BY DEF PresetInv, Good, Base
<1>2. Executes(stored, stored', svc, svc', p)
  BY DEF ApplyWrite, Executes
<1>3. request' = request /\ dismissed' = dismissed /\ settledGone' = settledGone /\ crowded' = crowded
      /\ stored' = [stored EXCEPT ![p] = Head(svc.chain[p]).value]
  BY DEF ApplyWrite
<1>4. Good(stored', svc', request, dismissed, settledGone, crowded)
  BY <1>1, <1>2, ExecutesGood
<1>5. stored'[p] # 0 => stored'[p] >= stored[p]
  BY <1>1, <1>2, ExecutesBase
<1>6. \A x \in Presets : x # p => stored'[x] = stored[x] /\ stored[x] \in Nat
  BY <1>1, <1>3
<1> QED BY <1>3, <1>4, <1>5, <1>6 DEF PresetInv

LEMMA AnswerWriteInv ==
  ASSUME NEW p \in Presets, PresetInv, AnswerWrite(p)
  PROVE PresetInv'
<1>1. Good(stored, svc, request, dismissed, settledGone, crowded) /\ Base(stored, svc, request)
  BY DEF PresetInv, Good
<1>2. PICK o : o = Head(svc.chain[p]).op
  OBVIOUS
<1>3. PICK k : k = [svc EXCEPT !.chain[p] = Tail(@)]
  OBVIOUS
<1>4. /\ svc.chain[p] # <<>> /\ stored' = stored /\ crowded' = crowded
      /\ \/ Head(svc.chain[p]).state = "applied" /\ PresetStep(o, GoOn(k, o, request[o], TRUE))
         \/ PresetStep(o, GoOn(k, o, request[o], FALSE))
      /\ IF request[o].pc = "deleting"
         THEN Dismiss(o, TRUE)
         ELSE dismissed' = dismissed /\ settledGone' = settledGone
  BY <1>2, <1>3 DEF AnswerWrite
<1>5. PICK ok \in BOOLEAN : /\ ok => Head(svc.chain[p]).state = "applied"
                            /\ PresetStep(o, GoOn(k, o, request[o], ok))
  BY <1>4
<1>6. AnswerOf(svc, k, request, o, p, ok)
  BY <1>2, <1>3, <1>4, <1>5 DEF AnswerOf
<1>7. \/ request[o].pc \in {"writing", "deleting"} /\ request[o].preset = p
      \/ request[o].pc \in {"flushing", "untombing"}
  BY <1>1, <1>6, AnswerOwner
<1>8. PICK x \in GoOn(k, o, request[o], ok) : svc' = x.s /\ Replaces(request, request', o, x.r)
  BY <1>5 DEF PresetStep, Replaces
<1>9. CASE request[o].pc = "writing"
  <2>1. x \in Persisted(k, o, request[o], ok)
    BY <1>8, <1>9 DEF GoOn
  <2>2. Good(stored, x.s, request', dismissed, settledGone, crowded)
    BY <1>1, <1>6, <1>8, <1>9, <2>1, PersistedGood
  <2> QED BY <1>4, <1>8, <1>9, <2>2 DEF PresetInv
<1>10. CASE request[o].pc = "flushing"
  <2>1. x \in Flushed(k, o, request[o], ok)
    BY <1>8, <1>10 DEF GoOn
  <2>2. Good(stored, x.s, request', dismissed, settledGone, crowded)
    BY <1>1, <1>6, <1>8, <1>10, <2>1, FlushedGood
  <2> QED BY <1>4, <1>8, <1>10, <2>2 DEF PresetInv
<1>11. CASE request[o].pc = "untombing"
  <2>1. x \in Untombed(k, o, request[o], ok)
    BY <1>8, <1>11 DEF GoOn
  <2>2. Good(stored, x.s, request', dismissed, settledGone, crowded)
    BY <1>1, <1>6, <1>8, <1>11, <2>1, UntombedGood
  <2> QED BY <1>4, <1>8, <1>11, <2>2 DEF PresetInv
<1>12. CASE request[o].pc = "deleting"
  <2>1. x \in DeleteSettled(k, o, request[o], ok)
    BY <1>8, <1>12 DEF GoOn
  <2>2. Reports(dismissed, dismissed', settledGone, settledGone', crowded, p, TRUE)
    BY <1>4, <1>7, <1>12 DEF Dismiss, Reports
  <2>3. Good(stored, x.s, request', dismissed', settledGone', crowded)
    BY <1>1, <1>6, <1>8, <1>12, <2>1, <2>2, DeleteSettledGood
  <2> QED BY <1>4, <1>8, <2>3 DEF PresetInv
<1> QED BY <1>7, <1>9, <1>10, <1>11, <1>12

LEMMA ReadPresetsInv ==
  ASSUME PresetInv, ReadPresets
  PROVE PresetInv'
<1>1. Good(stored, svc, request, dismissed, settledGone, crowded) /\ svc \in PresetMaps
  BY DEF PresetInv, Good, Base
<1>2. PICK b \in BOOLEAN : svc' = [svc EXCEPT !.unavailable = b]
  <2>1. PICK a \in BOOLEAN : a = UnsettledPresets(svc)
    BY DEF UnsettledPresets
  <2> QED BY <2>1 DEF ReadPresets
<1>3. Rated(svc, svc', b)
  BY <1>2 DEF Rated
<1>4. /\ svc' \in PresetMaps
      /\ svc'.memory = svc.memory /\ svc'.pending = svc.pending /\ svc'.inFlight = svc.inFlight
      /\ svc'.tombs = svc.tombs /\ svc'.gen = svc.gen /\ svc'.token = svc.token /\ svc'.chain = svc.chain
      /\ svc'.last = svc.last
  BY <1>1, <1>3, UnavailableFields
<1>5. Good(stored, svc', request, dismissed, settledGone, crowded)
  BY <1>1, <1>4, SameGood
<1> QED BY <1>5 DEF PresetInv, ReadPresets

LEMMA PresetStepInv ==
  ASSUME PresetInv, [PresetNext]_presetVars
  PROVE PresetInv' /\ \A p \in Presets : stored'[p] # GonePreset => stored'[p] >= stored[p]
<1>1. stored \in [Presets -> Nat]
  BY DEF PresetInv, Good, Base
<1>2. stored' = stored => \A p \in Presets : stored'[p] # GonePreset => stored'[p] >= stored[p]
  BY <1>1
<1>3. ASSUME NEW o \in PresetOps, NEW p \in Presets, UpdatePreset(o, p) PROVE PresetInv' /\ stored' = stored
  BY <1>3, UpdatePresetInv DEF UpdatePreset
<1>4. ASSUME NEW o \in PresetOps, NEW p \in Presets, DeletePreset(o, p) PROVE PresetInv' /\ stored' = stored
  BY <1>4, DeletePresetInv DEF DeletePreset
<1>5. ASSUME NEW o \in PresetOps, ReadSnapshot(o) PROVE PresetInv' /\ stored' = stored
  BY <1>5, ReadSnapshotInv DEF ReadSnapshot
<1>6. ASSUME NEW o \in PresetOps, ReadForUpdate(o) PROVE PresetInv' /\ stored' = stored
  BY <1>6, ReadForUpdateInv DEF ReadForUpdate
<1>7. ASSUME NEW o \in PresetOps, ReadForDelete(o) PROVE PresetInv' /\ stored' = stored
  BY <1>7, ReadForDeleteInv DEF ReadForDelete
<1>8. ASSUME NEW p \in Presets, AnswerWrite(p) PROVE PresetInv' /\ stored' = stored
  BY <1>8, AnswerWriteInv DEF AnswerWrite
<1>9. ASSUME ReadPresets PROVE PresetInv' /\ stored' = stored
  BY <1>9, ReadPresetsInv DEF ReadPresets
<1>10. ASSUME NEW p \in Presets, ApplyWrite(p)
       PROVE PresetInv' /\ \A x \in Presets : stored'[x] # GonePreset => stored'[x] >= stored[x]
  BY <1>10, ApplyWriteInv DEF GonePreset
<1>11. CASE UNCHANGED presetVars
  BY <1>2, <1>11 DEF presetVars, PresetInv
<1> QED BY <1>2, <1>3, <1>4, <1>5, <1>6, <1>7, <1>8, <1>9, <1>10, <1>11 DEF PresetNext

LEMMA PresetInvAlways == PresetSpec => []PresetInv
<1>1. PresetInv /\ [PresetNext]_presetVars => PresetInv'
  BY PresetStepInv
<1> QED BY PresetInitInv, <1>1, PTL DEF PresetSpec

LEMMA PresetInvTypes == PresetInv => PresetTypeOK
<1> SUFFICES ASSUME PresetInv PROVE PresetTypeOK
  OBVIOUS
<1>1. /\ stored \in [Presets -> Nat] /\ svc \in PresetMaps /\ dismissed \subseteq Presets
      /\ settledGone \subseteq Presets /\ GoneInv(stored, svc, request, dismissed, settledGone)
  BY DEF PresetInv, Good, Base
<1>2. settledGone \subseteq dismissed
  BY <1>1 DEF GoneInv
<1> QED BY <1>1, <1>2 DEF PresetTypeOK, PresetValues, PresetMaps, PresetFlights

\* A preset no deletion is about: its newest value is in Firestore, unless something of it
\* is still queued or written.
LEMMA UntouchedStored ==
  ASSUME PresetInv, NEW p \in Presets, p \notin dismissed, p \notin BeingDeleted, svc.memory[p] # 0
  PROVE /\ svc.memory[p] = svc.last[p]
        /\ \/ svc.pending[p] = svc.memory[p]
           \/ \E o \in PresetOps : Carries(svc, request, p, o)
           \/ stored[p] = svc.memory[p]
<1>1. StayInv(stored, svc, request, dismissed) /\ OrderInv(stored, svc)
  BY DEF PresetInv, Good, Base
<1>2. ~Leaving(svc, request, dismissed, p)
  <2>1. ASSUME NEW o \in PresetOps, Dooms(svc, request[o], p) PROVE FALSE
    <3>1. request[o].preset = p /\ request[o].pc \in {"removing", "removeRead", "deleting"}
      BY <2>1 DEF Dooms
    <3> QED BY <3>1 DEF BeingDeleted
  <2> QED BY <2>1 DEF Leaving
<1>3. svc.memory[p] = svc.last[p]
  BY <1>1 DEF OrderInv
<1>4. Newest(stored, svc, request, p)
  BY <1>1, <1>2 DEF StayInv
<1> QED BY <1>3, <1>4 DEF Newest

LEMMA PresetInvSafe == PresetInv => PresetsSafe
<1> SUFFICES ASSUME PresetInv PROVE PresetsSafe
  OBVIOUS
<1>1. NoOp \notin PresetOps
  BY PresetAssumption
<1>2. ASSUME Durable, NEW p \in Presets \ (BeingDeleted \cup dismissed), svc.memory[p] # GonePreset
      PROVE stored[p] = svc.memory[p]
  <2>1. /\ svc.memory[p] = svc.last[p]
        /\ \/ svc.pending[p] = svc.memory[p]
           \/ \E o \in PresetOps : Carries(svc, request, p, o)
           \/ stored[p] = svc.memory[p]
    BY <1>2, UntouchedStored DEF GonePreset
  <2>2. svc.pending[p] = 0 /\ svc.inFlight[p] = NoWrite
    BY <1>2 DEF Durable, UnsettledPresets, WaitingPresets, GonePreset
  <2>3. ASSUME NEW o \in PresetOps, Carries(svc, request, p, o) PROVE FALSE
    <3>1. [op |-> o, value |-> svc.last[p]] = NoWrite
      BY <2>2, <2>3 DEF Carries
    <3> QED BY <1>1, <3>1 DEF NoWrite
  <2> QED BY <1>2, <2>1, <2>2, <2>3 DEF GonePreset
<1>3. ASSUME \A o \in PresetOps : ~PresetUnderway(o), NEW p \in Presets \ dismissed, svc.memory[p] # GonePreset
      PROVE svc.memory[p] \in {stored[p], svc.pending[p]}
  <2>1. \A o \in PresetOps : request[o].pc \in {"idle", "done"}
    BY <1>3 DEF PresetUnderway
  <2>2. p \notin BeingDeleted
    BY <2>1 DEF BeingDeleted
  <2>3. \A o \in PresetOps : ~Carries(svc, request, p, o)
    BY <2>1 DEF Carries
  <2> QED BY <1>3, <2>2, <2>3, UntouchedStored DEF GonePreset
<1>4. DeletedStays
  <2>1. GoneInv(stored, svc, request, dismissed, settledGone)
    BY DEF PresetInv, Good
  <2> QED BY <2>1 DEF DeletedStays, GoneInv, NoRestore, Erased, Cleared, GonePreset
<1> QED BY <1>2, <1>3, <1>4 DEF PresetsSafe, DurableMeansStored, AcceptedKept

-----------------------------------------------------------------------------
(* What is promised. *)

\* Every map of the service, and what the run keeps of the answers, has its type.
THEOREM PresetMapTypes == PresetSpec => []PresetTypeOK
BY PresetInvAlways, PresetInvTypes, PTL

\* Whatever the number of presets and requests and however many calls of Firestore fail:
\* a "durable" status is true, an accepted value is stored or queued, and a preset that was
\* deleted with no other request about it stays deleted (getStorageStatus,
\* _persistPreset, _flushPendingPresets, _flushPendingDeletes, deletePreset).
THEOREM PresetsStaySafe == PresetSpec => []PresetsSafe
BY PresetInvAlways, PresetInvSafe, PTL

\* Firestore never goes back from a newer accepted value to an older one
\* (_writeFirestorePreset).
THEOREM PresetsGrow == PresetSpec => NoOlderWrite
<1>1. PresetInv /\ [PresetNext]_presetVars =>
        [\A p \in Presets : stored'[p] # GonePreset => stored'[p] >= stored[p]]_presetVars
  BY PresetStepInv
<1> QED BY PresetInvAlways, <1>1, PTL DEF PresetSpec, NoOlderWrite
==============================================================================

--------------------------- MODULE ScannerPresets ---------------------------
(***************************************************************************)
(* Saved scanner presets: the maps that ScannerPresetService keeps in one  *)
(* process beside the Firestore collection, with persistence enabled.      *)
(*                                                                         *)
(* Calls of Firestore and their answers are separate steps; what the code  *)
(* does between two awaits is one step.  Writes of one preset go through a *)
(* chain of promises: each is issued when the one before has settled.      *)
(* Values are the ranks of accepted writes, GonePreset where there is none. *)
(***************************************************************************)
EXTENDS Naturals, Sequences, FiniteSets

CONSTANTS Presets,          \* identifiers of presets
          PresetOps,        \* requests, each used once
          NoOp,             \* not a request
          OwnPresets,       \* presets this process created, the others are of an earlier one
          MaxPresetFaults   \* bound on the failing calls of Firestore

ASSUME PresetAssumption == NoOp \notin PresetOps /\ OwnPresets \subseteq Presets
                            /\ MaxPresetFaults \in Nat

GonePreset == 0
NoWrite == [op |-> NoOp, value |-> GonePreset]

VARIABLES
  stored,       \* the collection: value of each preset, GonePreset where there is no document
  svc,          \* the maps of the service, a record (see PresetInit)
  request,      \* the requests, a record each
  dismissed,    \* presets whose deletion was answered with success
  settledGone,  \* those of which no two requests had overlapped until then
  crowded,      \* presets of which two requests overlapped
  presetFaults  \* failures so far

presetVars == <<stored, svc, request, dismissed, settledGone, crowded, presetFaults>>

IdleRequest == [pc |-> "idle", preset |-> NoOp, gen |-> 0, seen |-> GonePreset,
                had |-> FALSE, todo |-> {}, at |-> NoOp, token |-> NoOp, value |-> GonePreset]

\* Every preset exists at the start.
PresetInit ==
  /\ stored = [p \in Presets |-> 1]
  /\ svc = [memory |-> [p \in Presets |-> IF p \in OwnPresets THEN 1 ELSE GonePreset],
            pending |-> [p \in Presets |-> GonePreset],
            inFlight |-> [p \in Presets |-> NoWrite],
            tombs |-> {},
            gen |-> [p \in Presets |-> 0],
            token |-> [p \in Presets |-> NoOp],
            chain |-> [p \in Presets |-> <<>>],
            last |-> [p \in Presets |-> 1],
            unavailable |-> FALSE]
  /\ request = [o \in PresetOps |-> IdleRequest]
  /\ dismissed = {} /\ settledGone = {} /\ crowded = {}
  /\ presetFaults = 0

PresetUnderway(o) == request[o].pc \notin {"idle", "done"}

WaitingPresets(s) == {p \in Presets : s.pending[p] # GonePreset}

\* What still has to reach Firestore, in the sense of the reads.
UnsettledPresets(s) ==
  \/ WaitingPresets(s) # {}
  \/ \E p \in Presets : s.inFlight[p] # NoWrite
  \/ s.tombs # {}

FirestoreFault == presetFaults < MaxPresetFaults /\ presetFaults' = presetFaults + 1
NoFirestoreFault == UNCHANGED presetFaults

MarkDeleted(s, p) == [s EXCEPT !.tombs = @ \cup {p}, !.gen[p] = @ + 1]

EnqueueWrite(s, p, o, v) ==
  [s EXCEPT !.chain[p] = Append(@, [op |-> o, value |-> v, state |-> "queued"])]

(* The pieces of a request after an answer.  A state of the process is a pair *)
(* [s |-> svc, r |-> the request]; the loops over a map start anywhere.       *)

WriteEnded(s, o, r) ==
  {[s |-> [s EXCEPT !.inFlight[r.preset] =
             IF @ = [op |-> o, value |-> r.value] THEN NoWrite ELSE @],
    r |-> [IdleRequest EXCEPT !.pc = "done", !.preset = r.preset]]}

\* _flushPendingPresets from the presets of todo on.
FlushPresets(s, o, r, todo) ==
  LET live == {p \in todo : s.pending[p] # GonePreset}
      flush(p) ==
        [s |-> EnqueueWrite([s EXCEPT !.pending[p] = GonePreset,
                                 !.inFlight[p] = [op |-> o, value |-> s.pending[p]]],
                       p, o, s.pending[p]),
         r |-> [r EXCEPT !.pc = "flushing", !.at = p, !.todo = todo \ {p}, !.gen = s.gen[p],
                         !.seen = s.pending[p], !.token = s.token[p]]]
  IN IF live = {}
     THEN WriteEnded([s EXCEPT !.unavailable = WaitingPresets(s) # {} \/ s.tombs # {}], o, r)
     ELSE {flush(p) : p \in live}

\* _flushPendingDeletes from the presets of todo on.
FlushDeletes(s, o, r, todo) ==
  LET untomb(p) == [s |-> EnqueueWrite(s, p, o, GonePreset),
                    r |-> [r EXCEPT !.pc = "untombing", !.at = p, !.todo = todo \ {p}]]
  IN IF todo = {} THEN FlushPresets(s, o, r, WaitingPresets(s)) ELSE {untomb(p) : p \in todo}

\* Mutant: the write's success does not look at the token.
TokenlessPersisted(s, o, r, ok) ==
  LET p == r.preset
      same == s.gen[p] = r.gen
      clean == [s EXCEPT !.pending[p] = GonePreset,
                         !.token[p] = NoOp,
                         !.tombs = IF same THEN @ \ {p} ELSE @]
      failed == [s EXCEPT !.pending[p] = IF same THEN r.value ELSE GonePreset,
                          !.token[p] = IF same THEN @ ELSE NoOp,
                          !.unavailable = TRUE]
  IN IF ok THEN FlushDeletes(clean, o, r, clean.tombs) ELSE WriteEnded(failed, o, r)

\* _persistPreset, once its own write has settled.
Persisted(s, o, r, ok) ==
  LET p == r.preset
      mine == s.token[p] = o
      same == s.gen[p] = r.gen
      clean == [s EXCEPT !.pending[p] = IF mine THEN GonePreset ELSE @,
                         !.token[p] = IF mine THEN NoOp ELSE @,
                         !.tombs = IF same THEN @ \ {p} ELSE @]
      failed == [s EXCEPT !.pending[p] = IF ~mine THEN @ ELSE IF same THEN r.value ELSE GonePreset,
                          !.token[p] = IF mine /\ ~same THEN NoOp ELSE @,
                          !.unavailable = TRUE]
  IN IF ok THEN FlushDeletes(clean, o, r, clean.tombs) ELSE WriteEnded(failed, o, r)

\* _flushPendingPresets, once the write of one preset has settled.
Flushed(s, o, r, ok) ==
  LET p == r.at
      restore == ~ok /\ s.token[p] = r.token /\ s.gen[p] = r.gen /\ s.pending[p] = GonePreset
      kept == [s EXCEPT !.inFlight[p] = IF @ = [op |-> o, value |-> r.seen] THEN NoWrite ELSE @,
                        !.token[p] = IF ok /\ @ = r.token THEN NoOp ELSE @,
                        !.pending[p] = IF restore THEN r.seen ELSE @,
                        !.unavailable = @ \/ ~ok]
  IN FlushPresets(kept, o, r, r.todo)

\* _flushPendingDeletes, once the deletion of one preset has settled.
Untombed(s, o, r, ok) ==
  LET kept == [s EXCEPT !.tombs = IF ok THEN @ \ {r.at} ELSE @,
                        !.unavailable = @ \/ ~ok]
  IN FlushDeletes(kept, o, r, r.todo)

Forgotten(s, r) == [s EXCEPT !.memory[r.preset] = GonePreset]
RequestEnded(r) == [IdleRequest EXCEPT !.pc = "done", !.preset = r.preset]

\* deletePreset, once its deletion has settled: a failed one leaves the tombstone.
DeleteSettled(s, o, r, ok) ==
  LET kept == IF ok
              THEN LET t == [s EXCEPT !.tombs = @ \ {r.preset}]
                   IN [t EXCEPT !.unavailable = WaitingPresets(t) # {} \/ t.tombs # {}]
              ELSE [s EXCEPT !.unavailable = TRUE]
  IN {[s |-> Forgotten(kept, r), r |-> RequestEnded(r)]}

GoOn(s, o, r, ok) ==
  CASE r.pc = "writing"   -> Persisted(s, o, r, ok)
    [] r.pc = "flushing"  -> Flushed(s, o, r, ok)
    [] r.pc = "untombing" -> Untombed(s, o, r, ok)
    [] r.pc = "deleting"  -> DeleteSettled(s, o, r, ok)

PresetStep(o, pairs) == \E x \in pairs : svc' = x.s /\ request' = [request EXCEPT ![o] = x.r]

\* A request for preset p starts.
Meet(o, p) ==
  LET others == {q \in PresetOps \ {o} : PresetUnderway(q) /\ request[q].preset = p}
  IN crowded' = IF others = {} THEN crowded ELSE crowded \cup {p}

\* A deletion is answered.
Dismiss(o, deleted) ==
  LET p == request[o].preset
  IN /\ dismissed' = IF deleted THEN dismissed \cup {p} ELSE dismissed
     /\ settledGone' = IF deleted /\ p \notin crowded THEN settledGone \cup {p} ELSE settledGone

-----------------------------------------------------------------------------
(* Requests *)

\* _persistPreset up to its first await, Firestore absent or not.
PersistPreset(s, o, r, online) ==
  LET p == r.preset
      v == s.last[p] + 1
      accepted == [s EXCEPT !.memory[p] = v, !.last[p] = v, !.token[p] = o,
                            !.tombs = @ \ {p}]
  IN IF online
     THEN {[s |-> EnqueueWrite([accepted EXCEPT !.pending[p] = GonePreset,
                                           !.inFlight[p] = [op |-> o, value |-> v]], p, o, v),
            r |-> [r EXCEPT !.pc = "writing", !.value = v]]}
     ELSE {[s |-> [accepted EXCEPT !.pending[p] = v], r |-> RequestEnded(r)]}

\* updatePreset after its read.
UpdateAfterRead(s, o, r, existing, online) ==
  IF existing = GonePreset \/ s.gen[r.preset] # r.gen \/ r.preset \in s.tombs
  THEN {[s |-> s, r |-> RequestEnded(r)]}
  ELSE PersistPreset(s, o, r, online)

\* What getPreset answers without asking Firestore.
LocalAnswer(s, p) ==
  CASE s.pending[p] # GonePreset        -> s.pending[p]
    [] OTHER -> IF p \in s.tombs THEN GonePreset ELSE s.inFlight[p].value

AsksFirestore(s, p) == s.pending[p] = GonePreset /\ p \notin s.tombs /\ s.inFlight[p] = NoWrite

UpdatePreset(o, p) ==
  LET r == [IdleRequest EXCEPT !.preset = p, !.gen = svc.gen[p]]
  IN /\ request[o].pc = "idle"
     /\ IF AsksFirestore(svc, p)
        THEN /\ request' = [request EXCEPT ![o] = [r EXCEPT !.pc = "updating"]]
             /\ UNCHANGED svc
        ELSE PresetStep(o, UpdateAfterRead(svc, o, r, LocalAnswer(svc, p), TRUE))
     /\ Meet(o, p)
     /\ UNCHANGED <<stored, dismissed, settledGone, presetFaults>>

PresetUnqueued(s, p) == [s EXCEPT !.pending[p] = GonePreset]

\* deletePreset up to its read; Firestore may be absent.
DeletePreset(o, p) ==
  LET had == svc.memory[p] # GonePreset \/ svc.pending[p] # GonePreset
      cleared == PresetUnqueued(svc, p)
      marked == IF had THEN MarkDeleted(cleared, p) ELSE cleared
      r == [IdleRequest EXCEPT !.preset = p, !.had = had]
  IN /\ request[o].pc = "idle"
     /\ Meet(o, p)
     /\ \/ /\ svc' = marked
           /\ request' = [request EXCEPT ![o] = [r EXCEPT !.pc = "removing"]]
           /\ NoFirestoreFault
           /\ UNCHANGED <<dismissed, settledGone>>
        \/ /\ FirestoreFault
           /\ svc' = [marked EXCEPT !.memory[p] = GonePreset]
           /\ request' = [request EXCEPT ![o] = RequestEnded(r)]
           /\ dismissed' = IF had THEN dismissed \cup {p} ELSE dismissed
           /\ settledGone' = IF had /\ p \notin crowded'
                             THEN settledGone \cup {p} ELSE settledGone
     /\ UNCHANGED stored

\* Firestore takes the snapshot of a read.
ReadSnapshot(o) ==
  /\ request[o].pc \in {"updating", "removing"}
  /\ request' = [request EXCEPT ![o].seen = stored[request[o].preset],
                                ![o].pc = IF @ = "updating" THEN "updateRead" ELSE "removeRead"]
  /\ UNCHANGED <<stored, svc, dismissed, settledGone, crowded, presetFaults>>

\* The read of an update is answered, or fails: then memory answers.
ReadForUpdate(o) ==
  LET r == request[o]
      read(s, err) == [s EXCEPT !.unavailable = err \/ UnsettledPresets(s)]
  IN /\ r.pc = "updateRead"
     /\ \/ /\ NoFirestoreFault
           /\ PresetStep(o, UpdateAfterRead(read(svc, FALSE), o, r, r.seen, TRUE))
        \/ /\ FirestoreFault
           /\ \E online \in BOOLEAN :
                PresetStep(o, UpdateAfterRead(read(svc, TRUE), o, r, svc.memory[r.preset], online))
     /\ UNCHANGED <<stored, dismissed, settledGone, crowded>>

\* The read of a deletion is answered, or fails: then only the tombstone stays.
ReadForDelete(o) ==
  LET r == request[o]
      p == r.preset
      found == r.seen # GonePreset
      marked == IF found /\ p \notin svc.tombs THEN MarkDeleted(svc, p) ELSE svc
  IN /\ r.pc = "removeRead"
     /\ \/ /\ NoFirestoreFault /\ (found \/ r.had)
           /\ svc' = EnqueueWrite(marked, p, o, GonePreset)
           /\ request' = [request EXCEPT ![o].pc = "deleting"]
           /\ UNCHANGED <<dismissed, settledGone>>
        \/ /\ NoFirestoreFault /\ ~found /\ ~r.had
           /\ svc' = Forgotten([svc EXCEPT !.unavailable = WaitingPresets(svc) # {} \/ svc.tombs # {}], r)
           /\ request' = [request EXCEPT ![o] = RequestEnded(r)]
           /\ Dismiss(o, svc.memory[p] # GonePreset)
        \/ /\ FirestoreFault
           /\ svc' = Forgotten([svc EXCEPT !.unavailable = TRUE], r)
           /\ request' = [request EXCEPT ![o] = RequestEnded(r)]
           /\ Dismiss(o, svc.memory[p] # GonePreset)
     /\ UNCHANGED <<stored, crowded>>

\* Mutant: writes of one preset are not chained.
AnyApply(p) ==
  \E i \in DOMAIN svc.chain[p] :
    /\ svc.chain[p][i].state = "queued"
    /\ svc' = [svc EXCEPT !.chain[p][i].state = "applied"]
    /\ stored' = [stored EXCEPT ![p] = svc.chain[p][i].value]
    /\ UNCHANGED <<request, dismissed, settledGone, crowded, presetFaults>>

\* Firestore executes the write at the head of a preset's chain.
ApplyWrite(p) ==
  /\ svc.chain[p] # <<>> /\ Head(svc.chain[p]).state = "queued"
  /\ svc' = [svc EXCEPT !.chain[p][1].state = "applied"]
  /\ stored' = [stored EXCEPT ![p] = Head(svc.chain[p]).value]
  /\ UNCHANGED <<request, dismissed, settledGone, crowded, presetFaults>>

\* The answer of that write arrives; an error may hide a write that was executed.
AnswerWrite(p) ==
  LET head == Head(svc.chain[p])
      o == head.op
      popped == [svc EXCEPT !.chain[p] = Tail(@)]
  IN /\ svc.chain[p] # <<>>
     /\ \/ /\ head.state = "applied" /\ NoFirestoreFault
           /\ PresetStep(o, GoOn(popped, o, request[o], TRUE))
        \/ /\ FirestoreFault
           /\ PresetStep(o, GoOn(popped, o, request[o], FALSE))
     /\ IF request[o].pc = "deleting"
        THEN Dismiss(o, TRUE)
        ELSE UNCHANGED <<dismissed, settledGone>>
     /\ UNCHANGED <<stored, crowded>>

\* getPreset and listPresets, answered by Firestore or failing.
ReadPresets ==
  /\ \/ NoFirestoreFault /\ svc' = [svc EXCEPT !.unavailable = UnsettledPresets(svc)]
     \/ FirestoreFault /\ svc' = [svc EXCEPT !.unavailable = TRUE]
  /\ UNCHANGED <<stored, request, dismissed, settledGone, crowded>>

PresetNext ==
  \/ \E o \in PresetOps :
       \/ \E p \in Presets : UpdatePreset(o, p) \/ DeletePreset(o, p)
       \/ ReadSnapshot(o) \/ ReadForUpdate(o) \/ ReadForDelete(o)
  \/ \E p \in Presets : ApplyWrite(p) \/ AnswerWrite(p)
  \/ ReadPresets

PresetSpec == PresetInit /\ [][PresetNext]_presetVars

-----------------------------------------------------------------------------
PresetValues == Nat

PresetTypeOK ==
  /\ stored \in [Presets -> PresetValues]
  /\ svc.memory \in [Presets -> PresetValues]
  /\ svc.pending \in [Presets -> PresetValues]
  /\ svc.inFlight \in [Presets -> [op : PresetOps \cup {NoOp}, value : PresetValues]]
  /\ svc.tombs \subseteq Presets
  /\ svc.unavailable \in BOOLEAN
  /\ settledGone \subseteq dismissed /\ dismissed \subseteq Presets

BeingDeleted ==
  {request[o].preset : o \in {q \in PresetOps : request[q].pc \in {"removing", "removeRead", "deleting"}}}

\* getStorageStatus.
Durable == ~svc.unavailable /\ ~UnsettledPresets(svc)

\* When the status says "durable", every update that was accepted is in Firestore:
\* neither of the failed, flushed or overtaken writes was forgotten (getStorageStatus).
\* A preset whose deletion was answered is left out: an update may restore it
\* (DeletedNotRestored), and a flush under way still deletes the restored document.
DurableMeansStored ==
  Durable => \A p \in Presets \ (BeingDeleted \cup dismissed) :
               svc.memory[p] # GonePreset => stored[p] = svc.memory[p]

\* Once every request has been answered, the newest accepted value of a preset that no
\* answered deletion removed is in Firestore or queued for the next flush
\* (_persistPreset, _flushPendingPresets).
AcceptedKept ==
  (\A o \in PresetOps : ~PresetUnderway(o)) =>
    \A p \in Presets \ dismissed : svc.memory[p] # GonePreset => svc.memory[p] \in {stored[p], svc.pending[p]}

\* A preset of which no two requests overlapped before its deletion was answered stays
\* gone: without a tombstone it is not in Firestore, and getPreset does not find it
\* (deletePreset, updatePreset).
DeletedStays ==
  \A p \in settledGone \ svc.tombs :
    stored[p] = GonePreset /\ svc.pending[p] = GonePreset /\ svc.inFlight[p] = NoWrite

\* Accepted changes are neither lost nor undone: a durable status is true, the newest
\* accepted value is stored or queued, and what was deleted stays so (getStorageStatus,
\* _persistPreset, _flushPendingPresets, deletePreset).
PresetsSafe == DurableMeansStored /\ AcceptedKept /\ DeletedStays

\* A preset whose deletion was answered does not come back: when every request is done it
\* is not in Firestore, unless a tombstone is left (the tests "does not resurrect ...").
DeletedNotRestored ==
  (\A o \in PresetOps : ~PresetUnderway(o)) => \A p \in dismissed \ svc.tombs : stored[p] = GonePreset

\* A write never replaces a newer accepted value in Firestore by an older one
\* (_writeFirestorePreset's chain, tokens and claims of pending values).
NoOlderWrite ==
  [][\A p \in Presets : stored'[p] # GonePreset => stored'[p] >= stored[p]]_presetVars
=============================================================================

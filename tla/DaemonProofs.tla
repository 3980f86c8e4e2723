------------------------------ MODULE DaemonProofs ------------------------------
(* The daemon, for any finite sets of names and requests and any bounds: what *)
(* it removes ends closed and repos.toml follows the registry; all daemons    *)
(* and clients agree on one token; and its end leaves nothing behind that it  *)
(* has not cut short.                                                         *)
EXTENDS RepoDaemon, DaemonToken, DaemonShutdown, FiniteSetTheorems, SequenceTheorems, TLAPS

-----------------------------------------------------------------------------
(* The registry, its slots and the handlers: RepoDaemon.                     *)

(* A slot a handler is at work on.                                           *)
Numbers == DOMAIN slots
RegisteredSlot(s) == \E n \in Names : registry[n] = s

(* A removal from its start to the end of its work on the slot, and an       *)
(* addition up to the start of the thread.                                   *)
Removing(h) == job[h].at \in {"cancel", "join", "close", "drop"}
Adding(h) ==
  \/ job[h].at \in {"thread", "start"}
  \/ job[h].at \in {"snapshot", "assign", "serialise", "rename"} /\ job[h].then = "thread"
Querying(h) == job[h].at \in {"use", "enter", "run"}
OnSlot(h) == Removing(h) \/ Adding(h) \/ Querying(h) \/ job[h].at = "stream"

Types ==
  /\ registry \in [Names -> 0..Len(slots)]
  /\ slots \in Seq(Slots) /\ Len(slots) <= MaxSlots
  /\ job \in [Handlers -> Jobs]
  /\ cfgRepos \subseteq Names /\ file \subseteq Names
  /\ used \in [{"faults", "timeouts"} -> Nat]
  /\ used["faults"] <= MaxFaults /\ used["timeouts"] <= MaxTimeouts
  /\ unfinished \in BOOLEAN /\ overlapped \in BOOLEAN
  /\ reopened \subseteq Numbers

(* What a slot goes through: made, queued for its thread, indexed, and ready *)
(* or failed, or closed by a thread of its own because it was removed.       *)
Shaped(slot) ==
  \/ /\ slot.state = "queued" /\ ~slot.index /\ slot.conn = "closed"
     /\ \/ slot.thread \in {"none", "assigned"} /\ slot.work = "none"
        \/ slot.thread = "started" /\ slot.work = "begin"
  \/ /\ slot.state = "indexing" /\ ~slot.index /\ slot.thread = "started"
     /\ \/ slot.work \in {"build", "open", "error"} /\ slot.conn = "closed"
        \/ slot.work = "ready" /\ slot.conn = "open"
        \/ slot.work = "done" /\ slot.conn \in {"closing", "closed"} /\ slot.cancel
  \/ /\ slot.state \in {"ready", "error"}
     /\ \/ slot.thread = "none" /\ slot.work = "none"
        \/ slot.thread = "started" /\ slot.work = "done"
     /\ slot.state = "ready" => slot.conn \in {"open", "closed"}
     /\ slot.state = "error" => ~slot.index /\ slot.conn = "closed"

(* The slots handlers are at work on.                                        *)
HandlersPlaced ==
  \A h \in Handlers :
    /\ OnSlot(h) => job[h].slot \in Numbers
    /\ Adding(h) =>
         /\ Mine(h).state = "queued" /\ Mine(h).work = "none"
         /\ Mine(h).thread = IF job[h].at = "start" THEN "assigned" ELSE "none"
    /\ Removing(h) => ~RegisteredSlot(job[h].slot) /\ job[h].then = "idle"
    /\ job[h].at \in {"join", "close", "drop"} => Mine(h).cancel
    /\ Querying(h) => Mine(h).state = "ready"
    /\ job[h].at = "drop" => Mine(h).index

(* One handler adds a slot, and one removes it.                              *)
OneEach ==
  \A h, g \in Handlers :
    (job[h].slot = job[g].slot /\ ((Adding(h) /\ Adding(g)) \/ (Removing(h) /\ Removing(g)))) => h = g

SlotsKept ==
  \A s \in Numbers :
    /\ Shaped(slots[s])
    /\ \A n \in Names : registry[n] = s => slots[s].name = n
    /\ ~RegisteredSlot(s) =>
         /\ slots[s].cancel \/ \E h \in Handlers : job[h].at = "cancel" /\ job[h].slot = s
         /\ slots[s].index => \E h \in Handlers : Removing(h) /\ job[h].slot = s
    /\ slots[s].state = "ready" /\ (~slots[s].index \/ \E h \in Handlers : job[h].at = "drop" /\ job[h].slot = s) =>
         slots[s].conn = "closed" \/ s \in reopened

(* A change of the registry not written anywhere yet.                        *)
Changing(h) == job[h].at = "snapshot" \/ Removing(h)

Saved ==
  (~overlapped /\ ~unfinished) =>
    /\ \A h, g \in Handlers : Persisting(h) /\ Persisting(g) => h = g
    /\ (\A h \in Handlers : ~Changing(h)) =>
         /\ \A h \in Handlers :
              /\ job[h].at \in {"assign", "rename"} => job[h].names = Registered
              /\ job[h].at = "serialise" => cfgRepos = Registered
         /\ (\A h \in Handlers : ~Persisting(h)) => file = Registered

DaemonInv == Types /\ HandlersPlaced /\ OneEach /\ SlotsKept /\ Saved

LEMMA IdleIsAJob == Idle \in Jobs
<1>1. Cardinality(Names) \in Nat
  BY NamesAssumption, FS_CardinalityType
<1> QED
  BY <1>1, BoundsAssumption DEF Idle, Jobs, Places

LEMMA DaemonInitInv ==
  ASSUME Init
  PROVE  DaemonInv
<1>1. /\ job = [h \in Handlers |-> Idle] /\ cfgRepos = Registered /\ file = Registered
      /\ used = [kind \in DOMAIN Bounds |-> 0] /\ unfinished = FALSE /\ overlapped = FALSE /\ reopened = {}
  BY DEF Init
<1>2. \A h \in Handlers : job[h] = Idle /\ job[h].at = "idle"
  BY <1>1 DEF Idle
<1>3. \A h \in Handlers : ~OnSlot(h) /\ ~Adding(h) /\ ~Removing(h) /\ ~Querying(h) /\ ~Changing(h) /\ ~Persisting(h)
  BY <1>2 DEF OnSlot, Adding, Removing, Querying, Changing, Persisting
<1>4. HandlersPlaced /\ OneEach /\ Saved
  BY <1>1, <1>2, <1>3 DEF HandlersPlaced, OneEach, Saved
<1>5. Idle \in Jobs
  BY IdleIsAJob
<1>6. job \in [Handlers -> Jobs] /\ Registered \subseteq Names /\ used \in [{"faults", "timeouts"} -> Nat]
      /\ used["faults"] <= MaxFaults /\ used["timeouts"] <= MaxTimeouts
  BY <1>1, <1>5, BoundsAssumption DEF Registered, Bounds
<1>7. CASE slots = <<>> /\ registry = [n \in Names |-> 0]
  <2>1. slots \in Seq(Slots) /\ Len(slots) = 0 /\ Numbers = {}
    <3>1. <<>> \in Seq(Slots) /\ Len(<<>>) = 0
      BY EmptySeq
    <3>2. DOMAIN slots = 1 .. 0
      BY <1>7, <3>1, LenProperties
    <3>3. 1 .. 0 = {}
      OBVIOUS
    <3> QED
      BY <1>7, <3>1, <3>2, <3>3 DEF Numbers
  <2>2. Types
    <3>1. registry \in [Names -> 0 .. 0] /\ 0 <= MaxSlots
      BY <1>7, BoundsAssumption
    <3> QED
      BY <1>1, <1>6, <2>1, <3>1 DEF Types
  <2>3. SlotsKept
    BY <2>1 DEF SlotsKept
  <2> QED
    BY <1>4, <2>2, <2>3 DEF DaemonInv
<1>8. ASSUME NEW n \in Names, NEW slot \in LoadedSlots(n), slots = <<slot>>,
             registry = [m \in Names |-> IF m = n THEN 1 ELSE 0]
      PROVE  DaemonInv
  <2>1. slot \in Slots /\ Shaped(slot) /\ slot.name = n /\ (slot.state = "ready" => slot.index)
    <3>1. CASE slot = [NewSlot(n) EXCEPT !.state = "ready", !.index = TRUE, !.conn = "open"]
      BY <3>1 DEF NewSlot, Slots, Shaped
    <3>2. CASE slot = [NewSlot(n) EXCEPT !.state = "error"]
      BY <3>2 DEF NewSlot, Slots, Shaped
    <3> QED
      BY <1>8, <3>1, <3>2 DEF LoadedSlots
  <2>2. slots \in Seq(Slots) /\ Len(slots) = 1 /\ Numbers = {1} /\ slots[1] = slot
    <3>1. <<slot>> \in Seq(Slots) /\ Len(<<slot>>) = 1 /\ <<slot>>[1] = slot
      BY <2>1
    <3>2. DOMAIN <<slot>> = 1 .. 1
      OBVIOUS
    <3> QED
      BY <1>8, <3>1, <3>2 DEF Numbers
  <2>3. Types
    <3>1. registry \in [Names -> 0 .. 1] /\ 1 <= MaxSlots
      BY <1>8, BoundsAssumption
    <3> QED
      BY <1>1, <1>6, <2>2, <3>1 DEF Types
  <2>4. SlotsKept
    BY <1>2, <1>8, <2>1, <2>2 DEF SlotsKept, RegisteredSlot
  <2> QED
    BY <1>4, <2>3, <2>4 DEF DaemonInv
<1> QED
  BY <1>7, <1>8 DEF Init

(* What a step does to one slot, or to the job of one handler.               *)
LEMMA SlotAfter ==
  ASSUME Types, NEW s \in Numbers, NEW new \in Slots, slots' = [slots EXCEPT ![s] = new]
  PROVE  /\ slots' \in Seq(Slots) /\ Len(slots') = Len(slots) /\ Numbers' = Numbers
         /\ slots'[s] = new /\ \A q \in Numbers : q # s => slots'[q] = slots[q]
<1>1. PICK n \in Nat : n = Len(slots) /\ Numbers = 1 .. n
  BY LenProperties DEF Types, Numbers
<1>2. /\ slots' \in Seq(Slots) /\ Len(slots') = n
      /\ \A j \in 1 .. n : slots'[j] = IF j = s THEN new ELSE slots[j]
  BY <1>1, ExceptSeq DEF Types
<1>3. Numbers' = 1 .. n
  BY <1>2, LenProperties DEF Numbers
<1> QED
  BY <1>1, <1>2, <1>3

LEMMA SlotTyped ==
  ASSUME Types, NEW s \in Numbers
  PROVE  slots[s] \in Slots
BY LenProperties DEF Types, Numbers

LEMMA JobAfter ==
  ASSUME Types, NEW h \in Handlers, NEW new \in Jobs, job' = [job EXCEPT ![h] = new]
  PROVE  /\ job' \in [Handlers -> Jobs]
         /\ job'[h] = new /\ \A g \in Handlers : g # h => job'[g] = job[g]
BY DEF Types

(* A step that neither starts nor ends a change of the registry or a save of *)
(* it.                                                                       *)
LEMMA SavedCarries ==
  ASSUME Saved, UNCHANGED <<registry, cfgRepos, file, overlapped>>,
         unfinished' = unfinished \/ unfinished' = TRUE,
         \A g \in Handlers :
           \/ job'[g] = job[g]
           \/ ~Persisting(g) /\ ~Persisting(g)' /\ (Changing(g) => Changing(g)')
  PROVE  Saved'
<1>1. Registered' = Registered
  BY DEF Registered
<1>2. \A g \in Handlers : (Persisting(g)' => Persisting(g) /\ job'[g] = job[g]) /\ (Persisting(g) => Persisting(g)')
  BY DEF Persisting
<1>3. \A g \in Handlers : Changing(g) => Changing(g)'
  BY DEF Changing, Removing
<1> SUFFICES ASSUME ~overlapped, ~unfinished
             PROVE  /\ \A h, g \in Handlers : Persisting(h)' /\ Persisting(g)' => h = g
                    /\ (\A h \in Handlers : ~Changing(h)') =>
                         /\ \A h \in Handlers :
                              /\ job'[h].at \in {"assign", "rename"} => job'[h].names = Registered
                              /\ job'[h].at = "serialise" => cfgRepos = Registered
                         /\ (\A h \in Handlers : ~Persisting(h)') => file = Registered
  BY <1>1 DEF Saved
<1>4. \A h, g \in Handlers : Persisting(h)' /\ Persisting(g)' => h = g
  BY <1>2 DEF Saved
<1>5. ASSUME \A h \in Handlers : ~Changing(h)'
      PROVE  /\ \A h \in Handlers :
                  /\ job'[h].at \in {"assign", "rename"} => job'[h].names = Registered
                  /\ job'[h].at = "serialise" => cfgRepos = Registered
             /\ (\A h \in Handlers : ~Persisting(h)') => file = Registered
  <2>1. /\ \A h \in Handlers :
             /\ job[h].at \in {"assign", "rename"} => job[h].names = Registered
             /\ job[h].at = "serialise" => cfgRepos = Registered
        /\ (\A h \in Handlers : ~Persisting(h)) => file = Registered
    BY <1>3, <1>5 DEF Saved
  <2>2. \A h \in Handlers : job'[h].at \in {"assign", "serialise", "rename"} => job'[h] = job[h]
    BY <1>2 DEF Persisting
  <2> QED
    BY <1>2, <2>1, <2>2
<1> QED
  BY <1>4, <1>5

(* A step of the thread that indexes a slot.                                 *)
LEMMA SlotStep ==
  ASSUME DaemonInv, NEW s \in Numbers, NEW new \in Slots,
         slots' = [slots EXCEPT ![s] = new],
         UNCHANGED <<registry, job, configs, unfinished, reopened>>,
         used' \in [{"faults", "timeouts"} -> Nat],
         used'["faults"] <= MaxFaults, used'["timeouts"] <= MaxTimeouts,
         slots[s].state \in {"queued", "indexing"}, slots[s].work # "none",
         new.name = slots[s].name, new.cancel = slots[s].cancel, Shaped(new),
         new.index => ~new.cancel, new.state = "ready" => new.index
  PROVE  DaemonInv'
<1>1. /\ slots' \in Seq(Slots) /\ Len(slots') = Len(slots) /\ Numbers' = Numbers
      /\ slots'[s] = new /\ \A q \in Numbers : q # s => slots'[q] = slots[q]
  BY SlotAfter DEF DaemonInv
<1>2. Shaped(slots[s]) /\ ~slots[s].index
  BY DEF DaemonInv, SlotsKept, Shaped
<1>3. /\ \A h \in Handlers :
           /\ (Removing(h)' <=> Removing(h)) /\ (Adding(h)' <=> Adding(h))
           /\ (Querying(h)' <=> Querying(h)) /\ (OnSlot(h)' <=> OnSlot(h))
      /\ \A q : RegisteredSlot(q)' <=> RegisteredSlot(q)
  BY DEF Removing, Adding, Querying, OnSlot, RegisteredSlot
<1>4. \A h \in Handlers : job[h].slot = s => ~Adding(h) /\ ~Querying(h) /\ job[h].at # "drop"
  BY <1>2 DEF DaemonInv, HandlersPlaced, Mine
<1>5. Types'
  BY <1>1 DEF DaemonInv, Types, configs
<1>6. HandlersPlaced'
  <2> SUFFICES ASSUME NEW h \in Handlers
               PROVE  /\ OnSlot(h) => job[h].slot \in Numbers
                      /\ Adding(h) =>
                           /\ Mine(h)'.state = "queued" /\ Mine(h)'.work = "none"
                           /\ Mine(h)'.thread = IF job[h].at = "start" THEN "assigned" ELSE "none"
                      /\ Removing(h) => ~RegisteredSlot(job[h].slot) /\ job[h].then = "idle"
                      /\ job[h].at \in {"join", "close", "drop"} => Mine(h)'.cancel
                      /\ Querying(h) => Mine(h)'.state = "ready"
                      /\ job[h].at = "drop" => Mine(h)'.index
    BY <1>1, <1>3 DEF HandlersPlaced
  <2>1. job[h].slot \in Numbers /\ job[h].slot # s => Mine(h)' = Mine(h)
    BY <1>1 DEF Mine
  <2>2. job[h].slot = s => Mine(h)' = new /\ Mine(h) = slots[s]
    BY <1>1 DEF Mine
  <2>3. Adding(h) \/ Querying(h) \/ job[h].at \in {"join", "close", "drop"} => OnSlot(h)
    BY DEF OnSlot, Removing
  <2> QED
    BY <1>4, <2>1, <2>2, <2>3 DEF DaemonInv, HandlersPlaced
<1>7. OneEach'
  BY <1>3 DEF DaemonInv, OneEach
<1>8. SlotsKept'
  <2>1. ASSUME NEW q \in Numbers, q # s
        PROVE  /\ Shaped(slots'[q])
               /\ \A n \in Names : registry[n] = q => slots'[q].name = n
               /\ ~RegisteredSlot(q) =>
                    /\ slots'[q].cancel \/ \E h \in Handlers : job[h].at = "cancel" /\ job[h].slot = q
                    /\ slots'[q].index => \E h \in Handlers : Removing(h) /\ job[h].slot = q
               /\ slots'[q].state = "ready" /\
                    (~slots'[q].index \/ \E h \in Handlers : job[h].at = "drop" /\ job[h].slot = q) =>
                    slots'[q].conn = "closed" \/ q \in reopened
    BY <1>1, <2>1 DEF DaemonInv, SlotsKept
  <2>2. /\ \A n \in Names : registry[n] = s => new.name = n
        /\ ~RegisteredSlot(s) =>
             /\ new.cancel \/ \E h \in Handlers : job[h].at = "cancel" /\ job[h].slot = s
             /\ new.index => \E h \in Handlers : Removing(h) /\ job[h].slot = s
        /\ new.state = "ready" => new.index
    BY DEF DaemonInv, SlotsKept, Removing
  <2> QED
    BY <1>1, <1>3, <1>4, <2>1, <2>2 DEF SlotsKept
<1>9. Saved'
  BY SavedCarries DEF DaemonInv, configs
<1> QED
  BY <1>5, <1>6, <1>7, <1>8, <1>9 DEF DaemonInv

LEMMA WorkKeeps ==
  ASSUME DaemonInv, NEW s, Work(s)
  PROVE  DaemonInv'
<1>1. /\ s \in Numbers /\ slots[s] \in Slots /\ Shaped(slots[s])
      /\ UNCHANGED <<registry, job, configs, unfinished, reopened>>
  <2>1. s \in Numbers /\ UNCHANGED <<registry, job, configs, unfinished, reopened>>
    BY DEF Work, Proceed, SetIndexing, Build, OpenIndex, IndexingFails, SetReady, SetError, CloseDetached, Step, Numbers
  <2> QED
    BY <2>1, SlotTyped DEF DaemonInv, SlotsKept
<1>2. /\ used' \in [{"faults", "timeouts"} -> Nat]
      /\ used'["faults"] <= MaxFaults /\ used'["timeouts"] <= MaxTimeouts
  <2>1. used' = used \/ Spend("faults")
    BY DEF Work, Proceed, SetIndexing, Build, OpenIndex, IndexingFails, SetReady, SetError, CloseDetached
  <2> QED
    BY <2>1, BoundsAssumption DEF DaemonInv, Types, Spend, Bounds
<1>3. ASSUME NEW from, NEW new, Step(s, from, new), new \in Slots, Shaped(new),
             slots[s].state \in {"queued", "indexing"}, from # "none",
             new.name = slots[s].name, new.cancel = slots[s].cancel,
             new.index => ~new.cancel, new.state = "ready" => new.index
      PROVE  DaemonInv'
  BY <1>1, <1>2, <1>3, SlotStep DEF Step
<1>4. CASE SetIndexing(s)
  BY <1>1, <1>3, <1>4 DEF SetIndexing, Step, Shaped, Slots
<1>5. CASE Build(s)
  BY <1>1, <1>3, <1>5 DEF Build, Step, Shaped, Slots
<1>6. CASE OpenIndex(s)
  BY <1>1, <1>3, <1>6 DEF OpenIndex, Step, Shaped, Slots
<1>7. CASE IndexingFails(s)
  <2>1. CASE Step(s, "build", [slots[s] EXCEPT !.work = "error"])
    BY <1>1, <1>3, <2>1 DEF Step, Shaped, Slots
  <2>2. CASE Step(s, "open", [slots[s] EXCEPT !.work = "error"])
    BY <1>1, <1>3, <2>2 DEF Step, Shaped, Slots
  <2> QED
    BY <1>7, <2>1, <2>2 DEF IndexingFails
<1>8. CASE SetReady(s)
  <2>1. CASE slots[s].cancel
    BY <1>1, <1>3, <1>8, <2>1 DEF SetReady, Step, Shaped, Slots
  <2>2. CASE ~slots[s].cancel
    BY <1>1, <1>3, <1>8, <2>2 DEF SetReady, Step, Shaped, Slots
  <2> QED
    BY <2>1, <2>2
<1>9. CASE SetError(s)
  BY <1>1, <1>3, <1>9 DEF SetError, Step, Shaped, Slots
<1>10. CASE CloseDetached(s)
  BY <1>1, <1>3, <1>10 DEF CloseDetached, Step, Shaped, Slots
<1> QED
  BY <1>4, <1>5, <1>6, <1>7, <1>8, <1>9, <1>10 DEF Work, Proceed

(* A step of a handler that leaves the slots.                                *)
LEMMA HandlerStep ==
  ASSUME DaemonInv, NEW h \in Handlers, NEW new \in Jobs, job' = [job EXCEPT ![h] = new],
         UNCHANGED <<registry, slots, reopened>>,
         cfgRepos' \subseteq Names, file' \subseteq Names,
         used' \in [{"faults", "timeouts"} -> Nat],
         used'["faults"] <= MaxFaults, used'["timeouts"] <= MaxTimeouts,
         unfinished' \in BOOLEAN, overlapped' \in BOOLEAN,
         OnSlot(h)' => new.slot \in Numbers,
         Adding(h)' => Adding(h) /\ new.slot = job[h].slot /\ job[h].at # "start" /\ new.at # "start",
         Removing(h)' => Removing(h) /\ new.slot = job[h].slot /\ new.then = job[h].then,
         job[h].at = "cancel" => new.at = "cancel",
         job[h].at = "drop" <=> new.at = "drop",
         Removing(h) /\ ~Removing(h)' => ~slots[job[h].slot].index,
         Querying(h)' => slots[new.slot].state = "ready"
  PROVE  Types' /\ HandlersPlaced' /\ OneEach' /\ SlotsKept'
<1>1. /\ job' \in [Handlers -> Jobs] /\ job'[h] = new
      /\ \A g \in Handlers : g # h => job'[g] = job[g]
  BY JobAfter DEF DaemonInv
<1>2. Types'
  BY <1>1 DEF DaemonInv, Types, Numbers
<1>3. /\ Numbers' = Numbers /\ \A s : RegisteredSlot(s)' <=> RegisteredSlot(s)
      /\ \A g \in Handlers : g # h =>
           /\ (Removing(g)' <=> Removing(g)) /\ (Adding(g)' <=> Adding(g))
           /\ (Querying(g)' <=> Querying(g)) /\ (OnSlot(g)' <=> OnSlot(g)) /\ Mine(g)' = Mine(g)
  BY <1>1 DEF Numbers, RegisteredSlot, Removing, Adding, Querying, OnSlot, Mine
<1>4. Mine(h)' = slots[new.slot]
  BY <1>1 DEF Mine
<1>5. HandlersPlaced'
  <2>1. ASSUME NEW g \in Handlers
        PROVE  /\ OnSlot(g)' => job'[g].slot \in Numbers
               /\ Adding(g)' =>
                    /\ Mine(g)'.state = "queued" /\ Mine(g)'.work = "none"
                    /\ Mine(g)'.thread = IF job'[g].at = "start" THEN "assigned" ELSE "none"
               /\ Removing(g)' => ~RegisteredSlot(job'[g].slot) /\ job'[g].then = "idle"
               /\ job'[g].at \in {"join", "close", "drop"} => Mine(g)'.cancel
               /\ Querying(g)' => Mine(g)'.state = "ready"
               /\ job'[g].at = "drop" => Mine(g)'.index
    <3>1. CASE g # h
      BY <1>1, <1>3, <3>1 DEF DaemonInv, HandlersPlaced
    <3>2. CASE g = h
      <4>1. /\ OnSlot(h) => job[h].slot \in Numbers
            /\ Adding(h) =>
                 /\ Mine(h).state = "queued" /\ Mine(h).work = "none"
                 /\ Mine(h).thread = IF job[h].at = "start" THEN "assigned" ELSE "none"
            /\ Removing(h) => ~RegisteredSlot(job[h].slot) /\ job[h].then = "idle"
            /\ job[h].at \in {"join", "close", "drop"} => Mine(h).cancel
            /\ job[h].at = "drop" => Mine(h).index
        BY DEF DaemonInv, HandlersPlaced
      <4>2. Removing(h)' => Mine(h)' = Mine(h) /\ (new.at \in {"join", "close", "drop"} => job[h].at \in {"join", "close", "drop"})
        BY <1>1, <1>4 DEF Removing, Mine
      <4>3. Adding(h)' => Mine(h)' = Mine(h)
        BY <1>4 DEF Mine
      <4>4. new.at \in {"join", "close", "drop"} => Removing(h)'
        BY <1>1 DEF Removing
      <4> QED
        BY <1>1, <1>4, <3>2, <4>1, <4>2, <4>3, <4>4
    <3> QED
      BY <3>1, <3>2
  <2> QED
    BY <1>3, <2>1 DEF HandlersPlaced
<1>6. OneEach'
  <2>1. \A g \in Handlers :
          /\ Adding(g)' => Adding(g) /\ job'[g].slot = job[g].slot
          /\ Removing(g)' => Removing(g) /\ job'[g].slot = job[g].slot
    BY <1>1, <1>3
  <2> QED
    BY <2>1 DEF DaemonInv, OneEach
<1>7. SlotsKept'
  <2>1. \A g \in Handlers :
          /\ job[g].at = "cancel" => job'[g].at = "cancel" /\ job'[g].slot = job[g].slot
          /\ job'[g].at = "drop" => job[g].at = "drop" /\ job'[g].slot = job[g].slot
          /\ Removing(g) /\ slots[job[g].slot].index => Removing(g)' /\ job'[g].slot = job[g].slot
    <3>1. job[h].at = "cancel" => new.slot = job[h].slot
      BY <1>1 DEF Removing
    <3>2. new.at = "drop" => new.slot = job[h].slot
      BY <1>1 DEF Removing
    <3> QED
      BY <1>1, <1>3, <3>1, <3>2
  <2>2. ASSUME NEW s \in Numbers
        PROVE  /\ Shaped(slots[s])
               /\ \A n \in Names : registry[n] = s => slots[s].name = n
               /\ ~RegisteredSlot(s) =>
                    /\ slots[s].cancel \/ \E g \in Handlers : job'[g].at = "cancel" /\ job'[g].slot = s
                    /\ slots[s].index => \E g \in Handlers : Removing(g)' /\ job'[g].slot = s
               /\ slots[s].state = "ready" /\
                    (~slots[s].index \/ \E g \in Handlers : job'[g].at = "drop" /\ job'[g].slot = s) =>
                    slots[s].conn = "closed" \/ s \in reopened
    <3>1. /\ Shaped(slots[s])
          /\ \A n \in Names : registry[n] = s => slots[s].name = n
          /\ ~RegisteredSlot(s) =>
               /\ slots[s].cancel \/ \E g \in Handlers : job[g].at = "cancel" /\ job[g].slot = s
               /\ slots[s].index => \E g \in Handlers : Removing(g) /\ job[g].slot = s
          /\ slots[s].state = "ready" /\
               (~slots[s].index \/ \E g \in Handlers : job[g].at = "drop" /\ job[g].slot = s) =>
               slots[s].conn = "closed" \/ s \in reopened
      BY DEF DaemonInv, SlotsKept
    <3> QED
      BY <2>1, <3>1
  <2> QED
    BY <1>3, <2>2 DEF SlotsKept
<1> QED
  BY <1>2, <1>5, <1>6, <1>7

(* Queries and progress streams read the registry and the slots.             *)
LEMMA ReadingStep ==
  ASSUME DaemonInv, NEW h \in Handlers, NEW new \in Jobs, job' = [job EXCEPT ![h] = new],
         UNCHANGED <<registry, slots, configs, used, unfinished, reopened>>,
         job[h].at \in {"idle", "iterate", "lookup", "use", "run", "stream"},
         new.at \in {"idle", "iterate", "lookup", "use", "enter", "stream"},
         new.at \in {"use", "enter", "stream"} => new.slot \in Numbers,
         new.at \in {"use", "enter"} => slots[new.slot].state = "ready"
  PROVE  DaemonInv'
<1>1. /\ job'[h] = new /\ \A g \in Handlers : g # h => job'[g] = job[g]
  BY JobAfter DEF DaemonInv
<1>2. /\ ~Adding(h)' /\ ~Removing(h)' /\ (Querying(h)' => new.at \in {"use", "enter"})
      /\ (OnSlot(h)' => new.at \in {"use", "enter", "stream"}) /\ ~Removing(h)
      /\ ~Persisting(h) /\ ~Persisting(h)' /\ ~Changing(h) /\ job[h].at \notin {"cancel", "drop"}
      /\ new.at # "drop"
  BY <1>1 DEF Adding, Removing, Querying, OnSlot, Persisting, Changing
<1>3. Types' /\ HandlersPlaced' /\ OneEach' /\ SlotsKept'
  <2>1. /\ cfgRepos' \subseteq Names /\ file' \subseteq Names
        /\ used' \in [{"faults", "timeouts"} -> Nat]
        /\ used'["faults"] <= MaxFaults /\ used'["timeouts"] <= MaxTimeouts
        /\ unfinished' \in BOOLEAN /\ overlapped' \in BOOLEAN
    BY DEF DaemonInv, Types, configs
  <2> QED
    BY <1>2, <2>1, HandlerStep
<1>4. Saved'
  BY <1>1, <1>2, SavedCarries DEF DaemonInv, configs
<1> QED
  BY <1>3, <1>4 DEF DaemonInv

(* The slot a name is registered for.                                        *)
LEMMA RegisteredTyped ==
  ASSUME Types, NEW n \in Registered
  PROVE  n \in Names /\ registry[n] \in Numbers /\ registry[n] \in 0 .. MaxSlots
<1>1. PICK k \in Nat : k = Len(slots) /\ Numbers = 1 .. k /\ k <= MaxSlots
  BY LenProperties DEF Types, Numbers
<1>2. n \in Names /\ registry[n] # 0 /\ registry[n] \in 0 .. k
  BY <1>1 DEF Types, Registered
<1> QED
  BY <1>1, <1>2, BoundsAssumption

LEMMA QueriesKeep ==
  ASSUME DaemonInv, NEW h \in Handlers,
         \/ BeginQuery(h) \/ Iterate(h) \/ IterateFails(h) \/ (\E n \in Names : LookUp(h, n))
         \/ UseIndex(h) \/ EndQuery(h) \/ EndStream(h) \/ LeaveStream(h)
         \/ \E n \in Names : BeginStream(h, n)
  PROVE  DaemonInv'
<1>1. job[h] \in Jobs /\ job \in [Handlers -> Jobs]
  BY DEF DaemonInv, Types
<1>2. Idle \in Jobs /\ Idle.at = "idle"
  BY IdleIsAJob DEF Idle
<1>3. CASE IterateFails(h) \/ EndQuery(h) \/ EndStream(h) \/ LeaveStream(h)
  BY <1>2, <1>3, ReadingStep DEF IterateFails, EndQuery, EndStream, LeaveStream, Return, At
<1>4. CASE BeginQuery(h)
  <2> DEFINE new == [Idle EXCEPT !.at = "iterate", !.size = Cardinality(Registered)]
  <2>1. Cardinality(Registered) \in 0 .. Cardinality(Names)
    <3>1. Registered \in SUBSET Names
      BY DEF Registered
    <3>2. IsFiniteSet(Registered) /\ Cardinality(Registered) <= Cardinality(Names)
      BY <3>1, NamesAssumption, FS_Subset
    <3> QED
      BY <3>2, NamesAssumption, FS_CardinalityType
  <2>2. new \in Jobs /\ new.at = "iterate"
    BY <1>2, <2>1 DEF Jobs, Places
  <2>3. job' = [job EXCEPT ![h] = new] /\ job[h].at = "idle"
    BY <1>4 DEF BeginQuery, At
  <2> HIDE DEF new
  <2> QED
    BY <1>4, <2>2, <2>3, ReadingStep DEF BeginQuery
<1>5. CASE Iterate(h)
  <2> DEFINE new == [job[h] EXCEPT !.at = "lookup"]
  <2>1. new \in Jobs /\ new.at = "lookup"
    BY <1>1 DEF Jobs, Places
  <2>2. job' = [job EXCEPT ![h] = new] /\ job[h].at = "iterate"
    BY <1>5 DEF Iterate, At, Goto
  <2> HIDE DEF new
  <2> QED
    BY <1>5, <2>1, <2>2, ReadingStep DEF Iterate
<1>6. ASSUME NEW n \in Names, LookUp(h, n) PROVE DaemonInv'
  <2>1. CASE Servable(n)
    <3> DEFINE new == [job[h] EXCEPT !.at = "use", !.slot = registry[n]]
    <3>1. registry[n] \in Numbers /\ slots[registry[n]].state = "ready"
      BY <2>1, RegisteredTyped DEF Servable, DaemonInv
    <3>2. new \in Jobs /\ new.at = "use" /\ new.slot = registry[n]
      <4>1. registry[n] \in 0 .. MaxSlots
        BY <2>1, RegisteredTyped DEF Servable, DaemonInv
      <4> QED
        BY <1>1, <4>1 DEF Jobs, Places
    <3>3. job' = [job EXCEPT ![h] = new] /\ job[h].at = "lookup"
      BY <1>6, <2>1 DEF LookUp, At
    <3> HIDE DEF new
    <3> QED
      BY <1>6, <3>1, <3>2, <3>3, ReadingStep DEF LookUp
  <2>2. CASE ~Servable(n)
    BY <1>2, <1>6, <2>2, ReadingStep DEF LookUp, Return, At
  <2> QED
    BY <2>1, <2>2
<1>7. CASE UseIndex(h)
  <2>1. CASE Mine(h).index
    <3> DEFINE new == [job[h] EXCEPT !.at = "enter"]
    <3>1. new \in Jobs /\ new.at = "enter" /\ new.slot = job[h].slot
      BY <1>1 DEF Jobs, Places
    <3>2. job' = [job EXCEPT ![h] = new] /\ job[h].at = "use"
      BY <1>7, <2>1 DEF UseIndex, At, Goto
    <3>3. job[h].slot \in Numbers /\ slots[job[h].slot].state = "ready"
      BY <3>2 DEF DaemonInv, HandlersPlaced, Querying, OnSlot, Mine
    <3> HIDE DEF new
    <3> QED
      BY <1>7, <3>1, <3>2, <3>3, ReadingStep DEF UseIndex
  <2>2. CASE ~Mine(h).index
    BY <1>2, <1>7, <2>2, ReadingStep DEF UseIndex, Return, At
  <2> QED
    BY <2>1, <2>2
<1>8. ASSUME NEW n \in Names, BeginStream(h, n) PROVE DaemonInv'
  <2> DEFINE new == [Idle EXCEPT !.at = "stream", !.slot = registry[n]]
  <2>1. registry[n] \in Numbers /\ registry[n] \in 0 .. MaxSlots
    BY <1>8, RegisteredTyped DEF BeginStream, DaemonInv
  <2>2. new \in Jobs /\ new.at = "stream" /\ new.slot = registry[n]
    BY <1>2, <2>1 DEF Jobs, Places, Idle
  <2>3. job' = [job EXCEPT ![h] = new] /\ job[h].at = "idle"
    BY <1>8 DEF BeginStream, At
  <2> HIDE DEF new
  <2> QED
    BY <1>8, <2>1, <2>2, <2>3, ReadingStep DEF BeginStream
<1> QED
  BY <1>3, <1>4, <1>5, <1>6, <1>7, <1>8

(* Saving the registry.                                                      *)
LEMMA SavingStep ==
  ASSUME DaemonInv, NEW h \in Handlers, NEW new \in Jobs, job' = [job EXCEPT ![h] = new],
         UNCHANGED <<registry, slots, reopened>>,
         cfgRepos' \subseteq Names, file' \subseteq Names,
         used' \in [{"faults", "timeouts"} -> Nat],
         used'["faults"] <= MaxFaults, used'["timeouts"] <= MaxTimeouts,
         unfinished' \in BOOLEAN, overlapped' \in BOOLEAN,
         job[h].at \in {"snapshot", "assign", "serialise", "rename"},
         \/ new.at = "idle"
         \/ new.at = "thread" /\ job[h].then = "thread" /\ new.slot = job[h].slot
         \/ new.at \in {"assign", "serialise", "rename"} /\ new.then = job[h].then /\ new.slot = job[h].slot
  PROVE  Types' /\ HandlersPlaced' /\ OneEach' /\ SlotsKept'
<1>1. /\ job'[h] = new /\ \A g \in Handlers : g # h => job'[g] = job[g]
  BY JobAfter DEF DaemonInv
<1>2. /\ ~Removing(h)' /\ ~Querying(h)' /\ ~Removing(h)
      /\ Adding(h)' => Adding(h) /\ new.slot = job[h].slot /\ new.at # "start"
      /\ OnSlot(h)' => Adding(h)'
      /\ job[h].at \notin {"cancel", "drop", "start"} /\ new.at # "drop"
  BY <1>1 DEF Adding, Removing, Querying, OnSlot
<1>3. OnSlot(h)' => new.slot \in Numbers
  BY <1>2 DEF DaemonInv, HandlersPlaced, OnSlot
<1> QED
  BY <1>2, <1>3, HandlerStep

LEMMA SavesKeep ==
  ASSUME DaemonInv, NEW h \in Handlers,
         Snapshot(h) \/ Assign(h) \/ Serialise(h) \/ Rename(h) \/ WriteFails(h)
  PROVE  DaemonInv'
<1>1. /\ job[h] \in Jobs /\ job \in [Handlers -> Jobs] /\ cfgRepos \subseteq Names /\ file \subseteq Names
      /\ used \in [{"faults", "timeouts"} -> Nat] /\ job[h].names \subseteq Names
      /\ used["faults"] <= MaxFaults /\ used["timeouts"] <= MaxTimeouts
      /\ unfinished \in BOOLEAN /\ overlapped \in BOOLEAN
  BY DEF DaemonInv, Types, Jobs
<1>2. Idle \in Jobs /\ Idle.at = "idle"
  BY IdleIsAJob DEF Idle
<1>3. ASSUME NEW new \in Jobs, job' = [job EXCEPT ![h] = new], UNCHANGED registry,
             ~overlapped', ~unfinished',
             \A g \in Handlers : Persisting(g)' => g = h,
             \/ ~Persisting(h)' /\ (~Changing(h)' /\ (\A g \in Handlers : ~Changing(g)') => file' = Registered)
             \/ /\ Persisting(h)' /\ new.at \in {"assign", "rename"}
                /\ (\A g \in Handlers : ~Changing(g)') => new.names = Registered
             \/ /\ Persisting(h)' /\ new.at = "serialise"
                /\ (\A g \in Handlers : ~Changing(g)') => cfgRepos' = Registered
      PROVE  Saved'
  <2>1. job'[h] = new /\ Registered' = Registered
    BY <1>3, JobAfter DEF DaemonInv, Registered
  <2>2. \A g \in Handlers : job'[g].at \in {"assign", "serialise", "rename"} => g = h
    BY <1>3 DEF Persisting
  <2> QED
    BY <1>3, <2>1, <2>2 DEF Saved, Persisting
<1>4. CASE Snapshot(h)
  <2> DEFINE new == [job[h] EXCEPT !.at = "assign", !.names = Registered]
  <2>1. new \in Jobs /\ new.at = "assign" /\ new.slot = job[h].slot /\ new.then = job[h].then
        /\ new.names = Registered
    BY <1>1 DEF Jobs, Places, Registered
  <2>2. job' = [job EXCEPT ![h] = new] /\ job[h].at = "snapshot"
    BY <1>4 DEF Snapshot, At
  <2> HIDE DEF new
  <2>3. job'[h] = new /\ \A g \in Handlers : g # h => job'[g] = job[g]
    BY <2>1, <2>2, JobAfter DEF DaemonInv
  <2>4. Types' /\ HandlersPlaced' /\ OneEach' /\ SlotsKept'
    BY <1>1, <1>4, <2>1, <2>2, SavingStep DEF Snapshot
  <2>5. Saved'
    <3>1. ~overlapped' => \A g \in Handlers : Persisting(g)' => g = h
      BY <1>4, <2>3 DEF Snapshot, Persisting
    <3>2. ~overlapped' /\ ~unfinished' => Saved'
      BY <1>3, <1>4, <2>1, <2>2, <2>3, <3>1 DEF Snapshot, Persisting
    <3> QED
      BY <3>2 DEF Saved
  <2> QED
    BY <2>4, <2>5 DEF DaemonInv
<1>5. ASSUME NEW new \in Jobs, job' = [job EXCEPT ![h] = new], Persisting(h), UNCHANGED <<registry, overlapped>>,
             ~overlapped, ~unfinished, new.at \in {"idle", "thread", "serialise", "rename"}
      PROVE  /\ \A g \in Handlers : Persisting(g)' => g = h
             /\ (\A g \in Handlers : ~Changing(g)') =>
                  /\ job[h].at \in {"assign", "rename"} => job[h].names = Registered
                  /\ job[h].at = "serialise" => cfgRepos = Registered
             /\ job'[h] = new
  <2>1. job'[h] = new /\ \A g \in Handlers : g # h => job'[g] = job[g]
    BY <1>5, JobAfter DEF DaemonInv
  <2>2. \A g \in Handlers : g # h => (Changing(g)' <=> Changing(g)) /\ (Persisting(g)' <=> Persisting(g))
    BY <2>1 DEF Changing, Removing, Persisting
  <2>3. ~Changing(h)
    BY <1>5 DEF Changing, Removing, Persisting
  <2>4. \A g \in Handlers : Persisting(g)' => g = h
    BY <1>5, <2>2 DEF DaemonInv, Saved
  <2>5. ASSUME \A g \in Handlers : ~Changing(g)'
        PROVE  /\ job[h].at \in {"assign", "rename"} => job[h].names = Registered
               /\ job[h].at = "serialise" => cfgRepos = Registered
    BY <1>5, <2>2, <2>3, <2>5 DEF DaemonInv, Saved
  <2> QED
    BY <2>1, <2>4, <2>5
<1>6. CASE Assign(h)
  <2> DEFINE new == [job[h] EXCEPT !.at = "serialise"]
  <2>1. new \in Jobs /\ new.at = "serialise" /\ new.slot = job[h].slot /\ new.then = job[h].then
    BY <1>1 DEF Jobs, Places
  <2>2. job' = [job EXCEPT ![h] = new] /\ job[h].at = "assign"
    BY <1>6 DEF Assign, At, Goto
  <2> HIDE DEF new
  <2>3. Types' /\ HandlersPlaced' /\ OneEach' /\ SlotsKept'
    BY <1>1, <1>6, <2>1, <2>2, SavingStep DEF Assign
  <2>4. ~overlapped' /\ ~unfinished' => Saved'
    BY <1>3, <1>5, <1>6, <2>1, <2>2 DEF Assign, Persisting
  <2> QED
    BY <2>3, <2>4 DEF DaemonInv, Saved
<1>7. CASE Serialise(h)
  <2> DEFINE new == [job[h] EXCEPT !.at = "rename", !.names = cfgRepos]
  <2>1. new \in Jobs /\ new.at = "rename" /\ new.slot = job[h].slot /\ new.then = job[h].then
        /\ new.names = cfgRepos
    BY <1>1 DEF Jobs, Places
  <2>2. job' = [job EXCEPT ![h] = new] /\ job[h].at = "serialise"
    BY <1>7 DEF Serialise, At
  <2> HIDE DEF new
  <2>3. Types' /\ HandlersPlaced' /\ OneEach' /\ SlotsKept'
    BY <1>1, <1>7, <2>1, <2>2, SavingStep DEF Serialise, configs
  <2>4. ~overlapped' /\ ~unfinished' => Saved'
    BY <1>3, <1>5, <1>7, <2>1, <2>2 DEF Serialise, configs, Persisting
  <2> QED
    BY <2>3, <2>4 DEF DaemonInv, Saved
<1>8. CASE Rename(h)
  <2> DEFINE new == IF job[h].then = "idle" THEN Idle
                    ELSE [Idle EXCEPT !.at = "thread", !.slot = job[h].slot]
  <2>1. new \in Jobs /\ \/ new.at = "idle"
                        \/ new.at = "thread" /\ job[h].then = "thread" /\ new.slot = job[h].slot
    BY <1>1, <1>2 DEF Jobs, Places, Idle
  <2>2. job' = [job EXCEPT ![h] = new] /\ job[h].at = "rename" /\ file' = job[h].names
    BY <1>8 DEF Rename, At
  <2> HIDE DEF new
  <2>3. Types' /\ HandlersPlaced' /\ OneEach' /\ SlotsKept'
    BY <1>1, <1>8, <2>1, <2>2, SavingStep DEF Rename
  <2>4. ~overlapped' /\ ~unfinished' => Saved'
    BY <1>3, <1>5, <1>8, <2>1, <2>2 DEF Rename, Persisting
  <2> QED
    BY <2>3, <2>4 DEF DaemonInv, Saved
<1>9. CASE WriteFails(h)
  <2>1. /\ used' \in [{"faults", "timeouts"} -> Nat]
        /\ used'["faults"] <= MaxFaults /\ used'["timeouts"] <= MaxTimeouts
    BY <1>1, <1>9, BoundsAssumption DEF WriteFails, Spend, Bounds
  <2>2. job' = [job EXCEPT ![h] = Idle] /\ job[h].at = "rename" /\ unfinished' = TRUE
    BY <1>9 DEF WriteFails, RaiseUnfinished, Return, At
  <2>3. Types' /\ HandlersPlaced' /\ OneEach' /\ SlotsKept'
    BY <1>1, <1>2, <1>9, <2>1, <2>2, SavingStep DEF WriteFails, configs
  <2> QED
    BY <2>2, <2>3 DEF DaemonInv, Saved
<1> QED
  BY <1>4, <1>6, <1>7, <1>8, <1>9

(* A step of a handler on its slot.                                          *)
LEMMA HandlerSlotStep ==
  ASSUME DaemonInv, NEW h \in Handlers, NEW new \in Jobs, NEW s \in Numbers, NEW slot \in Slots,
         s = job[h].slot, job' = [job EXCEPT ![h] = new], slots' = [slots EXCEPT ![s] = slot],
         UNCHANGED <<registry, configs, used, unfinished>>,
         reopened \subseteq reopened', reopened' \subseteq Numbers,
         slot.name = slots[s].name, slot.state = slots[s].state, Shaped(slot),
         slots[s].cancel => slot.cancel, slot.index => slots[s].index,
         Adding(h) \/ (slot.thread = slots[s].thread /\ slot.work = slots[s].work),
         Removing(h) \/ slot.index = slots[s].index,
         OnSlot(h)' => new.slot = s,
         Adding(h)' => Adding(h) /\ new.at = "start" /\ slot.thread = "assigned" /\ slot.work = "none",
         Removing(h)' => Removing(h) /\ new.then = job[h].then,
         new.at \in {"join", "close", "drop"} => slot.cancel,
         Querying(h)' => Querying(h),
         new.at = "drop" => slot.index,
         job[h].at = "cancel" => slot.cancel,
         Removing(h) /\ slot.index => Removing(h)',
         slot.state = "ready" /\ (~slot.index \/ \E g \in Handlers : job'[g].at = "drop" /\ job'[g].slot = s) =>
           slot.conn = "closed" \/ s \in reopened'
  PROVE  Types' /\ HandlersPlaced' /\ OneEach' /\ SlotsKept'
<1>1. /\ slots' \in Seq(Slots) /\ Len(slots') = Len(slots) /\ Numbers' = Numbers
      /\ slots'[s] = slot /\ \A q \in Numbers : q # s => slots'[q] = slots[q]
  BY SlotAfter DEF DaemonInv
<1>2. /\ job' \in [Handlers -> Jobs] /\ job'[h] = new
      /\ \A g \in Handlers : g # h => job'[g] = job[g]
  BY JobAfter DEF DaemonInv
<1>3. Types'
  BY <1>1, <1>2 DEF DaemonInv, Types, configs
<1>4. /\ \A q : RegisteredSlot(q)' <=> RegisteredSlot(q)
      /\ \A g \in Handlers : g # h =>
           /\ (Removing(g)' <=> Removing(g)) /\ (Adding(g)' <=> Adding(g))
           /\ (Querying(g)' <=> Querying(g)) /\ (OnSlot(g)' <=> OnSlot(g))
  BY <1>2 DEF RegisteredSlot, Removing, Adding, Querying, OnSlot
<1>5. \A g \in Handlers : g # h /\ job[g].slot = s =>
        ~(Adding(g) /\ Adding(h)) /\ ~(Removing(g) /\ Removing(h))
  BY DEF DaemonInv, OneEach
<1>6. HandlersPlaced'
  <2>1. ASSUME NEW g \in Handlers
        PROVE  /\ OnSlot(g)' => job'[g].slot \in Numbers
               /\ Adding(g)' =>
                    /\ Mine(g)'.state = "queued" /\ Mine(g)'.work = "none"
                    /\ Mine(g)'.thread = IF job'[g].at = "start" THEN "assigned" ELSE "none"
               /\ Removing(g)' => ~RegisteredSlot(job'[g].slot) /\ job'[g].then = "idle"
               /\ job'[g].at \in {"join", "close", "drop"} => Mine(g)'.cancel
               /\ Querying(g)' => Mine(g)'.state = "ready"
               /\ job'[g].at = "drop" => Mine(g)'.index
    <3>1. /\ OnSlot(g) => job[g].slot \in Numbers
          /\ Adding(g) =>
               /\ Mine(g).state = "queued" /\ Mine(g).work = "none"
               /\ Mine(g).thread = IF job[g].at = "start" THEN "assigned" ELSE "none"
          /\ Removing(g) => ~RegisteredSlot(job[g].slot) /\ job[g].then = "idle"
          /\ job[g].at \in {"join", "close", "drop"} => Mine(g).cancel
          /\ Querying(g) => Mine(g).state = "ready"
          /\ job[g].at = "drop" => Mine(g).index
      BY DEF DaemonInv, HandlersPlaced
    <3>2. /\ Adding(g)' \/ Removing(g)' \/ Querying(g)' => OnSlot(g)'
          /\ job'[g].at \in {"join", "close", "drop"} => Removing(g)'
          /\ Adding(g) \/ Removing(g) \/ Querying(g) => OnSlot(g)
          /\ job[g].at \in {"join", "close", "drop"} => Removing(g)
      BY DEF OnSlot, Removing
    <3>3. CASE g # h /\ job[g].slot # s
      <4>1. OnSlot(g) => Mine(g)' = Mine(g)
        BY <1>1, <1>2, <3>1, <3>3 DEF Mine
      <4> QED
        BY <1>2, <1>4, <3>1, <3>2, <3>3, <4>1
    <3>4. CASE g # h /\ job[g].slot = s
      <4>1. Mine(g)' = slot /\ Mine(g) = slots[s]
        BY <1>1, <1>2, <3>4 DEF Mine
      <4> QED
        BY <1>2, <1>4, <1>5, <3>1, <3>2, <3>4, <4>1
    <3>5. CASE g = h
      <4>1. Mine(h) = slots[s] /\ (OnSlot(h)' => Mine(h)' = slot)
        BY <1>1, <1>2 DEF Mine
      <4> QED
        BY <1>2, <3>1, <3>2, <3>5, <4>1
    <3> QED
      BY <3>3, <3>4, <3>5
  <2> QED
    BY <1>1, <1>4, <2>1 DEF HandlersPlaced
<1>7. OneEach'
  <2>1. \A g \in Handlers :
          /\ Adding(g)' => Adding(g) /\ job'[g].slot = job[g].slot
          /\ Removing(g)' => Removing(g) /\ job'[g].slot = job[g].slot
    BY <1>2, <1>4 DEF OnSlot
  <2> QED
    BY <2>1 DEF DaemonInv, OneEach
<1>8. SlotsKept'
  <2>1. /\ \A n \in Names : registry[n] = s => slots[s].name = n
        /\ ~RegisteredSlot(s) =>
             /\ slots[s].cancel \/ \E g \in Handlers : job[g].at = "cancel" /\ job[g].slot = s
             /\ slots[s].index => \E g \in Handlers : Removing(g) /\ job[g].slot = s
    BY DEF DaemonInv, SlotsKept
  <2>2. ~RegisteredSlot(s) => slot.cancel \/ \E g \in Handlers : job'[g].at = "cancel" /\ job'[g].slot = s
    BY <1>2, <2>1
  <2>3. ~RegisteredSlot(s) /\ slot.index => \E g \in Handlers : Removing(g)' /\ job'[g].slot = s
    <3>1. Removing(h)' => job'[h].slot = s
      BY <1>2 DEF OnSlot
    <3> QED
      BY <1>2, <1>4, <2>1, <3>1
  <2>4. ASSUME NEW q \in Numbers, q # s
        PROVE  /\ Shaped(slots[q])
               /\ \A n \in Names : registry[n] = q => slots[q].name = n
               /\ ~RegisteredSlot(q) =>
                    /\ slots[q].cancel \/ \E g \in Handlers : job'[g].at = "cancel" /\ job'[g].slot = q
                    /\ slots[q].index => \E g \in Handlers : Removing(g)' /\ job'[g].slot = q
               /\ slots[q].state = "ready" /\
                    (~slots[q].index \/ \E g \in Handlers : job'[g].at = "drop" /\ job'[g].slot = q) =>
                    slots[q].conn = "closed" \/ q \in reopened'
    <3>1. /\ Shaped(slots[q])
          /\ \A n \in Names : registry[n] = q => slots[q].name = n
          /\ ~RegisteredSlot(q) =>
               /\ slots[q].cancel \/ \E g \in Handlers : job[g].at = "cancel" /\ job[g].slot = q
               /\ slots[q].index => \E g \in Handlers : Removing(g) /\ job[g].slot = q
          /\ slots[q].state = "ready" /\
               (~slots[q].index \/ \E g \in Handlers : job[g].at = "drop" /\ job[g].slot = q) =>
               slots[q].conn = "closed" \/ q \in reopened
      BY DEF DaemonInv, SlotsKept
    <3>2. job'[h].at = "drop" => job'[h].slot = s
      BY <1>2 DEF OnSlot, Removing
    <3>3. \A g \in Handlers : job[g].slot = q => g # h
      BY <2>4
    <3> QED
      BY <1>2, <1>4, <2>4, <3>1, <3>2, <3>3
  <2> QED
    BY <1>1, <1>4, <2>1, <2>2, <2>3, <2>4 DEF SlotsKept
<1> QED
  BY <1>3, <1>6, <1>7, <1>8


(* The handlers that change their slot.                                      *)
LEMMA SlotHandlersKeep ==
  ASSUME DaemonInv, NEW h \in Handlers,
         \/ CreateThread(h) \/ StartThread(h) \/ Cancel(h) \/ DropIndex(h) \/ Enter(h)
         \/ CloseIndex(h) /\ Mine(h).index
  PROVE  DaemonInv'
<1> DEFINE s == job[h].slot
<1>1. /\ job[h] \in Jobs /\ job \in [Handlers -> Jobs] /\ reopened \subseteq Numbers
      /\ OneEach /\ SlotsKept /\ Types /\ Mine(h) = slots[s]
  BY DEF DaemonInv, Types, Mine
<1>2. s \in Numbers /\ slots[s] \in Slots /\ Shaped(slots[s])
  <2>1. OnSlot(h)
    BY DEF CreateThread, StartThread, Cancel, DropIndex, Enter, CloseIndex, At, OnSlot, Removing, Adding, Querying
  <2> QED
    BY <1>1, <2>1, SlotTyped DEF DaemonInv, HandlersPlaced, SlotsKept
<1>3. Idle \in Jobs /\ Idle.at = "idle"
  BY IdleIsAJob DEF Idle
<1>4. /\ Adding(h) => slots[s].state = "queued" /\ slots[s].work = "none"
                      /\ slots[s].thread = IF job[h].at = "start" THEN "assigned" ELSE "none"
      /\ Removing(h) => ~RegisteredSlot(s) /\ job[h].then = "idle"
      /\ job[h].at \in {"join", "close", "drop"} => slots[s].cancel
      /\ Querying(h) => slots[s].state = "ready"
      /\ job[h].at = "drop" => slots[s].index
  BY <1>1 DEF DaemonInv, HandlersPlaced
<1>5. slots[s].state = "ready" /\ (~slots[s].index \/ \E g \in Handlers : job[g].at = "drop" /\ job[g].slot = s) =>
        slots[s].conn = "closed" \/ s \in reopened
  BY <1>1, <1>2 DEF SlotsKept
<1> HIDE DEF s
<1>6. ASSUME NEW new \in Jobs, job' = [job EXCEPT ![h] = new],
             UNCHANGED <<registry, configs, used, unfinished>>,
             ~Persisting(h), new.at \notin {"assign", "serialise", "rename"},
             Changing(h) => new.at \in {"snapshot", "cancel", "join", "close", "drop"}
      PROVE  Saved' /\ job'[h] = new /\ \A g \in Handlers : g # h => job'[g] = job[g]
  <2>1. job'[h] = new /\ \A g \in Handlers : g # h => job'[g] = job[g]
    BY <1>6, JobAfter DEF DaemonInv
  <2>2. ~Persisting(h)' /\ (Changing(h) => Changing(h)')
    BY <1>6, <2>1 DEF Persisting, Changing, Removing
  <2> QED
    BY <1>6, <2>1, <2>2, SavedCarries DEF DaemonInv, configs
<1>7. CASE CreateThread(h)
  <2> DEFINE slot == [slots[s] EXCEPT !.thread = "assigned"]
             new == [job[h] EXCEPT !.at = "start"]
  <2>1. /\ slot \in Slots /\ Shaped(slot) /\ slot.name = slots[s].name /\ slot.state = "queued"
        /\ slot.cancel = slots[s].cancel /\ slot.index = slots[s].index
        /\ slot.thread = "assigned" /\ slot.work = "none"
        /\ job[h].at = "thread" /\ slots[s].state = "queued"
    <3>1. job[h].at = "thread" /\ Adding(h)
      BY <1>7 DEF CreateThread, At, Adding
    <3> QED
      BY <1>2, <1>4, <3>1 DEF Slots, Shaped
  <2>2. new \in Jobs /\ new.at = "start" /\ new.slot = s
    BY <1>1 DEF Jobs, Places, s
  <2>3. job' = [job EXCEPT ![h] = new] /\ slots' = [slots EXCEPT ![s] = slot]
    BY <1>7 DEF CreateThread, Goto, s
  <2> HIDE DEF slot, new
  <2>4. Saved' /\ job'[h] = new
    BY <1>6, <1>7, <2>1, <2>2, <2>3 DEF CreateThread, Persisting, Changing, Removing
  <2>5. Adding(h) /\ ~Removing(h) /\ ~Removing(h)' /\ ~Querying(h)' /\ (OnSlot(h)' => new.slot = s)
    BY <2>1, <2>2, <2>4 DEF Adding, Removing, Querying
  <2>6. Types' /\ HandlersPlaced' /\ OneEach' /\ SlotsKept'
    BY <1>1, <1>2, <1>7, <2>1, <2>2, <2>3, <2>5, HandlerSlotStep DEF CreateThread, s
  <2> QED
    BY <2>4, <2>6 DEF DaemonInv
<1>8. CASE StartThread(h)
  <2> DEFINE slot == [slots[s] EXCEPT !.thread = "started", !.work = "begin"]
  <2>1. /\ slot \in Slots /\ Shaped(slot) /\ slot.name = slots[s].name /\ slot.state = "queued"
        /\ slot.cancel = slots[s].cancel /\ slot.index = slots[s].index
        /\ job[h].at = "start" /\ slots[s].state = "queued"
    <3>1. job[h].at = "start" /\ Adding(h)
      BY <1>8 DEF StartThread, At, Adding
    <3> QED
      BY <1>2, <1>4, <3>1 DEF Slots, Shaped
  <2>2. job' = [job EXCEPT ![h] = Idle] /\ slots' = [slots EXCEPT ![s] = slot]
    <3>1. slots' = [slots EXCEPT ![s].thread = "started", ![s].work = "begin"]
      BY <1>8 DEF StartThread, s
    <3>2. PICK k \in Nat : Numbers = 1 .. k /\ slots = [j \in 1 .. k |-> slots[j]]
      <4>1. DOMAIN slots = 1 .. Len(slots) /\ Len(slots) \in Nat
        BY <1>1, LenProperties DEF Types
      <4> QED
        BY <1>1, <4>1 DEF Numbers, Types
    <3>3. [slots EXCEPT ![s].thread = "started", ![s].work = "begin"] = [slots EXCEPT ![s] = slot]
      BY <1>2, <3>2
    <3> QED
      BY <1>8, <3>1, <3>3 DEF StartThread, Return
  <2> HIDE DEF slot
  <2>4. Saved' /\ job'[h] = Idle
    BY <1>3, <1>6, <1>8, <2>1, <2>2 DEF StartThread, Persisting, Changing, Removing
  <2>5. Adding(h) /\ ~Removing(h) /\ ~Removing(h)' /\ ~Querying(h)' /\ ~OnSlot(h)' /\ ~Adding(h)'
    BY <1>3, <2>1, <2>4 DEF Adding, Removing, Querying, OnSlot
  <2>6. Types' /\ HandlersPlaced' /\ OneEach' /\ SlotsKept'
    BY <1>1, <1>2, <1>3, <1>8, <2>1, <2>2, <2>5, HandlerSlotStep DEF StartThread, s
  <2> QED
    BY <2>4, <2>6 DEF DaemonInv
<1>9. CASE Cancel(h)
  <2> DEFINE slot == [slots[s] EXCEPT !.cancel = TRUE]
             new == [job[h] EXCEPT !.at = "join"]
  <2>1. /\ slot \in Slots /\ Shaped(slot) /\ slot.name = slots[s].name /\ slot.state = slots[s].state
        /\ slot.cancel /\ slot.index = slots[s].index /\ slot.conn = slots[s].conn
        /\ slot.thread = slots[s].thread /\ slot.work = slots[s].work
    BY <1>2 DEF Slots, Shaped
  <2>2. new \in Jobs /\ new.at = "join" /\ new.slot = s /\ new.then = job[h].then
    BY <1>1 DEF Jobs, Places, s
  <2>3. job' = [job EXCEPT ![h] = new] /\ slots' = [slots EXCEPT ![s] = slot] /\ job[h].at = "cancel"
    BY <1>9 DEF Cancel, Goto, At, s
  <2> HIDE DEF slot, new
  <2>4. Saved' /\ job'[h] = new /\ \A g \in Handlers : g # h => job'[g] = job[g]
    BY <1>6, <1>9, <2>2, <2>3 DEF Cancel, Persisting
  <2>5. Removing(h) /\ Removing(h)' /\ ~Querying(h)' /\ ~Adding(h)'
    BY <2>2, <2>3, <2>4 DEF Adding, Removing, Querying
  <2>6. slot.state = "ready" /\ (~slot.index \/ \E g \in Handlers : job'[g].at = "drop" /\ job'[g].slot = s) =>
          slot.conn = "closed" \/ s \in reopened
    BY <1>5, <2>1, <2>2, <2>4
  <2>7. Types' /\ HandlersPlaced' /\ OneEach' /\ SlotsKept'
    BY <1>1, <1>2, <1>9, <2>1, <2>2, <2>3, <2>5, <2>6, HandlerSlotStep DEF Cancel, s
  <2> QED
    BY <2>4, <2>7 DEF DaemonInv
<1>10. CASE CloseIndex(h) /\ Mine(h).index
  <2> DEFINE slot == [slots[s] EXCEPT !.conn = "closed"]
             new == [job[h] EXCEPT !.at = "drop"]
  <2>1. /\ slot \in Slots /\ Shaped(slot) /\ slot.name = slots[s].name /\ slot.state = slots[s].state
        /\ slot.cancel = slots[s].cancel /\ slot.index /\ slots[s].index /\ slot.conn = "closed"
        /\ slot.thread = slots[s].thread /\ slot.work = slots[s].work
    BY <1>1, <1>2, <1>10 DEF Slots, Shaped
  <2>2. new \in Jobs /\ new.at = "drop" /\ new.slot = s /\ new.then = job[h].then
    BY <1>1 DEF Jobs, Places, s
  <2>3. job' = [job EXCEPT ![h] = new] /\ slots' = [slots EXCEPT ![s] = slot] /\ job[h].at = "close"
    BY <1>10 DEF CloseIndex, Goto, At, s
  <2> HIDE DEF slot, new
  <2>4. Saved' /\ job'[h] = new
    BY <1>6, <1>10, <2>2, <2>3 DEF CloseIndex, Persisting
  <2>5. Removing(h) /\ Removing(h)' /\ ~Querying(h)' /\ ~Adding(h)' /\ slots[s].cancel
    BY <1>4, <2>2, <2>3, <2>4 DEF Adding, Removing, Querying
  <2>6. Types' /\ HandlersPlaced' /\ OneEach' /\ SlotsKept'
    BY <1>1, <1>2, <1>10, <2>1, <2>2, <2>3, <2>5, HandlerSlotStep DEF CloseIndex, s
  <2> QED
    BY <2>4, <2>6 DEF DaemonInv
<1>11. CASE DropIndex(h)
  <2> DEFINE slot == [slots[s] EXCEPT !.index = FALSE]
             new == [job[h] EXCEPT !.at = "snapshot"]
  <2>1. job[h].at = "drop" /\ Removing(h) /\ slots[s].index /\ slots[s].state = "ready" /\ job[h].then = "idle"
    <3>1. job[h].at = "drop" /\ Removing(h)
      BY <1>11 DEF DropIndex, At, Removing
    <3> QED
      BY <1>2, <1>4, <3>1 DEF Shaped
  <2>2. /\ slot \in Slots /\ Shaped(slot) /\ slot.name = slots[s].name /\ slot.state = slots[s].state
        /\ slot.cancel = slots[s].cancel /\ ~slot.index /\ slot.conn = slots[s].conn
        /\ slot.thread = slots[s].thread /\ slot.work = slots[s].work
    BY <1>2, <2>1 DEF Slots, Shaped
  <2>3. new \in Jobs /\ new.at = "snapshot" /\ new.slot = s /\ new.then = "idle"
    BY <1>1, <2>1 DEF Jobs, Places, s
  <2>4. job' = [job EXCEPT ![h] = new] /\ slots' = [slots EXCEPT ![s] = slot]
    BY <1>11 DEF DropIndex, Goto, s
  <2> HIDE DEF slot, new
  <2>5. Saved' /\ job'[h] = new
    BY <1>6, <1>11, <2>1, <2>3, <2>4 DEF DropIndex, Persisting
  <2>6. ~Removing(h)' /\ ~Querying(h)' /\ ~Adding(h)' /\ ~OnSlot(h)'
    BY <2>3, <2>5 DEF Adding, Removing, Querying, OnSlot
  <2>7. slot.conn = "closed" \/ s \in reopened
    <3>1. job[h].slot = s
      BY DEF s
    <3> QED
      BY <1>5, <2>1, <2>2, <3>1
  <2>8. Types' /\ HandlersPlaced' /\ OneEach' /\ SlotsKept'
    BY <1>1, <1>2, <1>11, <2>1, <2>2, <2>3, <2>4, <2>6, <2>7, HandlerSlotStep DEF DropIndex, s
  <2> QED
    BY <2>5, <2>8 DEF DaemonInv
<1>12. CASE Enter(h)
  <2> DEFINE slot == [slots[s] EXCEPT !.conn = "open"]
             new == [job[h] EXCEPT !.at = "run"]
  <2>1. job[h].at = "enter" /\ Querying(h) /\ slots[s].state = "ready"
    <3>1. job[h].at = "enter" /\ Querying(h)
      BY <1>12 DEF Enter, At, Querying
    <3> QED
      BY <1>4, <3>1
  <2>2. /\ slot \in Slots /\ Shaped(slot) /\ slot.name = slots[s].name /\ slot.state = slots[s].state
        /\ slot.cancel = slots[s].cancel /\ slot.index = slots[s].index
        /\ slot.thread = slots[s].thread /\ slot.work = slots[s].work
    BY <1>2, <2>1 DEF Slots, Shaped
  <2>3. new \in Jobs /\ new.at = "run" /\ new.slot = s
    BY <1>1 DEF Jobs, Places, s
  <2>4. /\ job' = [job EXCEPT ![h] = new] /\ slots' = [slots EXCEPT ![s] = slot]
        /\ reopened' = IF slots[s].conn = "closed" THEN reopened \union {s} ELSE reopened
    BY <1>1, <1>12 DEF Enter, Goto, s
  <2> HIDE DEF slot, new
  <2>5. Saved' /\ job'[h] = new /\ \A g \in Handlers : g # h => job'[g] = job[g]
    BY <1>6, <1>12, <2>1, <2>3, <2>4 DEF Enter, Persisting, Changing, Removing
  <2>6. ~Removing(h) /\ ~Removing(h)' /\ ~Adding(h)'
    BY <2>1, <2>3, <2>5 DEF Adding, Removing
  <2>7. slot.state = "ready" /\ (~slot.index \/ \E g \in Handlers : job'[g].at = "drop" /\ job'[g].slot = s) =>
          slot.conn = "closed" \/ s \in reopened'
    BY <1>5, <2>2, <2>3, <2>4, <2>5
  <2>8. reopened \subseteq reopened' /\ reopened' \subseteq Numbers
    BY <1>1, <1>2, <2>4
  <2>9. Types' /\ HandlersPlaced' /\ OneEach' /\ SlotsKept'
    BY <1>1, <1>2, <1>12, <2>1, <2>2, <2>3, <2>4, <2>6, <2>7, <2>8, HandlerSlotStep DEF Enter, s
  <2> QED
    BY <2>5, <2>9 DEF DaemonInv
<1> QED
  BY <1>7, <1>8, <1>9, <1>10, <1>11, <1>12

(* The steps of a removal that leave the slots.                              *)
LEMMA JoinsKeep ==
  ASSUME DaemonInv, NEW h \in Handlers,
         Join(h) \/ JoinFails(h) \/ (CloseIndex(h) /\ ~Mine(h).index)
  PROVE  DaemonInv'
<1>1. /\ job[h] \in Jobs /\ job \in [Handlers -> Jobs] /\ cfgRepos \subseteq Names /\ file \subseteq Names
      /\ used \in [{"faults", "timeouts"} -> Nat]
      /\ used["faults"] <= MaxFaults /\ used["timeouts"] <= MaxTimeouts
      /\ unfinished \in BOOLEAN /\ overlapped \in BOOLEAN
  BY DEF DaemonInv, Types
<1>2. Idle \in Jobs /\ Idle.at = "idle"
  BY IdleIsAJob DEF Idle
<1>3. /\ job[h].at \in {"join", "close"} /\ Removing(h) /\ ~Persisting(h) /\ ~Adding(h)
      /\ job[h].slot \in Numbers /\ Shaped(slots[job[h].slot]) /\ job[h].then = "idle"
  <2>1. job[h].at \in {"join", "close"}
    BY DEF Join, JoinFails, CloseIndex, At
  <2>2. Removing(h) /\ ~Persisting(h) /\ ~Adding(h)
    BY <2>1 DEF Removing, Persisting, Adding
  <2>3. job[h].slot \in Numbers /\ job[h].then = "idle"
    BY <2>2 DEF DaemonInv, HandlersPlaced, OnSlot
  <2> QED
    BY <2>1, <2>2, <2>3 DEF DaemonInv, SlotsKept
<1>4. CASE Join(h)
  <2> DEFINE new == [job[h] EXCEPT !.at = "close"]
  <2>1. new \in Jobs /\ new.at = "close" /\ new.slot = job[h].slot /\ new.then = job[h].then
    BY <1>1 DEF Jobs, Places
  <2>2. job' = [job EXCEPT ![h] = new] /\ job[h].at = "join"
    BY <1>4 DEF Join, Goto, At
  <2> HIDE DEF new
  <2>3. job'[h] = new /\ \A g \in Handlers : g # h => job'[g] = job[g]
    BY <2>1, <2>2, JobAfter DEF DaemonInv
  <2>4. Removing(h)' /\ ~Adding(h)' /\ ~Querying(h)' /\ ~Persisting(h)' /\ Changing(h)'
    BY <2>1, <2>3 DEF Removing, Adding, Querying, Persisting, Changing
  <2>5. /\ used' \in [{"faults", "timeouts"} -> Nat]
        /\ used'["faults"] <= MaxFaults /\ used'["timeouts"] <= MaxTimeouts
    BY <1>1, <1>4, BoundsAssumption DEF Join, Spend, Bounds
  <2>6. Types' /\ HandlersPlaced' /\ OneEach' /\ SlotsKept'
    BY <1>1, <1>3, <1>4, <2>1, <2>2, <2>4, <2>5, HandlerStep DEF Join, configs
  <2>7. Saved'
    BY <1>3, <1>4, <2>3, <2>4, SavedCarries DEF Join, configs, DaemonInv
  <2> QED
    BY <2>6, <2>7 DEF DaemonInv
<1>5. CASE JoinFails(h)
  <2>1. job' = [job EXCEPT ![h] = Idle] /\ unfinished' = TRUE /\ job[h].at = "join"
    BY <1>5 DEF JoinFails, RaiseUnfinished, Return, At
  <2>2. job'[h] = Idle /\ \A g \in Handlers : g # h => job'[g] = job[g]
    BY <1>2, <2>1, JobAfter DEF DaemonInv
  <2>3. ~OnSlot(h)' /\ ~Removing(h)' /\ ~Adding(h)' /\ ~Querying(h)'
    BY <1>2, <2>2 DEF OnSlot, Removing, Adding, Querying
  <2>4. ~slots[job[h].slot].index
    BY <1>3, <1>5 DEF JoinFails, Mine, Shaped
  <2>5. Types' /\ HandlersPlaced' /\ OneEach' /\ SlotsKept'
    BY <1>1, <1>2, <1>5, <2>1, <2>3, <2>4, HandlerStep DEF JoinFails, configs
  <2> QED
    BY <2>1, <2>5 DEF DaemonInv, Saved
<1>6. CASE CloseIndex(h) /\ ~Mine(h).index
  <2> DEFINE new == [job[h] EXCEPT !.at = "snapshot"]
  <2>1. new \in Jobs /\ new.at = "snapshot" /\ new.then = "idle"
    BY <1>1, <1>3 DEF Jobs, Places
  <2>2. job' = [job EXCEPT ![h] = new] /\ job[h].at = "close" /\ UNCHANGED slots
    BY <1>6 DEF CloseIndex, Goto, At
  <2> HIDE DEF new
  <2>3. job'[h] = new /\ \A g \in Handlers : g # h => job'[g] = job[g]
    BY <2>1, <2>2, JobAfter DEF DaemonInv
  <2>4. ~Removing(h)' /\ ~Adding(h)' /\ ~Querying(h)' /\ ~Persisting(h)' /\ Changing(h)' /\ ~OnSlot(h)'
    BY <2>1, <2>3 DEF Removing, Adding, Querying, Persisting, Changing, OnSlot
  <2>5. ~slots[job[h].slot].index
    BY <1>6 DEF Mine
  <2>6. Types' /\ HandlersPlaced' /\ OneEach' /\ SlotsKept'
    BY <1>1, <1>3, <1>6, <2>1, <2>2, <2>4, <2>5, HandlerStep DEF CloseIndex, configs
  <2>7. Saved'
    BY <1>3, <1>6, <2>3, <2>4, SavedCarries DEF CloseIndex, configs, DaemonInv
  <2> QED
    BY <2>6, <2>7 DEF DaemonInv
<1> QED
  BY <1>4, <1>5, <1>6

(* A handler that has changed the registry has not saved it, so nothing is   *)
(* said of repos.toml.                                                       *)
LEMMA ChangeBegins ==
  ASSUME DaemonInv, NEW h \in Handlers, NEW new \in Jobs, job' = [job EXCEPT ![h] = new],
         UNCHANGED <<configs, unfinished>>, new.at \in {"snapshot", "cancel"}
  PROVE  Saved'
<1>1. job'[h] = new /\ \A g \in Handlers : g # h => job'[g] = job[g]
  BY JobAfter DEF DaemonInv
<1>2. Changing(h)' /\ \A g \in Handlers : Persisting(g)' => Persisting(g)
  BY <1>1 DEF Changing, Removing, Persisting
<1>3. (~overlapped /\ ~unfinished) => \A f, g \in Handlers : Persisting(f)' /\ Persisting(g)' => f = g
  BY <1>2 DEF DaemonInv, Saved
<1> QED
  BY <1>2, <1>3 DEF Saved, configs

LEMMA AddKeeps ==
  ASSUME DaemonInv, NEW h \in Handlers, NEW n \in Names, AddRepo(h, n)
  PROVE  DaemonInv'
<1> DEFINE new == [Idle EXCEPT !.at = "snapshot", !.slot = Len(slots) + 1, !.then = "thread"]
<1>1. PICK k \in Nat : k = Len(slots) /\ Numbers = 1 .. k /\ k < MaxSlots
  BY LenProperties DEF DaemonInv, Types, Numbers, AddRepo
<1>2. NewSlot(n) \in Slots /\ Shaped(NewSlot(n)) /\ NewSlot(n).name = n /\ NewSlot(n).state = "queued"
      /\ NewSlot(n).work = "none" /\ NewSlot(n).thread = "none"
  BY DEF NewSlot, Slots, Shaped
<1>3. /\ slots' \in Seq(Slots) /\ Len(slots') = k + 1 /\ slots'[k + 1] = NewSlot(n)
      /\ \A q \in 1 .. k : slots'[q] = slots[q]
  BY <1>1, <1>2, AppendProperties DEF DaemonInv, Types, AddRepo
<1>4. Numbers' = 1 .. k + 1
  BY <1>3, LenProperties DEF Numbers
<1>5. /\ registry \in [Names -> 0 .. k] /\ registry' = [registry EXCEPT ![n] = k + 1] /\ registry[n] = 0
  BY <1>1 DEF DaemonInv, Types, AddRepo
<1>6. new \in Jobs /\ new.at = "snapshot" /\ new.slot = k + 1 /\ new.then = "thread"
  <2>1. k + 1 \in 0 .. MaxSlots /\ Idle \in Jobs
    BY <1>1, IdleIsAJob, BoundsAssumption
  <2> QED
    BY <1>1, <2>1 DEF Idle, Jobs, Places
<1>7. job' = [job EXCEPT ![h] = new] /\ job[h].at = "idle"
  BY DEF AddRepo, At
<1> HIDE DEF new
<1>8. /\ job' \in [Handlers -> Jobs] /\ job'[h] = new
      /\ \A g \in Handlers : g # h => job'[g] = job[g]
  BY <1>6, <1>7, JobAfter DEF DaemonInv
<1>9. Types'
  <2>1. registry' \in [Names -> 0 .. k + 1] /\ k + 1 <= MaxSlots /\ Numbers \subseteq Numbers'
    BY <1>1, <1>4, <1>5, BoundsAssumption
  <2> QED
    BY <1>3, <1>8, <2>1 DEF DaemonInv, Types, AddRepo, configs
<1>10. /\ \A q \in Numbers : RegisteredSlot(q)' <=> RegisteredSlot(q)
       /\ RegisteredSlot(k + 1)'
       /\ \A m \in Names : registry'[m] = k + 1 => m = n
       /\ \A m \in Names, q \in Numbers : registry'[m] = q => registry[m] = q
  BY <1>1, <1>5 DEF RegisteredSlot
<1>11. /\ Adding(h)' /\ ~Removing(h)' /\ ~Querying(h)' /\ ~Removing(h)
       /\ \A g \in Handlers : g # h =>
            /\ (Removing(g)' <=> Removing(g)) /\ (Adding(g)' <=> Adding(g))
            /\ (Querying(g)' <=> Querying(g)) /\ (OnSlot(g)' <=> OnSlot(g))
  BY <1>6, <1>7, <1>8 DEF Removing, Adding, Querying, OnSlot
<1>12. HandlersPlaced'
  <2>1. ASSUME NEW g \in Handlers, g # h
        PROVE  /\ OnSlot(g)' => job'[g].slot \in Numbers'
               /\ Adding(g)' =>
                    /\ Mine(g)'.state = "queued" /\ Mine(g)'.work = "none"
                    /\ Mine(g)'.thread = IF job'[g].at = "start" THEN "assigned" ELSE "none"
               /\ Removing(g)' => ~(\E m \in Names : registry'[m] = job[g].slot) /\ job'[g].then = "idle"
               /\ job'[g].at \in {"join", "close", "drop"} => Mine(g)'.cancel
               /\ Querying(g)' => Mine(g)'.state = "ready"
               /\ job'[g].at = "drop" => Mine(g)'.index
    <3>1. /\ OnSlot(g) => job[g].slot \in Numbers
          /\ Adding(g) =>
               /\ Mine(g).state = "queued" /\ Mine(g).work = "none"
               /\ Mine(g).thread = IF job[g].at = "start" THEN "assigned" ELSE "none"
          /\ Removing(g) => ~RegisteredSlot(job[g].slot) /\ job[g].then = "idle"
          /\ job[g].at \in {"join", "close", "drop"} => Mine(g).cancel
          /\ Querying(g) => Mine(g).state = "ready"
          /\ job[g].at = "drop" => Mine(g).index
      BY DEF DaemonInv, HandlersPlaced
    <3>2. OnSlot(g) => Mine(g)' = Mine(g)
      BY <1>1, <1>3, <1>8, <2>1, <3>1 DEF Mine
    <3>3. /\ Adding(g) \/ Removing(g) \/ Querying(g) => OnSlot(g)
          /\ job[g].at \in {"join", "close", "drop"} => Removing(g)
      BY DEF OnSlot, Removing
    <3>4. OnSlot(g) => job[g].slot \in Numbers'
      BY <1>1, <1>4, <3>1
    <3>5. Removing(g)' => ~(\E m \in Names : registry'[m] = job[g].slot)
      BY <1>10, <1>11, <2>1, <3>1, <3>3 DEF RegisteredSlot
    <3> QED
      BY <1>8, <1>11, <2>1, <3>1, <3>2, <3>3, <3>4, <3>5
  <2>2. Mine(h)' = NewSlot(n) /\ job'[h].slot \in Numbers'
    BY <1>3, <1>4, <1>6, <1>8 DEF Mine
  <2>3. job'[h].at \notin {"start", "join", "close", "drop"}
    BY <1>6, <1>8
  <2>4. \A g \in Handlers : g # h => (Removing(g)' => ~(\E m \in Names : registry'[m] = job'[g].slot))
    BY <1>8, <2>1 DEF RegisteredSlot
  <2> QED
    BY <1>2, <1>11, <2>1, <2>2, <2>3, <2>4 DEF HandlersPlaced, RegisteredSlot
<1>13. OneEach'
  <2>1. \A g \in Handlers : g # h /\ (Adding(g)' \/ Removing(g)') => job'[g].slot # k + 1
    <3>1. \A g \in Handlers : (Adding(g) \/ Removing(g)) => job[g].slot \in 1 .. k
      BY <1>1 DEF DaemonInv, HandlersPlaced, OnSlot
    <3> QED
      BY <1>1, <1>8, <1>11, <3>1
  <2>2. job'[h].slot = k + 1
    BY <1>6, <1>8
  <2>3. ASSUME NEW f \in Handlers, NEW g \in Handlers, f # h, g # h, job'[f].slot = job'[g].slot,
               (Adding(f)' /\ Adding(g)') \/ (Removing(f)' /\ Removing(g)')
        PROVE  f = g
    BY <1>8, <1>11, <2>3 DEF DaemonInv, OneEach
  <2> QED
    BY <1>11, <2>1, <2>2, <2>3 DEF OneEach
<1>14. SlotsKept'
  <2>1. ASSUME NEW q \in Numbers
        PROVE  /\ Shaped(slots'[q])
               /\ \A m \in Names : registry'[m] = q => slots'[q].name = m
               /\ ~RegisteredSlot(q)' =>
                    /\ slots'[q].cancel \/ \E g \in Handlers : job'[g].at = "cancel" /\ job'[g].slot = q
                    /\ slots'[q].index => \E g \in Handlers : Removing(g)' /\ job'[g].slot = q
               /\ slots'[q].state = "ready" /\
                    (~slots'[q].index \/ \E g \in Handlers : job'[g].at = "drop" /\ job'[g].slot = q) =>
                    slots'[q].conn = "closed" \/ q \in reopened
    <3>1. /\ Shaped(slots[q])
          /\ \A m \in Names : registry[m] = q => slots[q].name = m
          /\ ~RegisteredSlot(q) =>
               /\ slots[q].cancel \/ \E g \in Handlers : job[g].at = "cancel" /\ job[g].slot = q
               /\ slots[q].index => \E g \in Handlers : Removing(g) /\ job[g].slot = q
          /\ slots[q].state = "ready" /\
               (~slots[q].index \/ \E g \in Handlers : job[g].at = "drop" /\ job[g].slot = q) =>
               slots[q].conn = "closed" \/ q \in reopened
      BY DEF DaemonInv, SlotsKept
    <3>2. slots'[q] = slots[q]
      BY <1>1, <1>3
    <3>3. \A g \in Handlers :
            /\ job[g].at = "cancel" => job'[g] = job[g]
            /\ Removing(g) => Removing(g)' /\ job'[g] = job[g]
            /\ job'[g].at = "drop" => job'[g] = job[g]
      BY <1>6, <1>7, <1>8, <1>11
    <3> QED
      BY <1>10, <3>1, <3>2, <3>3
  <2>2. \A q \in Numbers' : q \in Numbers \/ q = k + 1
    BY <1>1, <1>4
  <2>3. reopened' = reopened
    BY DEF AddRepo
  <2>4. \A q \in Numbers : ~RegisteredSlot(q)' =>
           /\ slots'[q].cancel \/ \E g \in Handlers : job'[g].at = "cancel" /\ job'[g].slot = q
           /\ slots'[q].index => \E g \in Handlers : Removing(g)' /\ job'[g].slot = q
    BY <2>1
  <2> QED
    BY <1>2, <1>3, <1>10, <2>1, <2>2, <2>3, <2>4 DEF SlotsKept
<1>15. Saved'
  BY <1>6, <1>7, ChangeBegins DEF AddRepo
<1> QED
  BY <1>9, <1>12, <1>13, <1>14, <1>15 DEF DaemonInv

LEMMA RemoveKeeps ==
  ASSUME DaemonInv, NEW h \in Handlers, NEW n \in Names, RemoveRepo(h, n)
  PROVE  DaemonInv'
<1>1. PICK s \in Numbers : s = registry[n] /\ s \in 0 .. MaxSlots /\ s # 0
  BY RegisteredTyped DEF DaemonInv, RemoveRepo, Registered
<1> DEFINE new == [Idle EXCEPT !.at = "cancel", !.slot = s]
<1>2. new \in Jobs /\ new.at = "cancel" /\ new.slot = s /\ new.then = "idle"
  BY <1>1, IdleIsAJob DEF Idle, Jobs, Places
<1>3. /\ job' = [job EXCEPT ![h] = new] /\ job[h].at = "idle"
      /\ registry' = [registry EXCEPT ![n] = 0] /\ registry \in [Names -> 0 .. Len(slots)]
      /\ UNCHANGED <<slots, configs, used, unfinished, reopened>>
  BY <1>1 DEF RemoveRepo, At, DaemonInv, Types
<1>4. \A m \in Names : registry[m] = s => m = n
  BY <1>1 DEF DaemonInv, SlotsKept
<1>5. /\ ~RegisteredSlot(s)' /\ RegisteredSlot(s)
      /\ \A q \in Numbers : q # s => (RegisteredSlot(q)' <=> RegisteredSlot(q))
      /\ \A m \in Names, q \in Numbers : registry'[m] = q => registry[m] = q
      /\ Numbers' = Numbers
  <2>1. 0 \notin Numbers
    BY LenProperties DEF DaemonInv, Types, Numbers
  <2> QED
    BY <1>1, <1>3, <1>4, <2>1 DEF RegisteredSlot, Numbers
<1> HIDE DEF new
<1>6. /\ job' \in [Handlers -> Jobs] /\ job'[h] = new
      /\ \A g \in Handlers : g # h => job'[g] = job[g]
  BY <1>2, <1>3, JobAfter DEF DaemonInv
<1>7. Types'
  <2>1. registry' \in [Names -> 0 .. Len(slots)]
    <3>1. PICK k \in Nat : k = Len(slots)
      BY LenProperties DEF DaemonInv, Types
    <3> QED
      BY <1>3, <3>1
  <2> QED
    BY <1>3, <1>5, <1>6, <2>1 DEF DaemonInv, Types, configs
<1>8. /\ ~Adding(h)' /\ Removing(h)' /\ ~Querying(h)' /\ ~Removing(h)
      /\ \A g \in Handlers : g # h =>
           /\ (Removing(g)' <=> Removing(g)) /\ (Adding(g)' <=> Adding(g))
           /\ (Querying(g)' <=> Querying(g)) /\ (OnSlot(g)' <=> OnSlot(g)) /\ Mine(g)' = Mine(g)
  BY <1>2, <1>3, <1>6 DEF Removing, Adding, Querying, OnSlot, Mine
<1>9. HandlersPlaced'
  <2>1. ASSUME NEW g \in Handlers, g # h
        PROVE  /\ OnSlot(g)' => job'[g].slot \in Numbers
               /\ Adding(g)' =>
                    /\ Mine(g)'.state = "queued" /\ Mine(g)'.work = "none"
                    /\ Mine(g)'.thread = IF job'[g].at = "start" THEN "assigned" ELSE "none"
               /\ Removing(g)' => ~(\E m \in Names : registry'[m] = job[g].slot) /\ job'[g].then = "idle"
               /\ job'[g].at \in {"join", "close", "drop"} => Mine(g)'.cancel
               /\ Querying(g)' => Mine(g)'.state = "ready"
               /\ job'[g].at = "drop" => Mine(g)'.index
    <3>1. /\ OnSlot(g) => job[g].slot \in Numbers
          /\ Adding(g) =>
               /\ Mine(g).state = "queued" /\ Mine(g).work = "none"
               /\ Mine(g).thread = IF job[g].at = "start" THEN "assigned" ELSE "none"
          /\ Removing(g) => ~RegisteredSlot(job[g].slot) /\ job[g].then = "idle"
          /\ job[g].at \in {"join", "close", "drop"} => Mine(g).cancel
          /\ Querying(g) => Mine(g).state = "ready"
          /\ job[g].at = "drop" => Mine(g).index
      BY DEF DaemonInv, HandlersPlaced
    <3>2. Removing(g) => OnSlot(g)
      BY DEF OnSlot
    <3>3. Removing(g) => ~(\E m \in Names : registry'[m] = job[g].slot)
      <4>1. ASSUME Removing(g) PROVE ~(\E m \in Names : registry'[m] = job[g].slot)
        <5>1. job[g].slot \in Numbers /\ job[g].slot # s /\ ~RegisteredSlot(job[g].slot)
          BY <1>5, <3>1, <3>2, <4>1
        <5>2. \A q \in Numbers : q # s /\ ~RegisteredSlot(q) => ~(\E m \in Names : registry'[m] = q)
          BY <1>5 DEF RegisteredSlot
        <5> QED
          BY <5>1, <5>2 DEF RegisteredSlot
      <4> QED
        BY <4>1
    <3> QED
      BY <1>6, <1>8, <2>1, <3>1, <3>3
  <2>2. /\ job'[h].slot = s /\ job'[h].then = "idle" /\ job'[h].at = "cancel"
    BY <1>2, <1>6
  <2>3. \A g \in Handlers : Removing(g)' => ~(\E m \in Names : registry'[m] = job'[g].slot)
    BY <1>5, <1>6, <2>1, <2>2 DEF RegisteredSlot
  <2> QED
    BY <1>1, <1>5, <1>8, <2>1, <2>2, <2>3 DEF HandlersPlaced, RegisteredSlot
<1>10. OneEach'
  <2>1. \A g \in Handlers : Removing(g) => job[g].slot # s
    BY <1>5 DEF DaemonInv, HandlersPlaced
  <2>2. job'[h].slot = s
    BY <1>2, <1>6
  <2>3. ASSUME NEW f \in Handlers, NEW g \in Handlers, f # h, g # h, job'[f].slot = job'[g].slot,
               (Adding(f)' /\ Adding(g)') \/ (Removing(f)' /\ Removing(g)')
        PROVE  f = g
    BY <1>6, <1>8, <2>3 DEF DaemonInv, OneEach
  <2>4. \A g \in Handlers : g # h /\ Removing(g)' => job'[g].slot # s
    BY <1>6, <1>8, <2>1
  <2> QED
    BY <1>8, <2>2, <2>3, <2>4 DEF OneEach
<1>11. SlotsKept'
  <2>1. ASSUME NEW q \in Numbers
        PROVE  /\ Shaped(slots[q])
               /\ \A m \in Names : registry'[m] = q => slots[q].name = m
               /\ ~RegisteredSlot(q)' =>
                    /\ slots[q].cancel \/ \E g \in Handlers : job'[g].at = "cancel" /\ job'[g].slot = q
                    /\ slots[q].index => \E g \in Handlers : Removing(g)' /\ job'[g].slot = q
               /\ slots[q].state = "ready" /\
                    (~slots[q].index \/ \E g \in Handlers : job'[g].at = "drop" /\ job'[g].slot = q) =>
                    slots[q].conn = "closed" \/ q \in reopened
    <3>1. /\ Shaped(slots[q])
          /\ \A m \in Names : registry[m] = q => slots[q].name = m
          /\ ~RegisteredSlot(q) =>
               /\ slots[q].cancel \/ \E g \in Handlers : job[g].at = "cancel" /\ job[g].slot = q
               /\ slots[q].index => \E g \in Handlers : Removing(g) /\ job[g].slot = q
          /\ slots[q].state = "ready" /\
               (~slots[q].index \/ \E g \in Handlers : job[g].at = "drop" /\ job[g].slot = q) =>
               slots[q].conn = "closed" \/ q \in reopened
      BY DEF DaemonInv, SlotsKept
    <3>2. \A g \in Handlers :
            /\ job[g].at = "cancel" => job'[g] = job[g]
            /\ Removing(g) => Removing(g)' /\ job'[g] = job[g]
            /\ job'[g].at = "drop" => job'[g] = job[g]
      BY <1>2, <1>3, <1>6, <1>8
    <3>3. job'[h].at = "cancel" /\ job'[h].slot = s
      BY <1>2, <1>6
    <3>4. CASE q = s
      BY <1>5, <1>8, <3>1, <3>2, <3>3, <3>4
    <3>5. CASE q # s
      BY <1>5, <3>1, <3>2, <3>5
    <3> QED
      BY <3>4, <3>5
  <2>2. \A q \in Numbers : ~RegisteredSlot(q)' =>
           /\ slots[q].cancel \/ \E g \in Handlers : job'[g].at = "cancel" /\ job'[g].slot = q
           /\ slots[q].index => \E g \in Handlers : Removing(g)' /\ job'[g].slot = q
    BY <2>1
  <2> QED
    BY <1>3, <1>5, <2>1, <2>2 DEF SlotsKept
<1>12. Saved'
  BY <1>2, <1>3, ChangeBegins
<1> QED
  BY <1>7, <1>9, <1>10, <1>11, <1>12 DEF DaemonInv

LEMMA NextKeeps ==
  ASSUME DaemonInv, [Next]_vars
  PROVE  DaemonInv'
<1>1. ASSUME NEW h \in Handlers, Call(h) PROVE DaemonInv'
  BY <1>1, QueriesKeep, AddKeeps, RemoveKeeps DEF Call
<1>2. ASSUME NEW h \in Handlers, Handle(h) PROVE DaemonInv'
  BY <1>2, QueriesKeep, SavesKeep, SlotHandlersKeep, JoinsKeep DEF Handle, Serve
<1>3. ASSUME NEW s, Work(s) PROVE DaemonInv'
  BY <1>3, WorkKeeps
<1>4. CASE UNCHANGED vars
  BY <1>4 DEF vars, DaemonInv, Types, HandlersPlaced, OneEach, SlotsKept, Saved, Numbers, RegisteredSlot,
       Removing, Adding, Querying, OnSlot, Changing, Persisting, Mine, Registered
<1> QED
  BY <1>1, <1>2, <1>3, <1>4 DEF Next

(* However additions, removals, indexing threads, queries and saves          *)
(* interleave, each slot goes through its states in order, is in the hands   *)
(* of at most one adding and one removing handler, and repos.toml follows    *)
(* the registry (RepoManager, RepoSlot, _persist_config).                    *)
THEOREM DaemonKeeps == Spec => []DaemonInv
<1>1. Init => DaemonInv
  BY DaemonInitInv
<1>2. DaemonInv /\ [Next]_vars => DaemonInv'
  BY NextKeeps
<1> QED
  BY <1>1, <1>2, PTL DEF Spec

(* A removed repository ends closed: a slot that no handler and no thread is *)
(* at work on any more holds no Index, and no connection but one that a      *)
(* query reopened after the close (RepoManager.remove, RepoSlot.set_ready).  *)
THEOREM RemovedEndsClosed == Spec => []ForgottenIsClosed
<1>1. DaemonInv => TypeOK
  <2>1. DaemonInv => \A kind \in DOMAIN Bounds : used[kind] \in 0 .. Bounds[kind]
    BY BoundsAssumption DEF DaemonInv, Types, Bounds
  <2> QED
    BY <2>1 DEF DaemonInv, Types, TypeOK, Numbers
<1>2. ASSUME DaemonInv, NEW s \in DOMAIN slots, Forgotten(s)
      PROVE  ~slots[s].index /\ (slots[s].conn = "closed" \/ s \in reopened)
  <2>1. s \in Numbers /\ ~RegisteredSlot(s)
    BY <1>2 DEF Numbers, Forgotten, RegisteredSlot
  <2>2. \A h \in Handlers : job[h].slot = s => ~Removing(h) /\ job[h].at # "cancel" /\ job[h].at # "drop"
    BY <1>2 DEF Forgotten, Removing, At
  <2>3. ~slots[s].index /\ slots[s].cancel
    BY <1>2, <2>1, <2>2 DEF DaemonInv, SlotsKept
  <2>4. Shaped(slots[s]) /\ slots[s].work \in {"none", "done"} /\ slots[s].conn # "closing"
    BY <1>2, <2>1 DEF DaemonInv, SlotsKept, Forgotten
  <2>5. slots[s].state = "ready" => slots[s].conn = "closed" \/ s \in reopened
    BY <1>2, <2>1, <2>3 DEF DaemonInv, SlotsKept
  <2> QED
    BY <2>3, <2>4, <2>5 DEF Shaped
<1>3. DaemonInv => ForgottenIsClosed
  BY <1>1, <1>2 DEF ForgottenIsClosed
<1> QED
  BY <1>3, DaemonKeeps, PTL

(* Once every change of the registry is done, repos.toml names what is       *)
(* registered, unless saves have overlapped or a change ended with an error  *)
(* (_persist_config).                                                        *)
THEOREM ConfigFollowsRegistry == Spec => []ConfigCurrentUnlessOverlapped
<1>1. \A h \in Handlers : ~Unsaved(h) => ~Changing(h) /\ ~Persisting(h)
  BY DEF Unsaved, Changing, Removing, Persisting
<1>2. DaemonInv => ConfigCurrentUnlessOverlapped
  BY <1>1 DEF DaemonInv, Saved, ConfigCurrentUnlessOverlapped
<1> QED
  BY <1>2, DaemonKeeps, PTL

-----------------------------------------------------------------------------
(* The token: DaemonToken.                                                   *)
Stages == {"down", "exists", "create", "write", "link", "read", "unlink", "up"}

TokenTypeOK ==
  /\ token \in Nat
  /\ draft \in [Daemons -> Int]
  /\ stage \in [Daemons -> Stages]
  /\ has \in [Daemons \cup Clients -> Nat]
  /\ drawn \in Nat

(* What is linked is a token: the draft is whole before its link.            *)
DraftsWhole == \A d \in Daemons : stage[d] = "link" => draft[d] > 0

Agreed == \A p \in Daemons \cup Clients : has[p] \in {0, token}

TokenInv == TokenTypeOK /\ DraftsWhole /\ Agreed

LEMMA TokenInitially == TokenInit => TokenInv
  BY SMT DEF TokenInit, TokenInv, TokenTypeOK, DraftsWhole, Agreed, Stages

(* The link is made only while nobody has a token, and then the linker has   *)
(* the one it made.                                                          *)
LEMMA FirstLinkElects ==
  ASSUME TokenInv, NEW d \in Daemons, LinkDraft(d), token = 0
  PROVE  TokenInv'
<1>1. /\ token' = draft[d] /\ has' = [has EXCEPT ![d] = draft[d]]
      /\ stage' = [stage EXCEPT ![d] = "unlink"] /\ UNCHANGED <<draft, drawn>>
  BY DEF LinkDraft, StageTo
<1>2. token' \in Nat
  BY <1>1 DEF TokenInv, TokenTypeOK, DraftsWhole, LinkDraft
<1>3. has' \in [Daemons \cup Clients -> Nat]
  BY <1>1, <1>2 DEF TokenInv, TokenTypeOK
<1>4. TokenTypeOK'
  BY <1>1, <1>2, <1>3 DEF TokenInv, TokenTypeOK, Stages
<1>5. DraftsWhole'
  BY <1>1 DEF TokenInv, TokenTypeOK, DraftsWhole
<1>6. Agreed'
  <2>1. \A p \in Daemons \cup Clients : has[p] = 0
    BY DEF TokenInv, Agreed
  <2> QED
    BY <1>1, <2>1 DEF TokenInv, TokenTypeOK, Agreed
<1> QED
  BY <1>4, <1>5, <1>6 DEF TokenInv

LEMMA DaemonStep ==
  ASSUME TokenInv, NEW d \in Daemons,
         \/ StartDaemon(d) \/ TokenExists(d) \/ CreateDraft(d) \/ WriteDraft(d) \/ LinkDraft(d)
         \/ ReadToken(d) \/ UnlinkDraft(d) \/ DaemonGone(d)
  PROVE  TokenInv'
<1> USE DEF StageTo, Stages, Part
<1>1. CASE StartDaemon(d)
  <2>1. TokenTypeOK'
    BY <1>1 DEF StartDaemon, TokenInv, TokenTypeOK
  <2>2. DraftsWhole'
    BY <1>1 DEF StartDaemon, TokenInv, TokenTypeOK, DraftsWhole
  <2>3. Agreed'
    BY <1>1 DEF StartDaemon, TokenInv, TokenTypeOK, Agreed
  <2> QED
    BY <2>1, <2>2, <2>3 DEF TokenInv
<1>2. CASE TokenExists(d)
  <2>1. TokenTypeOK'
    BY <1>2 DEF TokenExists, TokenInv, TokenTypeOK
  <2>2. DraftsWhole'
    BY <1>2 DEF TokenExists, TokenInv, TokenTypeOK, DraftsWhole
  <2>3. Agreed'
    BY <1>2 DEF TokenExists, TokenInv, TokenTypeOK, Agreed
  <2> QED
    BY <2>1, <2>2, <2>3 DEF TokenInv
<1>3. CASE CreateDraft(d)
  <2>1. TokenTypeOK'
    BY <1>3 DEF CreateDraft, TokenInv, TokenTypeOK
  <2>2. DraftsWhole'
    BY <1>3 DEF CreateDraft, TokenInv, TokenTypeOK, DraftsWhole
  <2>3. Agreed'
    BY <1>3 DEF CreateDraft, TokenInv, TokenTypeOK, Agreed
  <2> QED
    BY <2>1, <2>2, <2>3 DEF TokenInv
<1>4. CASE WriteDraft(d)
  <2>1. TokenTypeOK'
    BY <1>4 DEF WriteDraft, TokenInv, TokenTypeOK
  <2>2. DraftsWhole'
    BY <1>4 DEF WriteDraft, TokenInv, TokenTypeOK, DraftsWhole
  <2>3. Agreed'
    BY <1>4 DEF WriteDraft, TokenInv, TokenTypeOK, Agreed
  <2> QED
    BY <2>1, <2>2, <2>3 DEF TokenInv
<1>5. CASE LinkDraft(d)
  <2>1. CASE token = 0
    BY <1>5, <2>1, FirstLinkElects
  <2>2. CASE token # 0
    <3>1. TokenTypeOK'
      BY <1>5, <2>2 DEF LinkDraft, TokenInv, TokenTypeOK
    <3>2. DraftsWhole' /\ Agreed'
      BY <1>5, <2>2 DEF LinkDraft, TokenInv, TokenTypeOK, DraftsWhole, Agreed
    <3> QED
      BY <3>1, <3>2 DEF TokenInv
  <2> QED
    BY <2>1, <2>2
<1>6. CASE ReadToken(d)
  <2>1. TokenTypeOK'
    BY <1>6 DEF ReadToken, TokenInv, TokenTypeOK
  <2>2. DraftsWhole'
    BY <1>6 DEF ReadToken, TokenInv, TokenTypeOK, DraftsWhole
  <2>3. Agreed'
    BY <1>6 DEF ReadToken, TokenInv, TokenTypeOK, Agreed
  <2> QED
    BY <2>1, <2>2, <2>3 DEF TokenInv
<1>7. CASE UnlinkDraft(d)
  <2>1. TokenTypeOK'
    BY <1>7 DEF UnlinkDraft, TokenInv, TokenTypeOK
  <2>2. DraftsWhole'
    BY <1>7 DEF UnlinkDraft, TokenInv, TokenTypeOK, DraftsWhole
  <2>3. Agreed'
    BY <1>7 DEF UnlinkDraft, TokenInv, TokenTypeOK, Agreed
  <2> QED
    BY <2>1, <2>2, <2>3 DEF TokenInv
<1>8. CASE DaemonGone(d)
  <2>1. TokenTypeOK'
    BY <1>8 DEF DaemonGone, TokenInv, TokenTypeOK
  <2>2. DraftsWhole'
    BY <1>8 DEF DaemonGone, TokenInv, TokenTypeOK, DraftsWhole
  <2>3. Agreed'
    BY <1>8 DEF DaemonGone, TokenInv, TokenTypeOK, Agreed
  <2> QED
    BY <2>1, <2>2, <2>3 DEF TokenInv
<1> QED
  BY <1>1, <1>2, <1>3, <1>4, <1>5, <1>6, <1>7, <1>8

LEMMA ClientStep ==
  ASSUME TokenInv, NEW c \in Clients, LoadToken(c)
  PROVE  TokenInv'
<1>1. \A p \in Daemons \cup Clients : has'[p] \in {0, token}
  BY DEF TokenInv, TokenTypeOK, Agreed, LoadToken
<1>2. has' \in [Daemons \cup Clients -> Nat]
  BY DEF TokenInv, TokenTypeOK, LoadToken
<1> QED
  BY <1>1, <1>2 DEF TokenInv, TokenTypeOK, DraftsWhole, Agreed, LoadToken

LEMMA TokenInductive == TokenInv /\ [TokenNext]_tokenVars => TokenInv'
<1> SUFFICES ASSUME TokenInv, [TokenNext]_tokenVars
             PROVE  TokenInv'
  OBVIOUS
<1>1. CASE UNCHANGED tokenVars
  BY <1>1 DEF TokenInv, TokenTypeOK, DraftsWhole, Agreed, tokenVars
<1>2. ASSUME NEW d \in Daemons,
             \/ StartDaemon(d) \/ TokenExists(d) \/ CreateDraft(d) \/ WriteDraft(d) \/ LinkDraft(d)
             \/ ReadToken(d) \/ UnlinkDraft(d) \/ DaemonGone(d)
      PROVE  TokenInv'
  BY <1>2, DaemonStep
<1>3. ASSUME NEW c \in Clients, LoadToken(c)
      PROVE  TokenInv'
  BY <1>3, ClientStep
<1> QED
  BY <1>1, <1>2, <1>3 DEF TokenNext

(* The path never holds part of a token, and whoever has a token has the one *)
(* at the path (load_or_create_token), for any daemons, clients and bound.   *)
THEOREM OneToken == TokenSpec => []TokenAgreed
<1>1. TokenInv => TokenAgreed
  BY DEF TokenInv, TokenTypeOK, Agreed, TokenAgreed, Part
<1> QED
  BY <1>1, TokenInitially, TokenInductive, PTL DEF TokenSpec
-----------------------------------------------------------------------------
(* The end of the daemon: DaemonShutdown.                                    *)

Early == {"serving", "joinLoop", "joinBuilds"}
Late == {"lock", "closing", "ended"}
WorkerStates ==
  [at : {"idle", "lock", "close", "work", "ended"}, repo : Repos \cup {"none"}]

DownTypes ==
  /\ server \in Early \cup Late
  /\ {spent, cutShort} \subseteq BOOLEAN
  /\ held \in [Repos -> {"free", "stop"} \cup RefreshThreads]
  /\ {index, conn, round, todo} \subseteq SUBSET Repos
  /\ query \in [Repos -> {"none", "found", "runs"}]
  /\ worker \in [RefreshThreads -> WorkerStates]
  /\ build \in [Repos -> {"build", "publish", "done"}]
  /\ closer \in [Repos -> {"none", "runs", "drops", "done"}]

(* The lock of a slot is held by the one that refreshes it, or for the      *)
(* thread that closes it, until that is over or the budget spent.           *)
SlotsLocked ==
  /\ \A w \in RefreshThreads :
       /\ worker[w].at \in {"lock", "close", "work"} => worker[w].repo \in Repos
       /\ worker[w].at \in {"close", "work"} => held[worker[w].repo] = w
  /\ \A r \in Repos :
       /\ held[r] \in RefreshThreads => worker[held[r]] \in [at : {"close", "work"}, repo : {r}]
       /\ held[r] = "stop" => server = "closing" /\ r \in todo /\ closer[r] # "none"
       /\ closer[r] \in {"runs", "drops"} => spent \/ held[r] = "stop"

(* Slots are closed one after the other.                                    *)
OneCloser ==
  /\ server \in Early => \A r \in Repos : closer[r] = "none"
  /\ server = "lock" => \A r \in todo : closer[r] = "none"
  /\ server = "closing" => \A r, s \in todo : closer[r] # "none" /\ closer[s] # "none" => r = s
  /\ server = "ended" => todo = {}

(* While nothing was cut short, each stage of the end leaves behind it      *)
(* nothing of what it waits for, and what is closed stays closed.           *)
Drained ==
  /\ server = "serving" => ~cutShort
  /\ ~cutShort =>
       /\ server # "serving" => ~InFlight
       /\ server \notin {"serving", "joinLoop"} => worker["loop"].at = "ended"
       /\ server \in Late => \A r \in Repos : build[r] = "done"
       /\ server \in Late => \A r \in Repos \ todo : closer[r] = "done"
       /\ conn \subseteq index
       /\ \A r \in Repos :
            /\ query[r] # "none" => r \in index
            /\ closer[r] = "drops" => r \notin conn
            /\ closer[r] = "done" => r \notin index

DownInv == DownTypes /\ SlotsLocked /\ OneCloser /\ Drained

LEMMA DownBegins == DownInit => DownInv
<1> SUFFICES ASSUME DownInit PROVE DownInv
  OBVIOUS
<1>1. DownTypes
  BY DEF DownInit, DownTypes, Early, WorkerStates, Off
<1>2. SlotsLocked
  BY RefreshersAssumption DEF DownInit, SlotsLocked, Off, RefreshThreads
<1>3. OneCloser /\ Drained
  BY DEF DownInit, OneCloser, Drained, Early, Late
<1> QED
  BY <1>1, <1>2, <1>3 DEF DownInv

(* The lifespan, step by step.                                              *)
LEMMA LifespanKeeps ==
  ASSUME DownInv, Signal \/ StopServing \/ Lifespan
  PROVE  DownInv'
<1> USE DEF DownInv
<1>1. CASE Signal
  BY <1>1 DEF Signal, DownTypes, SlotsLocked, OneCloser, Drained, InFlight, threads
<1>2. CASE StopServing
  <2>1. DownTypes' /\ SlotsLocked' /\ OneCloser'
    BY <1>2 DEF StopServing, DownTypes, SlotsLocked, OneCloser, InFlight, threads, Early, Late
  <2>2. Drained'
    BY <1>2 DEF StopServing, Drained, InFlight, threads, Early, Late
  <2> QED
    BY <2>1, <2>2
<1>3. CASE JoinLoop \/ JoinBuilds
  <2>1. /\ server \in {"joinLoop", "joinBuilds"} /\ server' \in {"joinBuilds", "lock"}
        /\ server = "joinLoop" => server' = "joinBuilds" /\ todo' = todo
        /\ server = "joinBuilds" => server' = "lock" /\ todo' = Repos
        /\ UNCHANGED <<spent, held, index, conn, query, worker, round, build, closer>>
    BY <1>3 DEF JoinLoop, JoinBuilds, threads
  <2>2. DownTypes'
    BY <1>3, <2>1 DEF JoinLoop, JoinBuilds, DownTypes, Early, Late
  <2>3. SlotsLocked'
    BY <2>1 DEF SlotsLocked
  <2>4. OneCloser'
    BY <2>1 DEF OneCloser, Early
  <2>5. Drained'
    BY <1>3, <2>1 DEF JoinLoop, JoinBuilds, DownTypes, Drained, InFlight, Late
  <2> QED
    BY <2>2, <2>3, <2>4, <2>5
<1>4. CASE BudgetPasses \/ AllClosed
  <2>1. /\ server' = server \/ (server = "lock" /\ todo = {} /\ server' = "ended")
        /\ spent' = spent \/ spent' = TRUE
        /\ UNCHANGED <<todo, cutShort, held, index, conn, query, worker, round, build, closer>>
    BY <1>4 DEF BudgetPasses, AllClosed, threads
  <2>2. DownTypes'
    BY <2>1 DEF DownTypes, Late
  <2>3. SlotsLocked' /\ OneCloser'
    BY <2>1 DEF SlotsLocked, OneCloser, Early
  <2>4. Drained'
    BY <2>1 DEF Drained, InFlight, Late
  <2> QED
    BY <2>2, <2>3, <2>4
<1>5. ASSUME NEW r \in Repos, StartClosing(r) PROVE DownInv'
  <2>1. /\ server = "lock" /\ server' = "closing" /\ r \in todo
        /\ closer' = [closer EXCEPT ![r] = "runs"]
        /\ UNCHANGED <<todo, spent, index, conn, query, worker, round, build>>
        /\ \/ spent /\ held' = held /\ cutShort' = TRUE
           \/ held[r] = "free" /\ held' = [held EXCEPT ![r] = "stop"] /\ cutShort' = cutShort
    BY <1>5 DEF StartClosing, threads
  <2>2. DownTypes'
    BY <2>1 DEF DownTypes, Late
  <2>3. SlotsLocked'
    BY <2>1, RefreshersAssumption DEF DownTypes, SlotsLocked, RefreshThreads
  <2>4. OneCloser'
    BY <2>1 DEF DownTypes, OneCloser, Early
  <2>5. Drained'
    BY <2>1 DEF DownTypes, Drained, InFlight, Late
  <2> QED
    BY <2>2, <2>3, <2>4, <2>5
<1>6. ASSUME NEW r \in Repos, JoinCloser(r) PROVE DownInv'
  <2>1. /\ server = "closing" /\ server' = "lock" /\ r \in todo /\ closer[r] # "none"
        /\ closer[r] = "done" \/ spent
        /\ todo' = todo \ {r}
        /\ held' = IF held[r] = "stop" THEN [held EXCEPT ![r] = "free"] ELSE held
        /\ cutShort' = (cutShort \/ closer[r] # "done")
        /\ UNCHANGED <<closer, spent, index, conn, query, worker, round, build>>
    BY <1>6 DEF JoinCloser, threads
  <2>2. DownTypes'
    BY <2>1 DEF DownTypes, Late
  <2>3. /\ \A s \in Repos : held'[s] # "stop"
        /\ \A s \in Repos : held[s] # "stop" => held'[s] = held[s]
    BY <2>1 DEF DownTypes, SlotsLocked, OneCloser
  <2>4. SlotsLocked'
    <3>1. \A w \in RefreshThreads :
            worker[w].at \in {"close", "work"} => held'[worker[w].repo] = w
      BY <2>3, RefreshersAssumption DEF SlotsLocked, RefreshThreads
    <3>2. \A s \in Repos : held'[s] \in RefreshThreads => held'[s] = held[s]
      BY <2>1, <2>3, RefreshersAssumption DEF DownTypes, RefreshThreads
    <3>3. \A s \in Repos : closer[s] \in {"runs", "drops"} => spent
      BY <2>1 DEF SlotsLocked, OneCloser, DownTypes
    <3> QED
      BY <2>1, <2>3, <3>1, <3>2, <3>3 DEF SlotsLocked
  <2>5. OneCloser'
    BY <2>1 DEF OneCloser, Early
  <2>6. Drained'
    BY <2>1 DEF DownTypes, Drained, InFlight, Late
  <2> QED
    BY <2>2, <2>4, <2>5, <2>6
<1> QED
  BY <1>1, <1>2, <1>3, <1>4, <1>5, <1>6 DEF Lifespan

(* Queries, and the requests and the loop that refresh.                     *)
LEMMA DownQueriesKeep ==
  ASSUME DownInv, NEW r \in Repos, LookUpIndex(r) \/ EnterIndex(r) \/ QueryEnds(r)
  PROVE  DownInv'
<1> USE DEF DownInv
<1>1. /\ UNCHANGED <<server, todo, spent, cutShort, held, index, worker, round, build, closer>>
      /\ query' \in [Repos -> {"none", "found", "runs"}]
      /\ \A s \in Repos : s # r => query'[s] = query[s]
      /\ conn' \subseteq conn \cup {r}
  BY DEF LookUpIndex, EnterIndex, QueryEnds, serverVars, DownTypes
<1>2. DownTypes' /\ SlotsLocked' /\ OneCloser'
  BY <1>1 DEF DownTypes, SlotsLocked, OneCloser
<1>3. Drained'
  <2>1. CASE LookUpIndex(r)
    BY <1>1, <2>1 DEF LookUpIndex, Drained, Late, DownTypes, OneCloser, Early
  <2>2. CASE EnterIndex(r)
    BY <1>1, <2>2 DEF EnterIndex, Drained, Late, DownTypes, InFlight, OneCloser, Early
  <2>3. CASE QueryEnds(r)
    BY <1>1, <2>3 DEF QueryEnds, Drained, Late, DownTypes, InFlight
  <2> QED
    BY <2>1, <2>2, <2>3
<1> QED
  BY <1>2, <1>3

LEMMA RefreshersKeep ==
  ASSUME DownInv, NEW w \in RefreshThreads,
         \/ w # "loop" /\ ((\E r \in Repos : AskRefresh(w, r)) \/ LockForRefresh(w))
         \/ CloseQuerier(w) \/ RefreshEnds(w)
  PROVE  DownInv'
<1> USE DEF DownInv
<1>1. /\ UNCHANGED <<server, todo, spent, cutShort, index, query, round, build, closer>>
      /\ worker' \in [RefreshThreads -> WorkerStates]
      /\ \A v \in RefreshThreads : v # w => worker'[v] = worker[v]
      /\ conn' \subseteq conn
  BY DEF AskRefresh, LockForRefresh, CloseQuerier, RefreshEnds, serverVars, DownTypes, WorkerStates, Off
<1>2. CASE w # "loop" /\ \E r \in Repos : AskRefresh(w, r)
  <2>1. PICK r \in Repos : AskRefresh(w, r)
    BY <1>2
  <2>2. /\ server = "serving" /\ worker[w].at = "idle" /\ worker'[w] = [at |-> "lock", repo |-> r]
        /\ held' = held /\ conn' = conn
    BY <2>1 DEF AskRefresh, serverVars, DownTypes
  <2>3. DownTypes' /\ OneCloser'
    BY <1>1, <2>2 DEF DownTypes, OneCloser
  <2>4. SlotsLocked'
    BY <1>1, <2>2 DEF SlotsLocked, DownTypes
  <2>5. Drained'
    BY <1>1, <1>2, <2>2 DEF Drained, InFlight, RefreshThreads, Late
  <2> QED
    BY <2>3, <2>4, <2>5
<1>3. CASE w # "loop" /\ LockForRefresh(w)
  <2>1. PICK r \in Repos : r = worker[w].repo
    BY <1>3 DEF LockForRefresh, SlotsLocked
  <2>2. /\ worker[w].at = "lock" /\ held[r] = "free" /\ conn' = conn
        /\ held' = [held EXCEPT ![r] = w]
        /\ worker'[w].at = "close" /\ worker'[w].repo = r
    BY <1>3, <2>1 DEF LockForRefresh, DownTypes, WorkerStates
  <2>3. DownTypes' /\ OneCloser'
    BY <1>1, <2>2 DEF DownTypes, OneCloser
  <2>4. SlotsLocked'
    <3>1. worker'[w] \in [at : {"close", "work"}, repo : {r}]
      BY <1>1, <2>2 DEF WorkerStates
    <3>2. held'[r] = w /\ \A s \in Repos : s # r => held'[s] = held[s]
      BY <2>2 DEF DownTypes
    <3>3. "free" \notin RefreshThreads /\ "stop" \notin RefreshThreads
      BY RefreshersAssumption DEF RefreshThreads
    <3>4. \A v \in RefreshThreads :
            worker'[v].at \in {"close", "work"} => held'[worker'[v].repo] = v
      BY <1>1, <2>2, <3>2, <3>3 DEF SlotsLocked
    <3>5. \A s \in Repos : held'[s] \in RefreshThreads =>
                             worker'[held'[s]] \in [at : {"close", "work"}, repo : {s}]
      <4> SUFFICES ASSUME NEW s \in Repos, held'[s] \in RefreshThreads
                   PROVE  worker'[held'[s]] \in [at : {"close", "work"}, repo : {s}]
        OBVIOUS
      <4>1. CASE s = r
        BY <3>1, <3>2, <4>1
      <4>2. CASE s # r
        <5>1. worker[held[s]] \in [at : {"close", "work"}, repo : {s}] /\ held'[s] = held[s]
          BY <3>2, <4>2 DEF SlotsLocked
        <5> QED
          BY <1>1, <2>2, <5>1
      <4> QED
        BY <4>1, <4>2
    <3> QED
      BY <1>1, <2>1, <2>2, <3>2, <3>3, <3>4, <3>5 DEF SlotsLocked
  <2>5. Drained'
    BY <1>1, <1>3, <2>2 DEF Drained, InFlight, RefreshThreads, Late
  <2> QED
    BY <2>3, <2>4, <2>5
<1>4. CASE CloseQuerier(w)
  <2>1. /\ worker[w].at = "close" /\ worker'[w].at = "work" /\ worker'[w].repo = worker[w].repo
        /\ held' = held
    BY <1>4 DEF CloseQuerier, DownTypes, WorkerStates
  <2>2. DownTypes' /\ OneCloser'
    BY <1>1, <2>1 DEF DownTypes, OneCloser
  <2>3. SlotsLocked'
    <3>1. \A r \in Repos : worker[w] \in [at : {"close", "work"}, repo : {r}] =>
                             worker'[w] \in [at : {"close", "work"}, repo : {r}]
      BY <1>1, <2>1 DEF WorkerStates
    <3> QED
      BY <1>1, <2>1, <3>1 DEF SlotsLocked, DownTypes
  <2>4. Drained'
    BY <1>1, <2>1 DEF Drained, InFlight, RefreshThreads, Late
  <2> QED
    BY <2>2, <2>3, <2>4
<1>5. CASE RefreshEnds(w)
  <2>1. PICK r \in Repos : r = worker[w].repo
    BY <1>5 DEF RefreshEnds, SlotsLocked
  <2>2. /\ worker[w].at = "work" /\ held[r] = w /\ conn' = conn
        /\ held' = [held EXCEPT ![r] = "free"]
        /\ worker'[w].at = "idle"
    BY <1>5, <2>1 DEF RefreshEnds, DownTypes, SlotsLocked, Off
  <2>3. DownTypes' /\ OneCloser'
    BY <1>1, <2>2 DEF DownTypes, OneCloser
  <2>4. SlotsLocked'
    BY <1>1, <2>1, <2>2, RefreshersAssumption DEF SlotsLocked, DownTypes, RefreshThreads
  <2>5. Drained'
    BY <1>1, <2>2 DEF Drained, InFlight, RefreshThreads, Late
  <2> QED
    BY <2>3, <2>4, <2>5
<1> QED
  BY <1>2, <1>3, <1>4, <1>5

LEMMA LoopKeeps ==
  ASSUME DownInv, LoopWakes \/ LoopEnds \/ \E r \in Repos : LoopLocks(r) \/ LoopPasses(r)
  PROVE  DownInv'
<1> USE DEF DownInv
<1>1. CASE LoopWakes \/ \E r \in Repos : LoopPasses(r)
  BY <1>1 DEF LoopWakes, LoopPasses, serverVars, DownTypes, SlotsLocked, OneCloser, Drained, InFlight
<1>2. CASE LoopEnds
  <2>1. /\ worker' \in [RefreshThreads -> WorkerStates] /\ worker["loop"].at = "idle"
        /\ worker'["loop"].at = "ended" /\ \A v \in RefreshThreads : v # "loop" => worker'[v] = worker[v]
        /\ UNCHANGED <<server, todo, spent, cutShort, held, index, conn, query, round, build, closer>>
    BY <1>2 DEF LoopEnds, serverVars, DownTypes, WorkerStates, RefreshThreads
  <2>2. DownTypes' /\ OneCloser' /\ SlotsLocked'
    BY <2>1 DEF DownTypes, OneCloser, SlotsLocked
  <2>3. Drained'
    BY <2>1, RefreshersAssumption DEF Drained, InFlight, RefreshThreads, Late
  <2> QED
    BY <2>2, <2>3
<1>3. ASSUME NEW r \in Repos, LoopLocks(r) PROVE DownInv'
  <2>1. /\ worker' \in [RefreshThreads -> WorkerStates] /\ worker["loop"].at = "idle"
        /\ worker'["loop"] = [at |-> "close", repo |-> r]
        /\ \A v \in RefreshThreads : v # "loop" => worker'[v] = worker[v]
        /\ held[r] = "free" /\ held' = [held EXCEPT ![r] = "loop"] /\ round' \subseteq round
        /\ UNCHANGED <<server, todo, spent, cutShort, index, conn, query, build, closer>>
    BY <1>3 DEF LoopLocks, serverVars, DownTypes, WorkerStates, RefreshThreads
  <2>2. DownTypes' /\ OneCloser'
    BY <2>1 DEF DownTypes, OneCloser, RefreshThreads
  <2>3. SlotsLocked'
    <3>1. held'[r] = "loop" /\ \A s \in Repos : s # r => held'[s] = held[s]
      BY <2>1 DEF DownTypes, RefreshThreads
    <3>2. "free" \notin RefreshThreads /\ "stop" \notin RefreshThreads /\ "loop" \in RefreshThreads
      BY RefreshersAssumption DEF RefreshThreads
    <3>3. \A v \in RefreshThreads :
            /\ worker'[v].at \in {"lock", "close", "work"} => worker'[v].repo \in Repos
            /\ worker'[v].at \in {"close", "work"} => held'[worker'[v].repo] = v
      BY <2>1, <3>1, <3>2 DEF SlotsLocked
    <3>4. \A s \in Repos : held'[s] \in RefreshThreads =>
                             worker'[held'[s]] \in [at : {"close", "work"}, repo : {s}]
      <4> SUFFICES ASSUME NEW s \in Repos, held'[s] \in RefreshThreads
                   PROVE  worker'[held'[s]] \in [at : {"close", "work"}, repo : {s}]
        OBVIOUS
      <4>1. CASE s = r
        BY <2>1, <3>1, <4>1
      <4>2. CASE s # r
        <5>1. worker[held[s]] \in [at : {"close", "work"}, repo : {s}] /\ held'[s] = held[s]
          BY <3>1, <4>2 DEF SlotsLocked
        <5> QED
          BY <2>1, <5>1
      <4> QED
        BY <4>1, <4>2
    <3> QED
      BY <2>1, <3>1, <3>2, <3>3, <3>4 DEF SlotsLocked
  <2>4. Drained'
    BY <2>1, RefreshersAssumption DEF Drained, InFlight, RefreshThreads, Late
  <2> QED
    BY <2>2, <2>3, <2>4
<1> QED
  BY <1>1, <1>2, <1>3

(* Indexing, and the threads that close.                                    *)
LEMMA SlotsKeep ==
  ASSUME DownInv, NEW r \in Repos, BuildEnds(r) \/ Publish(r) \/ Closer(r)
  PROVE  DownInv'
<1> USE DEF DownInv
<1>1. CASE BuildEnds(r) \/ Publish(r)
  <2>1. /\ build' \in [Repos -> {"build", "publish", "done"}] /\ build[r] # "done"
        /\ \A s \in Repos : s # r => build'[s] = build[s]
        /\ index' \subseteq index \cup {r} /\ index \subseteq index' /\ conn' \subseteq conn \cup {r}
        /\ r \in conn' => r \in conn \/ r \in index'
        /\ UNCHANGED <<server, todo, spent, cutShort, held, query, worker, round, closer>>
    BY <1>1 DEF BuildEnds, Publish, serverVars, DownTypes
  <2>2. DownTypes' /\ SlotsLocked' /\ OneCloser'
    BY <2>1 DEF DownTypes, SlotsLocked, OneCloser
  <2>3. ~cutShort => server \notin Late
    BY <2>1 DEF Drained
  <2>4. ~cutShort => \A s \in Repos : closer[s] = "none"
    BY <2>3 DEF OneCloser, DownTypes
  <2>5. Drained'
    BY <2>1, <2>3, <2>4 DEF Drained, InFlight
  <2> QED
    BY <2>2, <2>5
<1>2. CASE Closer(r)
  <2>1. /\ closer' \in [Repos -> {"none", "runs", "drops", "done"}]
        /\ closer[r] \in {"runs", "drops"} /\ closer'[r] # "none"
        /\ closer'[r] \in {"runs", "drops"} => closer[r] \in {"runs", "drops"}
        /\ \A s \in Repos : s # r => closer'[s] = closer[s]
        /\ index \ {r} \subseteq index' /\ index' \subseteq index /\ conn' \subseteq conn
        /\ UNCHANGED <<server, todo, spent, cutShort, held, query, worker, round, build>>
    BY <1>2 DEF Closer, CloseConnection, DropClosed, serverVars, threads, DownTypes
  <2>2. /\ closer'[r] \in {"drops", "done"}
        /\ closer'[r] = "drops" => r \notin conn' /\ index' = index
        /\ closer'[r] = "done" => r \notin index' /\ (closer[r] = "drops" \/ index' = index)
    BY <1>2 DEF Closer, CloseConnection, DropClosed, DownTypes
  <2>3. server \in Late
    BY <2>1 DEF DownTypes, OneCloser
  <2>4. DownTypes'
    BY <2>1 DEF DownTypes
  <2>5. SlotsLocked'
    BY <2>1 DEF SlotsLocked
  <2>6. OneCloser'
    <3>1. \A s \in Repos : closer'[s] # "none" => closer[s] # "none"
      BY <2>1
    <3> QED
      BY <2>1, <2>3, <3>1 DEF DownTypes, OneCloser, Early, Late
  <2>7. Drained'
    <3> SUFFICES ASSUME ~cutShort PROVE Drained'
      BY <2>1, <2>3 DEF Drained, Late
    <3>1. r \in todo /\ conn \subseteq index
      BY <2>1, <2>3 DEF Drained
    <3>2. conn' \subseteq index'
      <4>1. CASE index' = index
        BY <2>1, <3>1, <4>1
      <4>2. CASE closer[r] = "drops"
        BY <2>1, <3>1, <4>2 DEF Drained
      <4> QED
        BY <2>1, <2>2, <4>1, <4>2
    <3>3. ASSUME NEW s \in Repos
          PROVE  /\ query'[s] # "none" => s \in index'
                 /\ closer'[s] = "drops" => s \notin conn'
                 /\ closer'[s] = "done" => s \notin index'
      <4>1. query'[s] = "none"
        BY <2>1, <2>3 DEF Drained, InFlight, Late
      <4> QED
        BY <2>1, <2>2, <4>1 DEF Drained
    <3> QED
      BY <2>1, <2>3, <3>1, <3>2, <3>3 DEF Drained, InFlight, Late
  <2> QED
    BY <2>4, <2>5, <2>6, <2>7
<1> QED
  BY <1>1, <1>2

LEMMA DownStep ==
  ASSUME DownInv, [DownNext]_downVars
  PROVE  DownInv'
<1>1. CASE UNCHANGED downVars
  BY <1>1 DEF downVars, DownInv, DownTypes, SlotsLocked, OneCloser, Drained, InFlight
<1>2. CASE Signal \/ StopServing \/ Lifespan
  BY <1>2, LifespanKeeps
<1>3. CASE LoopWakes \/ Loop
  BY <1>3, LoopKeeps, RefreshersKeep DEF Loop, RefreshThreads
<1>4. ASSUME NEW r \in Repos,
             \/ LookUpIndex(r) \/ EnterIndex(r) \/ QueryEnds(r)
             \/ BuildEnds(r) \/ Publish(r) \/ Closer(r)
      PROVE  DownInv'
  BY <1>4, DownQueriesKeep, SlotsKeep
<1>5. ASSUME NEW x \in Refreshers,
             LockForRefresh(x) \/ CloseQuerier(x) \/ \E r \in Repos : AskRefresh(x, r)
      PROVE  DownInv'
  BY <1>5, RefreshersKeep, RefreshersAssumption DEF RefreshThreads
<1>6. ASSUME NEW w \in RefreshThreads, RefreshEnds(w) PROVE DownInv'
  BY <1>6, RefreshersKeep
<1> QED
  BY <1>1, <1>2, <1>3, <1>4, <1>5, <1>6 DEF DownNext

(* The end of the daemon, for any repositories and any number of requests   *)
(* to refresh: who holds the lock of a slot, which slot is being closed,    *)
(* and what each stage of the end has waited for.                           *)
THEOREM DownKeeps == DownSpec => []DownInv
<1>1. DownInv /\ [DownNext]_downVars => DownInv'
  BY DownStep
<1> QED
  BY <1>1, DownBegins, PTL DEF DownSpec

(* No Index is closed underneath a refresh, a hanging one included, unless  *)
(* the budget of close_all is spent (repo_manager.py, close_all).           *)
THEOREM ClosedAfterRefresh == DownSpec => ClosedUnrefreshed
<1> DEFINE Waits == \A r \in Repos : (closer[r] = "runs" /\ closer'[r] = "drops" /\ Refreshing(r)) => spent
<1>1. DownInv => [Waits]_downVars
  <2> SUFFICES ASSUME DownInv, NEW r \in Repos, closer[r] = "runs", Refreshing(r) PROVE spent
    OBVIOUS
  <2>1. held[r] \in RefreshThreads
    BY DEF Refreshing, DownInv, SlotsLocked
  <2> QED
    BY <2>1, RefreshersAssumption DEF DownInv, SlotsLocked, RefreshThreads
<1> QED
  BY <1>1, DownKeeps, PTL DEF DownSpec, ClosedUnrefreshed

(* When the end of the daemon has cut nothing short, nothing runs, no slot  *)
(* is locked and no Index is open after it (daemon.py, lifespan).           *)
THEOREM NothingIsLeft == DownSpec => []EndsClosed
<1>1. DownInv => EndsClosed
  <2> SUFFICES ASSUME DownInv, server = "ended", ~cutShort
               PROVE  /\ index = {} /\ conn = {} /\ worker["loop"].at = "ended"
                      /\ \A r \in Repos : held[r] = "free" /\ build[r] = "done" /\ closer[r] = "done"
    BY DEF EndsClosed
  <2>1. \A r \in Repos : closer[r] = "done" /\ r \notin index /\ build[r] = "done"
    BY DEF DownInv, OneCloser, Drained, Late
  <2>2. index = {} /\ conn = {}
    BY <2>1 DEF DownInv, DownTypes, Drained
  <2>3. \A w \in RefreshThreads : worker[w].at \in {"idle", "ended"}
    BY DEF DownInv, Drained, InFlight, RefreshThreads
  <2>4. ASSUME NEW r \in Repos PROVE held[r] = "free"
    BY <2>3 DEF DownInv, DownTypes, SlotsLocked
  <2> QED
    BY <2>1, <2>2, <2>3, <2>4 DEF DownInv, Drained
<1> QED
  BY <1>1, DownKeeps, PTL
=============================================================================

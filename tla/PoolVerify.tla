----------------------------- MODULE PoolVerify -----------------------------
(***************************************************************************)
(* How the pool verifies shares with RandomX: the queue of                 *)
(* pool/lib/jobManager.js in front of the addon, libuv's threads, and the  *)
(* contexts and VMs of pool/native/src/randomx_binding.cc.                 *)
(*                                                                         *)
(* JavaScript runs one callback at a time and the continuations it made    *)
(* ready before the next: `ready` is the queue of those.  A thread of the  *)
(* addon runs beside it; one action of a thread is what it does under one  *)
(* lock.                                                                   *)
(***************************************************************************)
EXTENDS Naturals, Sequences, FiniteSets, FiniteSetsExt, Functions

CONSTANTS
  Shares,        \* submissions that reached the hash
  Seeds,         \* seeds of the live jobs, in the order of their bytes
  Configured,    \* what randomxVmCount may be
  MostVms,       \* the most the addon accepts, 128 in the code
  DefaultVms,    \* what it takes instead of more, 4 in the code
  MaxSeeds,      \* g_max_seeds
  MaxVerifying,  \* _maxVerifying
  Threads        \* libuv's thread pool

ASSUME ConstantsAssumption ==
  /\ IsFiniteSet(Shares)
  /\ Seeds \subseteq Nat /\ Seeds # {}
  /\ Configured \subseteq Nat \ {0}
  /\ MostVms \in Nat \ {0} /\ DefaultVms \in 1..MostVms
  /\ MaxSeeds \in Nat \ {0} /\ MaxVerifying \in Nat /\ Threads \in Nat \ {0}

VARIABLES
  vmSlots,     \* _vmSlots
  vmCount,     \* g_vm_count
  inAddon,     \* _inAddon
  verifying,   \* _verifying
  waiting,     \* _waiting
  ready,       \* continuations that run before the next callback
  pc,          \* where each share is
  seed,        \* the seed of its job
  libq,        \* workers that wait for a thread
  registry,    \* g_contexts: each seed's context, named after the share that made it
  ctx,         \* the context a thread holds
  busy,        \* the busy VMs of each context
  vm           \* the VM a thread holds

loop   == <<inAddon, verifying, waiting, ready>>
addon  == <<libq, registry, ctx, busy, vm>>
config == <<vmSlots, vmCount>>
vars   == <<config, loop, pc, seed, addon>>

Running == {"context", "acquire", "asleep", "woken", "hash", "notify"}
Inside  == Running \cup {"queued", "back", "failed", "leave"}
Flying  == Inside \cup {"waiting", "enter", "settle"}

\* JobManager and configure() read the same setting, each in its way.
Init ==
  /\ vmSlots \in Configured
  /\ vmCount = IF vmSlots <= MostVms THEN vmSlots ELSE DefaultVms
  /\ inAddon = 0 /\ verifying = 0 /\ waiting = <<>> /\ ready = <<>>
  /\ pc = [s \in Shares |-> "new"]
  /\ seed \in [Shares -> Seeds]
  /\ libq = <<>> /\ registry = <<>>
  /\ ctx = [s \in Shares |-> s]
  /\ busy = [s \in Shares |-> {}]
  /\ vm = [s \in Shares |-> 0]

Goto(s, step) == pc' = [pc EXCEPT ![s] = step]

-----------------------------------------------------------------------------
(* JavaScript.                                                              *)

\* randomx.hash: a worker for the thread pool.
Enter(s) ==
  /\ inAddon' = inAddon + 1
  /\ libq' = Append(libq, s)

\* The queue is full: BUSY.
Refuse(s) ==
  /\ ready = <<>> /\ pc[s] = "new"
  /\ verifying >= MaxVerifying
  /\ Goto(s, "refused")
  /\ UNCHANGED <<config, loop, seed, addon>>

\* Mutant: only the queue is bounded, not the workers inside the addon.
Submit_Overfills(s) ==
  /\ ready = <<>> /\ pc[s] = "new"
  /\ verifying < MaxVerifying
  /\ verifying' = verifying + 1
  /\ Enter(s) /\ Goto(s, "queued") /\ UNCHANGED waiting
  /\ UNCHANGED <<config, ready, seed, registry, ctx, busy, vm>>

\* processShare up to its await, _hashWithOneVm included.
Submit(s) ==
  /\ ready = <<>> /\ pc[s] = "new"
  /\ verifying < MaxVerifying
  /\ verifying' = verifying + 1
  /\ \/ /\ inAddon >= vmSlots
        /\ waiting' = Append(waiting, s)
        /\ Goto(s, "waiting")
        /\ UNCHANGED <<inAddon, libq>>
     \/ /\ inAddon < vmSlots
        /\ Enter(s) /\ Goto(s, "queued") /\ UNCHANGED waiting
  /\ UNCHANGED <<config, ready, seed, registry, ctx, busy, vm>>

\* The addon calls back, with a hash or an error.
CallBack(s) ==
  /\ ready = <<>> /\ pc[s] \in {"back", "failed"}
  /\ Goto(s, "leave")
  /\ ready' = <<s>>
  /\ UNCHANGED <<config, inAddon, verifying, waiting, seed, addon>>

\* Mutant: no `finally`, so that an error keeps its place and wakes nobody.
Leave_OnlyIfHashed(s) ==
  /\ ready # <<>> /\ Head(ready) = s /\ pc[s] = "leave"
  /\ pc' = [pc EXCEPT ![s] = "settle"]
  /\ ready' = Append(Tail(ready), s)
  /\ inAddon' = IF vm[s] = 0 THEN inAddon ELSE inAddon - 1
  /\ UNCHANGED <<config, waiting, verifying, seed, addon>>

\* The `finally` of _hashWithOneVm: the place is given up and the first waiter
\* is woken; processShare goes on after it.
Leave(s) ==
  /\ ready # <<>> /\ Head(ready) = s /\ pc[s] = "leave"
  /\ inAddon' = inAddon - 1
  /\ IF waiting = <<>>
       THEN /\ ready' = Append(Tail(ready), s)
            /\ pc' = [pc EXCEPT ![s] = "settle"]
            /\ UNCHANGED waiting
       ELSE /\ ready' = Tail(ready) \o <<Head(waiting), s>>
            /\ pc' = [pc EXCEPT ![s] = "settle", ![Head(waiting)] = "enter"]
            /\ waiting' = Tail(waiting)
  /\ UNCHANGED <<config, verifying, seed, addon>>

\* The woken waiter goes in without looking again.
Resume(s) ==
  /\ ready # <<>> /\ Head(ready) = s /\ pc[s] = "enter"
  /\ ready' = Tail(ready)
  /\ Enter(s) /\ Goto(s, "queued")
  /\ UNCHANGED <<config, verifying, waiting, seed, registry, ctx, busy, vm>>

\* processShare's own `finally`.
Settle(s) ==
  /\ ready # <<>> /\ Head(ready) = s /\ pc[s] = "settle"
  /\ ready' = Tail(ready)
  /\ verifying' = verifying - 1
  /\ Goto(s, "done")
  /\ UNCHANGED <<config, inAddon, waiting, seed, addon>>

-----------------------------------------------------------------------------
(* The addon.                                                               *)

\* A thread takes the oldest worker.
Dispatch ==
  /\ libq # <<>>
  /\ Cardinality({s \in Shares : pc[s] \in Running}) < Threads
  /\ Goto(Head(libq), "context")
  /\ libq' = Tail(libq)
  /\ UNCHANGED <<config, loop, seed, registry, ctx, busy, vm>>

\* Mutant: one seed too many is kept.
Evicted_Late == IF Cardinality(DOMAIN registry) <= MaxSeeds THEN registry
                ELSE Restrict(registry, DOMAIN registry \ {Min(DOMAIN registry)})

\* A full registry loses its first seed in byte order, whichever that is.
Evicted == IF Cardinality(DOMAIN registry) < MaxSeeds THEN registry
           ELSE Restrict(registry, DOMAIN registry \ {Min(DOMAIN registry)})

\* GetContext, under the registry's lock; building a context may throw.
GetContext(s) ==
  /\ pc[s] = "context"
  /\ \/ /\ seed[s] \in DOMAIN registry
        /\ ctx' = [ctx EXCEPT ![s] = registry[seed[s]]]
        /\ Goto(s, "acquire")
        /\ UNCHANGED registry
     \/ /\ seed[s] \notin DOMAIN registry
        /\ registry' = [k \in DOMAIN Evicted \cup {seed[s]} |->
                          IF k = seed[s] THEN s ELSE Evicted[k]]
        /\ ctx' = [ctx EXCEPT ![s] = s]
        /\ Goto(s, "acquire")
     \/ /\ seed[s] \notin DOMAIN registry
        /\ registry' = Evicted
        /\ Goto(s, "failed")
        /\ UNCHANGED ctx
  /\ UNCHANGED <<config, loop, seed, libq, busy, vm>>

Free(c) == (1..vmCount) \ busy[c]

\* Mutant: a woken thread takes a VM without looking whether one is free.
Acquire_NoRecheck(s) ==
  /\ \/ pc[s] \in {"acquire", "woken"} /\ Free(ctx[s]) # {} /\ vm' = [vm EXCEPT ![s] = Min(Free(ctx[s]))]
     \/ pc[s] = "woken" /\ Free(ctx[s]) = {} /\ vm' = [vm EXCEPT ![s] = 1]
  /\ busy' = [busy EXCEPT ![ctx[s]] = @ \cup {vm'[s]}]
  /\ Goto(s, "hash")
  /\ UNCHANGED <<config, loop, seed, libq, registry, ctx>>

\* acquire(): the first free VM.
Acquire(s) ==
  /\ pc[s] \in {"acquire", "woken"}
  /\ Free(ctx[s]) # {}
  /\ vm' = [vm EXCEPT ![s] = Min(Free(ctx[s]))]
  /\ busy' = [busy EXCEPT ![ctx[s]] = @ \cup {Min(Free(ctx[s]))}]
  /\ Goto(s, "hash")
  /\ UNCHANGED <<config, loop, seed, libq, registry, ctx>>

\* ... or a wait on the context's condition variable.
Sleep(s) ==
  /\ pc[s] \in {"acquire", "woken"}
  /\ Free(ctx[s]) = {}
  /\ Goto(s, "asleep")
  /\ UNCHANGED <<config, loop, seed, addon>>

\* release(), first half: the VM is free.
Release(s) ==
  /\ pc[s] = "hash"
  /\ busy' = [busy EXCEPT ![ctx[s]] = @ \ {vm[s]}]
  /\ Goto(s, "notify")
  /\ UNCHANGED <<config, loop, seed, libq, registry, ctx, vm>>

Asleep(c) == {s \in Shares : pc[s] = "asleep" /\ ctx[s] = c}

\* Mutant: a VM is given back and nobody is told.
Notify_Nobody(s) ==
  /\ pc[s] = "notify"
  /\ Goto(s, "back")
  /\ UNCHANGED <<config, loop, seed, addon>>

\* Second half, after the lock: notify_one.
Notify(s) ==
  /\ pc[s] = "notify"
  /\ \/ Asleep(ctx[s]) = {} /\ Goto(s, "back")
     \/ \E t \in Asleep(ctx[s]) : pc' = [pc EXCEPT ![s] = "back", ![t] = "woken"]
  /\ UNCHANGED <<config, loop, seed, addon>>

-----------------------------------------------------------------------------

Script(s) == CallBack(s) \/ Leave(s) \/ Resume(s) \/ Settle(s)

Thread(s) == GetContext(s) \/ Acquire(s) \/ Sleep(s) \/ Release(s) \/ Notify(s)

Next == \/ \E s \in Shares : Refuse(s) \/ Submit(s) \/ Script(s) \/ Thread(s)
        \/ Dispatch

Spec == Init /\ [][Next]_vars

\* The event loop and the threads of the addon are scheduled.
FairSpec == /\ Spec /\ WF_vars(Dispatch)
            /\ \A s \in Shares : WF_vars(Script(s)) /\ WF_vars(Thread(s))

-----------------------------------------------------------------------------
(* Properties.                                                              *)

In(steps) == {s \in Shares : pc[s] \in steps}

\* Two threads never compute on the same VM.
VmIsExclusive ==
  \A s, t \in In({"hash"}) : s # t => <<ctx[s], vm[s]>> # <<ctx[t], vm[t]>>

\* The two counts are exact at every step, whatever failed, and a share waits in
\* JavaScript only while every place in the addon is taken or just being taken.
\* "No worker ever waits on a VM" (jobManager.js 77-80), as long as the addon
\* takes the setting as it is: no thread of the process is ever held by one.
\* And the registry keeps to its size.
PlacesAreUsed ==
  /\ inAddon = Cardinality(In(Inside)) /\ verifying = Cardinality(In(Flying))
  /\ waiting # <<>> => inAddon + Cardinality(In({"enter"})) = vmSlots
  /\ vmSlots = vmCount => In({"asleep"}) = {}
  /\ Cardinality(DOMAIN registry) <= MaxSeeds

\* Every share that was let in gets its verdict.
EveryShareIsVerified == \A s \in Shares : pc[s] \in Flying ~> pc[s] = "done"

=============================================================================

------------------------------ MODULE WeakRef ------------------------------
(***************************************************************************)
(* Strong and weak references to one object of libobs: struct obs_weak_ref *)
(* of src/core/obs-internal.h with the calls of obs-output.c (encoders,    *)
(* services and sources have the same ones) and the lists of obs.c.        *)
(*                                                                         *)
(* The counts start at 0 for one owner, so that -1 means nobody.  The      *)
(* control block outlives the object: all strong references together hold  *)
(* one weak reference.  obs_output_get_ref and get_context_by_name turn a  *)
(* weak reference, or a place in the list, into a strong one with a        *)
(* compare-and-swap loop, while other threads release theirs.  Every step  *)
(* is one atomic access, or the critical section of the list's mutex.      *)
(***************************************************************************)
EXTENDS Integers, FiniteSets

CONSTANTS Holders,    (* each holds at most one strong and one weak reference *)
          NoThread,   (* nobody holds the list's mutex                        *)
          Creator     (* the thread that created the object                   *)

ASSUME HoldersAssumption ==
  IsFiniteSet(Holders) /\ NoThread \notin Holders /\ Creator \in Holders

VARIABLES
  refs, weak_refs,        (* struct obs_weak_ref                              *)
  strong, weak,           (* the threads that hold a reference                *)
  listed, mutex,          (* the object is in its list; holder of the mutex   *)
  object, control,        (* "alive" or "freed"                               *)
  pc, owners              (* per thread: place, and owners of get_ref         *)

countVars == <<refs, weak_refs>>
heldVars  == <<strong, weak>>
listVars  == <<listed, mutex>>
memVars   == <<object, control>>
refVars == <<countVars, heldVars, listVars, memVars, pc, owners>>

(* obs_output_create *)
RefsInit ==
  /\ refs = 0 /\ weak_refs = 0
  /\ strong = {Creator} /\ weak = {}
  /\ listed = TRUE /\ mutex = NoThread
  /\ object = "alive" /\ control = "alive"
  /\ pc = [t \in Holders |-> "idle"]
  /\ owners = [t \in Holders |-> -1]

Idle(t) == pc[t] = "idle"
Go(t, l) == pc' = [pc EXCEPT ![t] = l]

----------------------------------------------------------------------------
(* Strong references. *)

(* obs_output_addref: t hands u a reference of its own.                    *)
AddRef(t, u) ==
  /\ Idle(t) /\ t \in strong /\ Idle(u) /\ u \notin strong
  /\ refs' = refs + 1 /\ strong' = strong \union {u}
  /\ UNCHANGED <<weak_refs, weak, listVars, memVars, pc, owners>>

(* Mutant: the last owner is expected to see 0.                            *)
ReleaseAtZero(t) ==
  /\ Idle(t) /\ t \in strong
  /\ refs' = refs - 1 /\ strong' = strong \ {t}
  /\ Go(t, IF refs' = 0 THEN "unlist" ELSE "idle")
  /\ UNCHANGED <<weak_refs, weak, listVars, memVars, owners>>

(* Mutant: the weak reference goes before the object.                      *)
ReleaseWeakFirst(t) ==
  /\ Idle(t) /\ t \in strong
  /\ refs' = refs - 1 /\ strong' = strong \ {t}
  /\ weak_refs' = IF refs' = -1 THEN weak_refs - 1 ELSE weak_refs
  /\ control' = IF weak_refs' = -1 THEN "freed" ELSE control
  /\ Go(t, IF refs' = -1 THEN "unlist" ELSE "idle")
  /\ UNCHANGED <<weak, listVars, object, owners>>

(* obs_output_release: the last owner destroys the object ...              *)
Release(t) ==
  /\ Idle(t) /\ t \in strong
  /\ refs' = refs - 1 /\ strong' = strong \ {t}
  /\ Go(t, IF refs' = -1 THEN "unlist" ELSE "idle")
  /\ UNCHANGED <<weak_refs, weak, listVars, memVars, owners>>

(* Mutant: the object stays in its list.                                   *)
UnlistForgotten(t) ==
  /\ pc[t] = "unlist" /\ Go(t, "free")
  /\ UNCHANGED <<countVars, heldVars, listVars, memVars, owners>>

(* ... first of all obs_context_data_remove, ...                           *)
Unlist(t) ==
  /\ pc[t] = "unlist" /\ mutex = NoThread
  /\ listed' = FALSE
  /\ Go(t, "free")
  /\ UNCHANGED <<countVars, heldVars, mutex, memVars, owners>>

(* ... and last of all bfree(output), ...                                  *)
FreeObject(t) ==
  /\ pc[t] = "free"
  /\ object' = "freed"
  /\ Go(t, "drop")
  /\ UNCHANGED <<countVars, heldVars, listVars, control, owners>>

DropWeak(t) ==
  /\ weak_refs' = weak_refs - 1
  /\ Go(t, IF weak_refs' = -1 THEN "free_control" ELSE "idle")

(* ... and then releases the weak reference all owners shared.             *)
DropControl(t) ==
  /\ pc[t] = "drop" /\ DropWeak(t)
  /\ UNCHANGED <<refs, heldVars, listVars, memVars, owners>>

----------------------------------------------------------------------------
(* Weak references. *)

(* obs_output_get_weak_output *)
GetWeak(t) ==
  /\ Idle(t) /\ t \in strong \ weak
  /\ weak_refs' = weak_refs + 1 /\ weak' = weak \union {t}
  /\ UNCHANGED <<refs, strong, listVars, memVars, pc, owners>>

(* obs_weak_output_addref: t hands u a weak reference of its own.          *)
WeakAddRef(t, u) ==
  /\ Idle(t) /\ t \in weak /\ Idle(u) /\ u \notin weak
  /\ weak_refs' = weak_refs + 1 /\ weak' = weak \union {u}
  /\ UNCHANGED <<refs, strong, listVars, memVars, pc, owners>>

(* obs_weak_output_release *)
WeakRelease(t) ==
  /\ Idle(t) /\ t \in weak
  /\ weak' = weak \ {t} /\ DropWeak(t)
  /\ UNCHANGED <<refs, strong, listVars, memVars, owners>>

(* bfree(weak) *)
FreeControl(t) ==
  /\ pc[t] = "free_control"
  /\ control' = "freed"
  /\ Go(t, "idle")
  /\ UNCHANGED <<countVars, heldVars, listVars, object, owners>>

----------------------------------------------------------------------------
(* From a weak reference, or a place in the list, to a strong reference.   *)

(* obs_weak_output_get_output *)
Upgrade(t) ==
  /\ Idle(t) /\ t \in weak \ strong
  /\ Go(t, "load")
  /\ UNCHANGED <<countVars, heldVars, listVars, memVars, owners>>

(* get_context_by_name finds the object and asks for a reference to it.    *)
Lookup(t) ==
  /\ Idle(t) /\ t \notin strong /\ mutex = NoThread /\ listed
  /\ mutex' = t
  /\ Go(t, "load")
  /\ UNCHANGED <<countVars, heldVars, listed, memVars, owners>>

Leave(t) == Go(t, "idle") /\ mutex' = IF mutex = t THEN NoThread ELSE mutex

(* obs_weak_ref_get_ref: read the owners, give up when there are none, ... *)
Load(t) ==
  /\ pc[t] = "load"
  /\ owners' = [owners EXCEPT ![t] = refs]
  /\ IF refs > -1 THEN Go(t, "cas") /\ UNCHANGED mutex ELSE Leave(t)
  /\ UNCHANGED <<countVars, heldVars, listed, memVars>>

(* Mutant: an increment instead of the compare-and-swap.                   *)
SwapUnchecked(t) ==
  /\ pc[t] = "cas"
  /\ refs' = refs + 1 /\ strong' = strong \union {t} /\ Leave(t)
  /\ UNCHANGED <<weak_refs, weak, listed, memVars, owners>>

(* ... and add one unless they have changed meanwhile.                     *)
Swap(t) ==
  /\ pc[t] = "cas"
  /\ IF refs = owners[t]
     THEN refs' = refs + 1 /\ strong' = strong \union {t} /\ Leave(t)
     ELSE Go(t, "load") /\ UNCHANGED <<refs, strong, mutex>>
  /\ UNCHANGED <<weak_refs, weak, listed, memVars, owners>>

----------------------------------------------------------------------------
(* The steps of a call that has begun. *)
Step(t) ==
  \/ Unlist(t) \/ FreeObject(t) \/ DropControl(t) \/ FreeControl(t) \/ Load(t) \/ Swap(t)

Begins(t) ==
  \/ Release(t) \/ GetWeak(t) \/ WeakRelease(t) \/ Upgrade(t) \/ Lookup(t)
  \/ \E u \in Holders : AddRef(t, u) \/ WeakAddRef(t, u)

RefsNext == \E t \in Holders : Step(t) \/ Begins(t)

RefsSpec == RefsInit /\ [][RefsNext]_refVars

(* A call that has begun is carried on with, and the list's mutex is given *)
(* to a thread that asks for it again and again.                           *)
Fairness == \A t \in Holders : SF_refVars(Unlist(t)) /\ WF_refVars(Step(t))

FairRefsSpec == RefsSpec /\ Fairness

----------------------------------------------------------------------------
(* Properties. *)

Destroying == {"unlist", "free", "drop"}
Labels == {"idle", "load", "cas", "free_control"} \union Destroying

Destroyers == {t \in Holders : pc[t] \in Destroying}

(* The weak reference that all owners share, until the last has dropped it. *)
Shared == IF refs = -1 /\ Destroyers = {} THEN 0 ELSE 1

RefsTypeOK ==
  /\ refs \in Int /\ weak_refs \in Int
  /\ strong \in SUBSET Holders /\ weak \in SUBSET Holders
  /\ listed \in BOOLEAN /\ mutex \in Holders \union {NoThread}
  /\ object \in {"alive", "freed"} /\ control \in {"alive", "freed"}
  /\ pc \in [Holders -> Labels] /\ owners \in [Holders -> Int]

(* The counts count: one too many for each, as both start at 0.            *)
Counts ==
  /\ refs + 1 = Cardinality(strong)
  /\ weak_refs + 1 = Cardinality(weak) + Shared

(* The stages of the destruction: one thread goes through them, after the  *)
(* last owner is gone.                                                     *)
Stages ==
  /\ \A t, u \in Destroyers : t = u
  /\ Destroyers # {} => refs = -1
  /\ listed <=> refs # -1 \/ \E t \in Holders : pc[t] = "unlist"
  /\ object = "alive" <=> refs # -1 \/ \E t \in Holders : pc[t] \in {"unlist", "free"}

(* The control block is freed by one thread, when no count is left in it.  *)
LastOut ==
  /\ control = "freed" => weak_refs = -1 /\ \A t \in Holders : pc[t] # "free_control"
  /\ \A t \in Holders : pc[t] = "free_control" =>
       weak_refs = -1 /\ \A u \in Holders : pc[u] = "free_control" => u = t

(* A thread inside get_ref has no reference yet, and what keeps the        *)
(* control block is its weak reference or its hold on the list.            *)
InGetRef ==
  /\ \A t \in Holders : pc[t] \in {"load", "cas"} => t \notin strong /\ (t \in weak \/ mutex = t)
  /\ \A t \in Holders : pc[t] = "cas" => owners[t] > -1
  /\ \A t \in Holders : mutex = t => pc[t] \in {"load", "cas"} /\ listed

(* The counts of obs_weak_ref are the numbers of their holders, and one    *)
(* thread destroys the object and one its control block.                   *)
RefsInv == RefsTypeOK /\ Counts /\ Stages /\ LastOut /\ InGetRef

(* Whoever holds a reference, or finds the object in its list, can use it: *)
(* it is not freed, and its destruction has not begun while it is owned.   *)
NoUseAfterFree ==
  /\ strong # {} \/ listed => object = "alive"
  /\ strong # {} => \A t \in Holders : pc[t] \notin Destroying

(* The control block is there for all who count in it: the owners, the     *)
(* holders of weak references, lookups under way and the destroying thread *)
(* (the order obs_output_release insists on).                              *)
ControlAlive ==
  /\ strong \union weak # {} \/ listed => control = "alive"
  /\ \A t \in Holders : pc[t] \in {"load", "cas"} \union Destroying => control = "alive"

(* Nobody touches freed memory, in whatever order references are taken,    *)
(* looked up and dropped.                                                  *)
MemorySafe == NoUseAfterFree /\ ControlAlive

(* Once the last owner is gone no call brings the object back.             *)
NoResurrection == [][refs = -1 => refs' = -1 /\ strong' = {}]_refVars

(* An object nobody owns is freed, and so is its control block when nobody *)
(* holds a weak reference.                                                 *)
Reclaimed ==
  /\ strong = {} ~> object = "freed"
  /\ (strong \union weak = {}) ~> control = "freed"
=============================================================================

------------------------------ MODULE Signals -------------------------------
(***************************************************************************)
(* Signals and the callbacks connected to them: src/core/callback/signal.c.*)
(*                                                                         *)
(* A thread that sends a signal calls the signal's callbacks and then the  *)
(* global ones, each list under its own recursive mutex.  A callback may   *)
(* connect and disconnect callbacks, itself included, and send signals.    *)
(* While a list is gone through, what leaves it is only marked.            *)
(*                                                                         *)
(* Each thread has a stack of the lists it is going through.  References   *)
(* to the handler (connect_ref) are left out: nothing in the repository    *)
(* takes one.                                                              *)
(***************************************************************************)
EXTENDS Integers, FiniteSets, SequencesExt

CONSTANTS Threads, Callbacks, Signals,
          Uses,        (* <<l, m>>: callbacks of list l may send signal m,  *)
                       (* and connect and disconnect callbacks of list m    *)
          MaxSent,     (* bound: how many signals are sent                  *)
          MaxEdits     (* bound: how often callbacks connect or disconnect  *)

All == "all"       (* the list of global callbacks *)
Lists == Signals \union {All}

ASSUME SignalsAssumption ==
  /\ All \notin Signals /\ Uses \subseteq Lists \X Lists
  /\ MaxSent \in Nat /\ MaxEdits \in Nat

VARIABLES
  callbacks,         (* each list: the callbacks with their marks           *)
  signalling,        (* is a signal being sent?                             *)
  wants,             (* per thread: the call that it makes, or Nothing      *)
  stack,             (* per thread the lists it goes through, innermost last *)
  current_signal_cb, (* per thread: list and index, 0 once the array has    *)
  current_global_cb, (* been freed, or <<>>                                 *)
  connected,         (* history: the callbacks of each list, as its clients *)
                     (* know them                                           *)
  misused,           (* history: has a callback done what the code is not   *)
                     (* made for? see Misuse and RemoveCurrent              *)
  sent, edits

current == <<current_signal_cb, current_global_cb>>
Nothing == [call |-> "none"]
vars == <<callbacks, signalling, wants, stack, current, connected, misused, sent, edits>>

Init ==
  /\ callbacks = [l \in Lists |-> <<>>] /\ signalling = [s \in Signals |-> FALSE]
  /\ wants = [t \in Threads |-> Nothing]
  /\ stack = [t \in Threads |-> <<>>]
  /\ current_signal_cb = [t \in Threads |-> <<>>] /\ current_global_cb = [t \in Threads |-> <<>>]
  /\ connected = [l \in Lists |-> {}]
  /\ misused = FALSE /\ sent = 0 /\ edits = 0

(* Going through a list.  Who is owed the call (connected since the loop   *)
(* began), who was called and whether the callback left are history.       *)
Loop(l) == [list |-> l, at |-> "loop", i |-> 1, moved |-> FALSE,
            owed |-> connected[l], called |-> <<>>, left |-> FALSE]

Busy(t) == stack[t] # <<>>
Top(t) == stack[t][Len(stack[t])]
SetTop(t, f) == stack' = [stack EXCEPT ![t][Len(stack[t])] = f]
Running(f) == f.at = "call"
Unmarked(q) == {i \in DOMAIN q : ~ q[i].remove}

(* What da_erase leaves if all places but those in keep are erased.       *)
Kept(q, keep) ==
  LET kept[n \in 0 .. Len(q)] ==
        IF n = 0 THEN <<>>
        ELSE IF n \in keep THEN Append(kept[n - 1], q[n]) ELSE kept[n - 1]
  IN  kept[Len(q)]

(* A recursive mutex: free, or taken by the thread itself.                 *)
(* Mutant: the mutex is not recursive.                                     *)
LockableOnce(t, l) ==
  \A u \in Threads : \A k \in DOMAIN stack[u] :
    stack[u][k].list = l => stack[u][k].at = "lock"

Lockable(t, l) ==
  \A u \in Threads \ {t} : \A k \in DOMAIN stack[u] :
    stack[u][k].list = l => stack[u][k].at = "lock"

(* Code of the clients runs on t, in a callback or outside of all, and it  *)
(* calls one of the functions below, which waits for the list's mutex.     *)
InClient(t) == wants[t] = Nothing /\ (Busy(t) => Running(Top(t)))
Inside(t, l) == \E k \in DOMAIN stack[t] : stack[t][k].list = l
MayUse(t, l) == Busy(t) => <<Top(t).list, l>> \in Uses

WantSignal(t, s) ==
  /\ InClient(t) /\ sent < MaxSent /\ MayUse(t, s)
  /\ wants' = [wants EXCEPT ![t] = [call |-> "signal", list |-> s]]
  /\ sent' = sent + 1
  /\ UNCHANGED <<callbacks, signalling, stack, current, connected, misused, edits>>

(* A callback connects what has just been disconnected from a list that it *)
(* runs in, so that its entry is marked; or a global callback changes its  *)
(* own list.                                                               *)
Misuse(t, call, l, c) ==
  /\ Inside(t, l)
  /\ l = All \/ (call = "connect" /\ \E e \in Range(callbacks[l]) : e.callback = c /\ e.remove)

WantEdit(t, l, c) ==
  /\ InClient(t) /\ edits < MaxEdits /\ (Inside(t, l) \/ MayUse(t, l))
  /\ \E e \in {"connect", "disconnect"} :
       /\ e = "disconnect" => c \in connected[l]
       /\ misused' = (misused \/ Misuse(t, e, l, c))
       /\ wants' = [wants EXCEPT ![t] = [call |-> e, list |-> l, callback |-> c]]
  /\ edits' = edits + 1
  /\ UNCHANGED <<callbacks, signalling, stack, current, connected, sent>>

Makes(t, call) ==
  /\ wants[t].call = call /\ Lockable(t, wants[t].list)
  /\ wants' = [wants EXCEPT ![t] = Nothing]

----------------------------------------------------------------------------
(* signal_handler_connect and _connect_global, _disconnect and             *)
(* _disconnect_global, signal_handler_remove_current                       *)

Fresh(c) == [callback |-> c, signaling |-> 0, remove |-> FALSE]

(* signal_get_callback_idx compares the callback; da_find, for the global  *)
(* ones, all of the structure, so it misses one that is being called.      *)
Found(l, c) ==
  {i \in DOMAIN callbacks[l] :
     IF l = All THEN callbacks[l][i] = Fresh(c) ELSE callbacks[l][i].callback = c}

(* The array may move when it grows (da_push_back), and is freed where it  *)
(* was: a loop in one of the global callbacks still points there, and so   *)
(* do current_signal_cb and current_global_cb.                             *)
Dangling(p, l) == IF p # <<>> /\ p[1] = l THEN <<l, 0>> ELSE p

Moves(t, l) ==
  /\ stack' = IF l = All
              THEN [stack EXCEPT ![t] = [k \in DOMAIN @ |->
                      IF @[k].list = All /\ Running(@[k])
                      THEN [@[k] EXCEPT !.moved = TRUE] ELSE @[k]]]
              ELSE stack
  /\ current_signal_cb' = [current_signal_cb EXCEPT ![t] = Dangling(@, l)]
  /\ current_global_cb' = [current_global_cb EXCEPT ![t] = Dangling(@, l)]

Connect(t) ==
  /\ Makes(t, "connect")
  /\ LET l == wants[t].list c == wants[t].callback
     IN /\ callbacks' = IF Found(l, c) # {} THEN callbacks
                        ELSE [callbacks EXCEPT ![l] = Append(@, Fresh(c))]
        /\ \/ UNCHANGED <<stack, current>>
           \/ Found(l, c) = {} /\ Moves(t, l)
        /\ connected' = [connected EXCEPT ![l] = @ \union {c}]
  /\ UNCHANGED <<signalling, misused, sent, edits>>

(* Who leaves is owed no more calls.                                       *)
Leaves(t, l, c) ==
  /\ connected' = [connected EXCEPT ![l] = @ \ {c}]
  /\ stack' = [u \in Threads |-> [k \in DOMAIN stack[u] |->
                 LET f == stack[u][k]
                 IN IF f.list # l THEN f
                    ELSE [f EXCEPT !.owed = @ \ {c},
                                   !.left = @ \/ (u = t /\ Running(f) /\ Last(f.called) = c)]]]

Disconnected(l, i) ==
  IF l \in Signals /\ signalling[l]
  THEN [callbacks EXCEPT ![l][i].remove = TRUE]
  ELSE [callbacks EXCEPT ![l] = Kept(@, (DOMAIN @) \ {i})]

(* Mutant: erased although the list is gone through.                       *)
DisconnectErases(t) ==
  /\ Makes(t, "disconnect")
  /\ LET l == wants[t].list c == wants[t].callback
     IN /\ \/ \E i \in Found(l, c) : callbacks' = [callbacks EXCEPT ![l] = Kept(@, (DOMAIN @) \ {i})]
           \/ Found(l, c) = {} /\ UNCHANGED callbacks
        /\ Leaves(t, l, c)
  /\ UNCHANGED <<signalling, current, misused, sent, edits>>

Disconnect(t) ==
  /\ Makes(t, "disconnect")
  /\ LET l == wants[t].list c == wants[t].callback
     IN /\ \/ \E i \in Found(l, c) : callbacks' = Disconnected(l, i)
           \/ Found(l, c) = {} /\ UNCHANGED callbacks
        /\ Leaves(t, l, c)
  /\ UNCHANGED <<signalling, current, misused, sent, edits>>

(* The entry that signal_handler_remove_current marks.                     *)
Current(t) ==
  IF current_signal_cb[t] # <<>> THEN current_signal_cb[t] ELSE current_global_cb[t]

(* The pointer may no longer be its own: a signal that the callback has    *)
(* sent leaves another there or none, and one that it has connected may    *)
(* have moved the array.                                                   *)
RemoveCurrent(t) ==
  /\ InClient(t) /\ Busy(t) /\ edits < MaxEdits
  /\ LET p == Current(t)
     IN /\ callbacks' = IF p # <<>> /\ p[2] \in DOMAIN callbacks[p[1]]
                        THEN [callbacks EXCEPT ![p[1]][p[2]].remove = TRUE]
                        ELSE callbacks
        /\ misused' = (misused \/ p # <<Top(t).list, Top(t).i>>)
  /\ Leaves(t, Top(t).list, Last(Top(t).called))
  /\ edits' = edits + 1
  /\ UNCHANGED <<signalling, wants, current, sent>>

----------------------------------------------------------------------------
(* signal_handler_signal *)

Signal(t) ==
  /\ Makes(t, "signal")
  /\ signalling' = [signalling EXCEPT ![wants[t].list] = TRUE]
  /\ stack' = [stack EXCEPT ![t] = Append(@, Loop(wants[t].list))]
  /\ UNCHANGED <<callbacks, current, connected, misused, sent, edits>>

InLoop(t) == Busy(t) /\ Top(t).at = "loop"
Here(t) == callbacks[Top(t).list][Top(t).i]
AtEnd(t) == Top(t).i > Len(callbacks[Top(t).list])

Skip(t) ==
  /\ InLoop(t) /\ ~ AtEnd(t) /\ Here(t).remove
  /\ SetTop(t, [Top(t) EXCEPT !.i = @ + 1])
  /\ UNCHANGED <<callbacks, signalling, wants, current, connected, misused, sent, edits>>

SetCurrent(t, p) ==
  IF Top(t).list = All
  THEN current_global_cb' = [current_global_cb EXCEPT ![t] = p] /\ UNCHANGED current_signal_cb
  ELSE current_signal_cb' = [current_signal_cb EXCEPT ![t] = p] /\ UNCHANGED current_global_cb

(* signaling of entry i changes, which signals do not have.                *)
Count(l, i, n) ==
  callbacks' = IF l = All /\ i \in DOMAIN callbacks[l]
               THEN [callbacks EXCEPT ![l][i].signaling = @ + n] ELSE callbacks

Call(t) ==
  /\ InLoop(t) /\ ~ AtEnd(t) /\ ~ Here(t).remove
  /\ SetCurrent(t, <<Top(t).list, Top(t).i>>)
  /\ Count(Top(t).list, Top(t).i, 1)
  /\ SetTop(t, [Top(t) EXCEPT !.at = "call", !.moved = FALSE, !.left = FALSE,
                              !.called = Append(@, Here(t).callback)])
  /\ UNCHANGED <<signalling, wants, connected, misused, sent, edits>>

(* The callback returns.                                                   *)
Return(t) ==
  /\ Busy(t) /\ InClient(t)
  /\ SetCurrent(t, <<>>)
  /\ IF Top(t).moved THEN UNCHANGED callbacks ELSE Count(Top(t).list, Top(t).i, -1)
  /\ SetTop(t, [Top(t) EXCEPT !.at = "loop", !.i = @ + 1])
  /\ UNCHANGED <<signalling, wants, connected, misused, sent, edits>>

(* The marked callbacks leave the list, and the global ones are next.      *)
Finish(t) ==
  /\ InLoop(t) /\ AtEnd(t) /\ Top(t).list # All
  /\ callbacks' = [callbacks EXCEPT ![Top(t).list] = Kept(@, Unmarked(@))]
  /\ signalling' = [signalling EXCEPT ![Top(t).list] = FALSE]
  /\ SetTop(t, [Loop(All) EXCEPT !.at = "lock"])
  /\ UNCHANGED <<wants, current, connected, misused, sent, edits>>

LockGlobal(t) ==
  /\ Busy(t) /\ Top(t).at = "lock" /\ Lockable(t, All)
  /\ SetTop(t, Loop(All))
  /\ UNCHANGED <<callbacks, signalling, wants, current, connected, misused, sent, edits>>

FinishGlobal(t) ==
  /\ InLoop(t) /\ AtEnd(t) /\ Top(t).list = All
  /\ callbacks' = [callbacks EXCEPT ![All] =
                     Kept(@, {i \in DOMAIN @ : ~ (@[i].remove /\ @[i].signaling = 0)})]
  /\ stack' = [stack EXCEPT ![t] = Front(@)]
  /\ UNCHANGED <<signalling, wants, current, connected, misused, sent, edits>>

----------------------------------------------------------------------------
Sending(t) == Skip(t) \/ Call(t) \/ Return(t) \/ Finish(t) \/ LockGlobal(t) \/ FinishGlobal(t)
Making(t)  == Connect(t) \/ Disconnect(t) \/ Signal(t)

Wanting(t) ==
  \/ \E s \in Signals : WantSignal(t, s)
  \/ \E l \in Lists, c \in Callbacks : WantEdit(t, l, c)
  \/ RemoveCurrent(t)

Next == \E t \in Threads : Sending(t) \/ Making(t) \/ Wanting(t)

Spec == Init /\ [][Next]_vars

(* Callbacks return, and a mutex that is free again and again is given to  *)
(* the thread that waits for it.                                           *)
FairSpec == Spec /\ \A t \in Threads : SF_vars(Sending(t)) /\ SF_vars(Making(t))

----------------------------------------------------------------------------
(* Properties. *)

Entry == [callback : Callbacks, signaling : Nat, remove : BOOLEAN]

Frame == [list : Lists, at : {"lock", "loop", "call"}, i : Nat \ {0}, moved : BOOLEAN,
          owed : SUBSET Callbacks, called : Seq(Callbacks), left : BOOLEAN]

Want == {Nothing} \union [call : {"signal"}, list : Signals]
          \union [call : {"connect", "disconnect"}, list : Lists, callback : Callbacks]

TypeOK ==
  /\ callbacks \in [Lists -> Seq(Entry)] /\ signalling \in [Signals -> BOOLEAN]
  /\ wants \in [Threads -> Want] /\ stack \in [Threads -> Seq(Frame)]
  /\ connected \in [Lists -> SUBSET Callbacks]
  /\ sent \in 0 .. MaxSent /\ edits \in 0 .. MaxEdits

Frames(t) == {stack[t][k] : k \in DOMAIN stack[t]}

(* The unmarked callbacks of a list are those its clients have connected,  *)
(* each once, and marks last no longer than the loops that they are for.   *)
ListsAgree ==
  /\ \A l \in Lists :
       LET q == callbacks[l]
       IN  /\ {q[i].callback : i \in Unmarked(q)} = connected[l]
           /\ \A i, j \in Unmarked(q) : q[i].callback = q[j].callback => i = j
  /\ \A s \in Signals :
       /\ signalling[s] <=> \E t \in Threads : \E f \in Frames(t) : f.list = s
       /\ (\E e \in Range(callbacks[s]) : e.remove) => signalling[s]
  /\ \A e \in Range(callbacks[All]) :
       /\ e.signaling = Cardinality({t \in Threads : \E f \in Frames(t) :
                                      f.list = All /\ Running(f) /\ Last(f.called) = e.callback})
       /\ e.remove => \E t \in Threads : \E f \in Frames(t) : f.list = All /\ f.at # "lock"

(* Whoever is connected while a signal is sent is called by it, once; and  *)
(* once a callback has been disconnected it does not run, unless it did so *)
(* itself: its data may be freed.                                          *)
CalledRightly ==
  \A t \in Threads : \A k \in DOMAIN stack[t] :
    LET f == stack[t][k]
    IN /\ IsInjective(f.called)
       /\ f.at = "loop" /\ f.i > Len(callbacks[f.list]) => f.owed \subseteq Range(f.called)
       /\ Running(f) => f.left \/ Last(f.called) \in connected[f.list]

(* Marks and counts do what they are for, however sending, connecting and  *)
(* disconnecting are nested and interleaved, until a callback does what    *)
(* they are not made for: its mark then goes to another entry, to memory   *)
(* that was freed, or is forgotten.                                        *)
SignalsInv == misused \/ (TypeOK /\ ListsAgree /\ CalledRightly)

(* signal_handler_signal, connect and disconnect return, although each     *)
(* signal's mutex is held during its callbacks, which take other mutexes.  *)
SignalsReturn ==
  \A t \in Threads : stack[t] # <<>> \/ wants[t] # Nothing ~> stack[t] = <<>> /\ wants[t] = Nothing
=============================================================================

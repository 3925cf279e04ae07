-------------------------- MODULE MCCallbackQueue --------------------------
(***************************************************************************)
(* Client programs for model checking CallbackQueue.                       *)
(***************************************************************************)
EXTENDS CallbackQueue

CONSTANTS o, p,                        \* the owner and a second client
          a, b, g, x, y, hx, hy,       \* tasks and the handles of x and y
          v,                           \* a task that returns a value
          w1, w2,                      \* the invokers that wait() allocates
          k0, k1, k2, k3               \* the controls

Blank == [call |-> "push", inv |-> NULL, aux |-> NULL, on |-> <<>>, n |-> 0]
Pushes(tt) == [Blank EXCEPT !.inv = tt]
Depends(tt, hh, on) == [Blank EXCEPT !.call = "push_dependent", !.inv = tt,
                                     !.aux = hh, !.on = on]
Waits(ww, on) == [Blank EXCEPT !.call = "wait", !.inv = ww, !.on = on]
Blocks(tt) == [Blank EXCEPT !.call = "future_wait", !.on = <<tt>>]
Threads(kk, n) == [Blank EXCEPT !.call = "set_number_of_threads", !.inv = kk, !.n = n]
Destroys == [Blank EXCEPT !.call = "destroy"]

\* A client helps with a task in the middle of the deque, which leaves a
\* hole, pushes behind it and waits for the rest.
HelpScript ==
  o :> <<Threads(k0, 1), Pushes(a), Pushes(b), Waits(w1, <<b>>), Pushes(v),
         Waits(w2, <<a, v>>), Destroys>>

\* Two workers, a task that depends on another, and one that depends on both.
DependScript ==
  o :> <<Threads(k0, 1), Threads(k1, 2), Pushes(v), Depends(x, hx, <<v>>),
         Depends(y, hy, <<v, x>>), Destroys>>

\* Two clients resize the queue while a task is pushed: the owner up and
\* down again, the other client up.
ResizeScript ==
  o :> <<Threads(k0, 1), Threads(k1, 2), Threads(k2, 1), Destroys>>
  @@ p :> <<Pushes(b), Threads(k3, 2), Blocks(b)>>

\* The owner dismisses a worker while a task is queued.
DismissScript ==
  o :> <<Threads(k0, 1), Threads(k1, 2), Pushes(b), Threads(k2, 1), Destroys>>

\* One task has two dependents and pushes a third task itself; a second
\* client pushes meanwhile.
LaunchScript ==
  o :> <<Threads(k0, 1), Pushes(a), Depends(x, hx, <<a>>),
         Depends(y, hy, <<a, a>>), Waits(w1, <<y>>), Destroys>>
  @@ p :> <<Pushes(b)>>
  @@ a :> <<Pushes(g)>>

\* The queue is destroyed while a task and one that depends on it are queued.
ChainScript ==
  o :> <<Threads(k0, 1), Pushes(v), Depends(x, hx, <<v>>), Threads(k1, 2), Destroys>>

\* The only worker runs a task that waits for two tasks which it has pushed.
HoleScript ==
  o :> <<Threads(k0, 1), Pushes(a)>>
  @@ a :> <<Pushes(b), Pushes(g), Waits(w1, <<g>>), Pushes(x), Waits(w2, <<x>>)>>

\* The sets of programs of the runs.
SafetyScripts == {DependScript, ResizeScript, LaunchScript}
ReturnScripts == {HelpScript, DismissScript, ChainScript}
HoleScripts == {HoleScript}
=============================================================================

------------------------------- MODULE Logger -------------------------------
(***************************************************************************)
(* The logger with its native backend: a message passes the cut-off, is    *)
(* written to the console and to the open files under g_io_mutex, and then *)
(* goes to copies of the callbacks without the lock. Files and callbacks   *)
(* come and go meanwhile. Named scopes and scope objects log when they     *)
(* begin and end. A message is the thread and the number of its call; its  *)
(* text, which is not empty, flush() and the names of threads are left     *)
(* out.                                                                    *)
(***************************************************************************)
EXTENDS Integers, FiniteSetsExt, SequencesExt

CONSTANTS LogThread, LogPath, CallbackId, ScopeId,
          LogUses,       \* the threads, calls and arguments of a program
          NoThread       \* g_io_mutex is free

VARIABLES luse,          \* rigid: a member of LogUses
          g_cutoff,
          g_console_mode,
          g_io_mutex,
          g_files,
          g_callbacks,   \* a set: its order is that of a hash table
          scope_vectors, \* the named scopes of each thread
          objects,       \* the log_scope_raii of each thread
          logging,       \* where each thread is in native_log_output
          output,        \* what each sink was given, before a file was truncated too
          said           \* history: the calls of each thread

lvars == <<luse, g_cutoff, g_console_mode, g_io_mutex, g_files, g_callbacks,
           scope_vectors, objects, logging, output, said>>
sinks == <<g_cutoff, g_console_mode, g_files, g_callbacks>>
scopes == <<scope_vectors, objects>>

\* logger_verbosity_enum
FATAL == -3
ERROR == -2
INFO == 0

Console == <<"console", 0>>
File(path) == <<"file", path>>
Handler(n) == <<"callback", n>>      \* the n-th registration
Sink == {Console} \cup {File(p) : p \in LogPath} \cup {Handler(n) : n \in 1..luse.calls}

\* The sinks that a message of some severity goes to
Wants(severity, console, opened, callbacks) ==
  {s \in {Console} : console \/ severity = FATAL}
  \cup {File(f.path) : f \in {g \in Range(opened) : severity <= g.verbosity /\ g.is_open}}
  \cup {Handler(c.entry) : c \in {d \in callbacks : severity <= d.verbosity}}

NoCall == [phase |-> "none", severity |-> 0, at |-> 0, copies |-> {}, must |-> {}, may |-> {}]
Aborted == \E t \in LogThread : logging[t].phase = "aborted"

LInit ==
  /\ luse \in LogUses
  /\ g_cutoff = INFO /\ g_console_mode = TRUE /\ g_io_mutex = NoThread
  /\ g_files = <<>> /\ g_callbacks = {}
  /\ scope_vectors = [t \in LogThread |-> <<>>] /\ objects = [t \in LogThread |-> <<>>]
  /\ logging = [t \in LogThread |-> NoCall]
  /\ output = [s \in Sink |-> <<>>]
  /\ said = [t \in LogThread |-> <<>>]

\* The calls of all threads so far
Calls == FoldSet(LAMBDA t, n : n + Len(said[t]), 0, LogThread)

\* A thread that is not inside of a call makes one.
Calling(t, what) ==
  /\ t \in luse.threads /\ what.op \in luse.ops
  /\ logging[t].phase = "none" /\ ~Aborted /\ Calls < luse.calls
  /\ said' = [said EXCEPT ![t] = Append(@, what)]
  /\ UNCHANGED luse

Says(op, id, severity) == [op |-> op, id |-> id, severity |-> severity]

(***************************************************************************)
(* native_log_output. must and may are histories: the sinks that want the  *)
(* message at all times, and at some time, before the lock is taken.       *)
(***************************************************************************)
Passes(severity) == severity <= g_cutoff \/ severity = FATAL
native_log_output(t, severity) ==
  LET now == Wants(severity, g_console_mode, g_files, g_callbacks) IN
  /\ logging' = IF Passes(severity)
             THEN [logging EXCEPT ![t] =
                     [NoCall EXCEPT !.phase = "entered", !.severity = severity, !.must = now, !.may = now]]
             ELSE logging
  /\ UNCHANGED <<sinks, g_io_mutex, output>>

Written(t, s) == [output EXCEPT ![s] = Append(@, <<t, Len(said[t])>>)]

Step(t, phase) == logging[t].phase = phase /\ ~Aborted /\ UNCHANGED <<luse, sinks, scopes, said>>

Free_always == TRUE
Free == g_io_mutex = NoThread
Lock(t) ==
  /\ Step(t, "entered") /\ Free
  /\ g_io_mutex' = t
  /\ logging' = [logging EXCEPT ![t].phase = "writing", ![t].at = 1]
  /\ output' = IF g_console_mode \/ logging[t].severity = FATAL THEN Written(t, Console) ELSE output

Write(t) ==
  LET c == logging[t] IN
  /\ Step(t, "writing") /\ c.at <= Len(g_files)
  /\ logging' = [logging EXCEPT ![t].at = @ + 1]
  /\ output' = IF c.severity <= g_files[c.at].verbosity /\ g_files[c.at].is_open
               THEN Written(t, File(g_files[c.at].path)) ELSE output
  /\ UNCHANGED g_io_mutex

Unlock(t) ==
  /\ Step(t, "writing") /\ logging[t].at > Len(g_files)
  /\ g_io_mutex' = NoThread
  /\ logging' = [logging EXCEPT ![t].phase = "calling",
                          ![t].copies = {c.entry : c \in {d \in g_callbacks : logging[t].severity <= d.verbosity}}]
  /\ UNCHANGED output

Callback(t) ==
  /\ Step(t, "calling")
  /\ \E n \in logging[t].copies :
       /\ output' = Written(t, Handler(n))
       /\ logging' = [logging EXCEPT ![t].copies = @ \ {n}]
  /\ UNCHANGED g_io_mutex

\* abort_if_fatal
Return(t) ==
  /\ Step(t, "calling") /\ logging[t].copies = {}
  /\ logging' = [logging EXCEPT ![t] = IF @.severity = FATAL THEN [@ EXCEPT !.phase = "aborted"] ELSE NoCall]
  /\ UNCHANGED <<g_io_mutex, output>>

(***************************************************************************)
(* The sinks                                                               *)
(***************************************************************************)
Reconfigured(console, opened, callbacks) ==
  /\ g_console_mode' = console /\ g_files' = opened /\ g_callbacks' = callbacks
  /\ logging' = [t \in LogThread |->
       LET now == Wants(logging[t].severity, console, opened, callbacks) IN
       IF logging[t].phase # "entered" THEN logging[t]
       ELSE [logging[t] EXCEPT !.must = @ \cap now, !.may = @ \cup now]]
  /\ UNCHANGED <<g_io_mutex, scopes>>

\* set_stderr_verbosity, set_internal_verbosity_level
native_set_cutoff(t, level) ==
  /\ Calling(t, Says("cutoff", "", level))
  /\ g_cutoff' = level
  /\ UNCHANGED <<g_console_mode, g_files, g_callbacks, g_io_mutex, scopes, logging, output>>

set_console_mode(t, enabled) ==
  /\ Calling(t, Says("console", "", 0))
  /\ Reconfigured(enabled, g_files, g_callbacks)
  /\ UNCHANGED <<g_cutoff, output>>

FileAt(path) == {i \in DOMAIN g_files : g_files[i].path = path}

\* A file that is open already only changes its verbosity. Opening may fail.
native_log_to_file(t, path, verbosity) ==
  /\ Calling(t, Says("file", path, verbosity)) /\ Free
  /\ \/ /\ FileAt(path) # {}
        /\ LET i == Min(FileAt(path)) IN
           Reconfigured(g_console_mode, [g_files EXCEPT ![i].verbosity = verbosity], g_callbacks)
     \/ /\ FileAt(path) = {}
        /\ \E opens \in luse.opens :
             Reconfigured(g_console_mode,
               Append(g_files, [path |-> path, verbosity |-> verbosity, is_open |-> opens]), g_callbacks)
  /\ UNCHANGED <<g_cutoff, output>>

native_end_log_to_file(t, path) ==
  /\ Calling(t, Says("end_file", path, 0)) /\ Free
  /\ Reconfigured(g_console_mode,
       IF FileAt(path) = {} THEN g_files ELSE RemoveAt(g_files, Min(FileAt(path))), g_callbacks)
  /\ UNCHANGED <<g_cutoff, output>>

\* A callback with the same id is replaced, and is not closed.
Others(id) == {c \in g_callbacks : c.id # id}
native_add_callback(t, id, verbosity) ==
  /\ Calling(t, Says("add", id, verbosity)) /\ Free
  /\ Reconfigured(g_console_mode, g_files,
       Others(id) \cup {[id |-> id, entry |-> Calls + 1, verbosity |-> verbosity]})
  /\ UNCHANGED <<g_cutoff, output>>

native_remove_callback(t, id) ==
  /\ Calling(t, Says("remove", id, 0)) /\ Free
  /\ Reconfigured(g_console_mode, g_files, Others(id))
  /\ UNCHANGED <<g_cutoff, output>>

(***************************************************************************)
(* Messages and scopes                                                     *)
(***************************************************************************)
\* log(), log_f() and start_scope_f(), which begins no scope here
log(t, severity) ==
  Calling(t, Says("log", "", severity)) /\ native_log_output(t, severity) /\ UNCHANGED scopes

start_scope(t, id, verbosity) ==
  /\ Calling(t, Says("start", id, verbosity))
  /\ scope_vectors' = [scope_vectors EXCEPT ![t] = Append(@, [id |-> id, verbosity |-> verbosity])]
  /\ native_log_output(t, verbosity)
  /\ UNCHANGED objects

\* end_scope: the innermost scope ends, or an error is logged.
Innermost(t, id) == scope_vectors[t] # <<>> /\ Last(scope_vectors[t]).id = id
pop_named_scope(t, id) ==
  LET v == scope_vectors[t] IN
  /\ \/ /\ Innermost(t, id)
        /\ Calling(t, Says("end", id, Last(v).verbosity))
        /\ scope_vectors' = [scope_vectors EXCEPT ![t] = Front(@)]
        /\ native_log_output(t, Last(v).verbosity)
     \/ /\ ~Innermost(t, id)
        /\ Calling(t, Says("mismatch", id, ERROR))
        /\ UNCHANGED scope_vectors
        /\ native_log_output(t, ERROR)
  /\ UNCHANGED objects

\* LOGGING_LOG_SCOPE_FUNCTION: above the cut-off, the object is empty and
\* says nothing at its end either.
Silent == -10
NewObject(verbosity) == IF verbosity > g_cutoff THEN Silent ELSE verbosity
log_scope_raii(t, verbosity) ==
  /\ Calling(t, Says(IF verbosity > g_cutoff THEN "silent" ELSE "enter", "", verbosity))
  /\ objects' = [objects EXCEPT ![t] = Append(@, NewObject(verbosity))]
  /\ IF verbosity > g_cutoff THEN UNCHANGED <<sinks, g_io_mutex, output, logging>>
     ELSE native_log_output(t, verbosity)
  /\ UNCHANGED scope_vectors

EndObject(t) ==
  /\ objects[t] # <<>>
  /\ objects' = [objects EXCEPT ![t] = Front(@)]
  /\ \/ /\ Last(objects[t]) = Silent
        /\ Calling(t, Says("quiet", "", 0))
        /\ UNCHANGED <<sinks, g_io_mutex, output, logging>>
     \/ /\ Last(objects[t]) # Silent
        /\ Calling(t, Says("exit", "", Last(objects[t])))
        /\ native_log_output(t, Last(objects[t]))
  /\ UNCHANGED scope_vectors

LogStep(t) == Lock(t) \/ Write(t) \/ Unlock(t) \/ Callback(t) \/ Return(t)

\* The program is over.
LogEnds ==
  /\ Aborted \/ (Calls = luse.calls /\ \A t \in LogThread : logging[t].phase = "none")
  /\ UNCHANGED lvars

LNext ==
  LogEnds \/ \E t \in LogThread :
    \/ LogStep(t)
    \/ \E level \in luse.levels :
         \/ log(t, level) \/ native_set_cutoff(t, level) \/ log_scope_raii(t, level)
         \/ \E id \in ScopeId : start_scope(t, id, level)
         \/ \E id \in CallbackId : native_add_callback(t, id, level)
         \/ \E path \in LogPath : native_log_to_file(t, path, level)
    \/ \E enabled \in BOOLEAN : set_console_mode(t, enabled)
    \/ \E path \in LogPath : native_end_log_to_file(t, path)
    \/ \E id \in CallbackId : native_remove_callback(t, id)
    \/ \E id \in ScopeId : pop_named_scope(t, id)
    \/ EndObject(t)

(***************************************************************************)
(* Properties                                                              *)
(***************************************************************************)
Copies(s, m) == Cardinality({i \in DOMAIN output[s] : output[s][i] = m})

\* A message that has passed the cut-off reaches, once, every sink that wants
\* it until the lock is taken, and no sink that does not want it at any time
\* before. A callback that is removed after that is still called, after its
\* on_close: it is in the copy. A fatal message aborts the process only after
\* it has reached all of them. (native_log_output)
Delivered ==
  \A t \in LogThread : logging[t].phase \in {"calling", "aborted"} /\ logging[t].copies = {} =>
    \A s \in Sink : LET n == Copies(s, <<t, Len(said[t])>>) IN
      /\ n <= 1
      /\ s \in logging[t].must => n = 1
      /\ s \notin logging[t].may => n = 0

\* The console and the files show the messages that they share in the same
\* order, although files are opened and closed while threads are writing.
SameOrder ==
  \A s1 \in Sink, s2 \in Sink : s1[1] # "callback" /\ s2[1] # "callback" =>
    \A i, j \in DOMAIN output[s1] : i < j =>
      \A k, l \in DOMAIN output[s2] :
        output[s2][k] = output[s1][i] /\ output[s2][l] = output[s1][j] => k < l

\* A scope that ends is the innermost one that the thread has begun and not
\* ended, with the id and verbosity that it was begun with, whatever calls of
\* end_scope did not match in between; a scope object that was silent when it
\* was made, because of the cut-off at that time, is silent at its end.
\* (push_named_scope, pop_named_scope, ~log_scope_raii)
Number(t, m, n, ops) == Cardinality({i \in m..n : said[t][i].op \in ops})
Closes(t, begins, ends) ==
  \A n \in DOMAIN said[t] : said[t][n].op \in ends =>
    \E m \in 1..(n - 1) :
      /\ said[t][m].op \in begins
      /\ \A k \in (m + 1)..(n - 1) : Number(t, k, n - 1, ends) >= Number(t, k, n - 1, begins)
      /\ Number(t, m + 1, n - 1, begins) = Number(t, m + 1, n - 1, ends)
      /\ said[t][n].op # "quiet" =>
           said[t][m].id = said[t][n].id /\ said[t][m].severity = said[t][n].severity
      /\ said[t][m].op = "silent" <=> said[t][n].op = "quiet"
ScopesNest ==
  \A t \in LogThread : Closes(t, {"start"}, {"end"}) /\ Closes(t, {"enter", "silent"}, {"exit", "quiet"})

\* Messages reach the sinks that are in force, in one order, and scopes nest.
LogSound == Delivered /\ SameOrder /\ ScopesNest
=============================================================================

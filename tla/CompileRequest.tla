---------------------------- MODULE CompileRequest ----------------------------
(***************************************************************************)
(* A user compiles a document: the page (frontend/src/App.tsx and          *)
(* components/Editor.tsx) and the endpoint it calls, POST /api/compile of  *)
(* the gateway (gateway/src/server.rs).                                    *)
(*                                                                         *)
(* The page runs on one thread; between the awaits of handleCompile other  *)
(* calls of it, renders, effects and timers run.  React applies what was   *)
(* set since the last render at once, with the next render, and runs the   *)
(* cleanups of effects some time after it.  handleCompile sees the PDF URL *)
(* of the render that made it.  Calls are numbered; a call's URL and timer *)
(* go by its number.                                                       *)
(*                                                                         *)
(* The endpoint runs a request as a task: it tries one compiler after the  *)
(* other in a directory of the request.  A compiler it stops waiting for   *)
(* is not killed.                                                          *)
(***************************************************************************)
EXTENDS Integers, FiniteSets

CONSTANTS MaxCalls,    \* bound: calls of handleCompile
          MaxInFlight, \* bound: calls that wait for their answer
          Compilers    \* how many compilers compile_latex tries

ASSUME ConstantsAssumption == {MaxCalls, MaxInFlight, Compilers} \subseteq Nat

Calls == 1 .. MaxCalls
Null  == 0  \* no URL, no timer, no file

VARIABLES
  shown,     \* compileStatus, compileMessage and pdfUrl as last rendered
  next,      \* the same, as set since
  cleanup,   \* the cleanup of the effect on pdfUrl, if it is due
  timers,    \* timers that run
  timeout,   \* successTimeoutRef
  live,      \* object URLs that have been created and not revoked
  rendered,  \* history: the URLs that have been shown
  stage,     \* where a call stands
  seen,      \* the pdfUrl a call sees
  attempt,   \* the compiler the endpoint tries for a call
  abandoned, \* compilers it has stopped waiting for, which still run
  file,      \* main.pdf in a directory: the call it was compiled for
  answer     \* what the endpoint has answered

page     == <<shown, next, cleanup, timers, timeout, live, rendered>>
endpoint == <<attempt, abandoned, file, answer>>
vars     == <<page, stage, seen, endpoint>>

NoCleanup  == [due |-> FALSE, url |-> Null]
NoAnswer   == [kind |-> "none"]
Display(status, message, url) == [status |-> status, message |-> message, url |-> url]

-----------------------------------------------------------------------------
(* Helpers *)

InFlight == {r \in Calls : stage[r] \in {"Compiling", "Reading", "Answered"}}

Moves(r, from, to) == stage[r] = from /\ stage' = [stage EXCEPT ![r] = to]

(* A slip: one directory for all requests. *)
WorkDirShared(r) == 1

(* tempfile::tempdir: every request has a directory of its own. *)
WorkDir(r) == r

(* The directory of the request is removed with the answer, and what        *)
(* abandoned compilers still do matters no more.                            *)
Answer(r, a) ==
  /\ answer' = [answer EXCEPT ![r] = a]
  /\ attempt' = [attempt EXCEPT ![r] = 1]
  /\ abandoned' = [abandoned EXCEPT ![r] = {}]
  /\ file' = [file EXCEPT ![WorkDir(r)] = Null]

(* handleCompile goes on with the answer, and returns. *)
Returns(r) ==
  /\ Moves(r, "Answered", "Done")
  /\ seen' = [seen EXCEPT ![r] = Null]
  /\ answer' = [answer EXCEPT ![r] = NoAnswer]
  /\ UNCHANGED <<attempt, abandoned, file>>

-----------------------------------------------------------------------------
Init ==
  /\ shown = Display("idle", "none", Null)
  /\ next = shown
  /\ cleanup = NoCleanup
  /\ timers = {}
  /\ timeout = Null
  /\ live = {}
  /\ rendered = {}
  /\ stage = [r \in Calls |-> "Unused"]
  /\ seen = [r \in Calls |-> Null]
  /\ attempt = [r \in Calls |-> 1]
  /\ abandoned = [r \in Calls |-> {}]
  /\ file = [r \in Calls |-> Null]
  /\ answer = [r \in Calls |-> NoAnswer]

(* handleCompile up to its first await; the request carries no content. *)
HandleCompile(r, url) ==
  /\ Moves(r, "Unused", "Compiling")
  /\ \A q \in 1 .. r - 1 : stage[q] # "Unused"
  /\ Cardinality(InFlight) < MaxInFlight
  /\ timers' = timers \ {timeout}
  /\ timeout' = Null
  /\ next' = Display("compiling", "compiling", next.url)
  /\ seen' = [seen EXCEPT ![r] = url]
  /\ UNCHANGED <<shown, cleanup, live, rendered, endpoint>>

(* The button calls the handler of the last render; it is disabled while    *)
(* the page shows that it compiles.                                         *)
Click(r) == shown.status # "compiling" /\ HandleCompile(r, shown.url)

(* Ctrl+S is always enabled.  The editor is made anew, with the handler of  *)
(* the last render, by an effect that runs with the cleanup.                *)
PressCtrlS(r) == HandleCompile(r, IF cleanup.due THEN cleanup.url ELSE shown.url)

-----------------------------------------------------------------------------
(* The endpoint.  When it cannot make the directory or write the source, it *)
(* answers with an error.                                                   *)
RefuseRequest(r) ==
  /\ attempt[r] = 1 /\ abandoned[r] = {}
  /\ Moves(r, "Compiling", "Answered")
  /\ Answer(r, [kind |-> "error"])
  /\ UNCHANGED <<page, seen>>

(* try_compile_with: the compiler is missing or reports failure; it leaves  *)
(* no PDF.                                                                  *)
CompilerFails(r) ==
  /\ stage[r] = "Compiling" /\ attempt[r] <= Compilers
  /\ attempt' = [attempt EXCEPT ![r] = @ + 1]
  /\ UNCHANGED <<page, stage, seen, abandoned, file, answer>>

(* A slip of CompilerTimesOut: the same compiler is tried again. *)
CompilerTimesOutRetried(r) ==
  /\ stage[r] = "Compiling" /\ attempt[r] <= Compilers
  /\ abandoned' = [abandoned EXCEPT ![r] = @ \cup {attempt[r]}]
  /\ UNCHANGED <<page, stage, seen, attempt, file, answer>>

(* It takes too long: the wait is given up, the process goes on. *)
CompilerTimesOut(r) ==
  /\ stage[r] = "Compiling" /\ attempt[r] <= Compilers
  /\ attempt' = [attempt EXCEPT ![r] = @ + 1]
  /\ abandoned' = [abandoned EXCEPT ![r] = @ \cup {attempt[r]}]
  /\ UNCHANGED <<page, stage, seen, file, answer>>

(* It succeeds, with a PDF or, for a document without pages, without. *)
CompilerSucceeds(r) ==
  /\ attempt[r] <= Compilers
  /\ Moves(r, "Compiling", "Reading")
  /\ \/ file' = [file EXCEPT ![WorkDir(r)] = r]
     \/ UNCHANGED file
  /\ UNCHANGED <<page, seen, attempt, abandoned, answer>>

(* A compiler that was given up finishes, with or without a PDF. *)
AbandonedFinishes(r, k) ==
  /\ k \in abandoned[r]
  /\ abandoned' = [abandoned EXCEPT ![r] = @ \ {k}]
  /\ \/ file' = [file EXCEPT ![WorkDir(r)] = r]
     \/ UNCHANGED file
  /\ UNCHANGED <<page, stage, seen, attempt, answer>>

(* The PDF is read and answered; the directory is removed. *)
ReadPdf(r) ==
  /\ Moves(r, "Reading", "Answered")
  /\ file[WorkDir(r)] # Null
  /\ Answer(r, [kind |-> "pdf", of |-> file[WorkDir(r)]])
  /\ UNCHANGED <<page, seen>>

PdfIsMissing(r) ==
  /\ Moves(r, "Reading", "Compiling")
  /\ file[WorkDir(r)] = Null
  /\ attempt' = [attempt EXCEPT ![r] = @ + 1]
  /\ UNCHANGED <<page, seen, abandoned, file, answer>>

(* generate_placeholder_pdf: no compiler has succeeded, and the answer is a *)
(* PDF all the same.                                                        *)
AnswerPlaceholder(r) ==
  /\ attempt[r] > Compilers
  /\ Moves(r, "Compiling", "Answered")
  /\ Answer(r, [kind |-> "placeholder"])
  /\ UNCHANGED <<page, seen>>

(* The connection fails: fetch rejects, and axum drops the handler, if it   *)
(* still runs, with the directory.                                          *)
LoseConnection(r) ==
  /\ stage[r] \in {"Compiling", "Reading", "Answered"} /\ answer[r].kind # "error"
  /\ stage' = [stage EXCEPT ![r] = "Answered"]
  /\ Answer(r, [kind |-> "error"])
  /\ UNCHANGED <<page, seen>>

-----------------------------------------------------------------------------
(* The rest of handleCompile, when a PDF has arrived ...                    *)
Succeed(r) ==
  /\ answer[r].kind \in {"pdf", "placeholder"}
  /\ Returns(r)
  /\ live' = (live \ {seen[r]}) \cup {r}
  /\ next' = Display("success", "success", r)
  /\ timers' = timers \cup {r}
  /\ timeout' = r
  /\ UNCHANGED <<shown, cleanup, rendered>>

(* A slip of Fail: the status is not set. *)
FailKeepsStatus(r) ==
  /\ answer[r].kind = "error"
  /\ Returns(r)
  /\ live' = live \ {seen[r]}
  /\ next' = Display(next.status, "error", Null)
  /\ UNCHANGED <<shown, cleanup, timers, timeout, rendered>>

(* ... and when it has failed. *)
Fail(r) ==
  /\ answer[r].kind = "error"
  /\ Returns(r)
  /\ live' = live \ {seen[r]}
  /\ next' = Display("error", "error", Null)
  /\ UNCHANGED <<shown, cleanup, timers, timeout, rendered>>

(* The timer of a success removes the message, whatever it says by then. *)
Fire(r) ==
  /\ r \in timers
  /\ timers' = timers \ {r}
  /\ next' = [next EXCEPT !.message = "none"]
  /\ UNCHANGED <<shown, cleanup, timeout, live, rendered, stage, seen, endpoint>>

(* React renders what has been set; cleanups that are due have run before.  *)
Render ==
  /\ next # shown /\ ~cleanup.due
  /\ shown' = next
  /\ rendered' = rendered \cup ({next.url} \ {Null})
  /\ cleanup' = IF next.url = shown.url THEN NoCleanup ELSE [due |-> TRUE, url |-> shown.url]
  /\ UNCHANGED <<next, timers, timeout, live, stage, seen, endpoint>>

(* Slips of CleanUp: it goes by the URL that is shown now; only the timer   *)
(* is cleared.                                                              *)
CleanUpShown ==
  /\ cleanup.due
  /\ timers' = timers \ {timeout}
  /\ live' = live \ {shown.url}
  /\ cleanup' = NoCleanup
  /\ UNCHANGED <<shown, next, timeout, rendered, stage, seen, endpoint>>

CleanUpTimer ==
  /\ cleanup.due
  /\ timers' = timers \ {timeout}
  /\ cleanup' = NoCleanup
  /\ UNCHANGED <<shown, next, timeout, live, rendered, stage, seen, endpoint>>

(* The cleanup of the effect on pdfUrl. *)
CleanUp ==
  /\ cleanup.due
  /\ timers' = timers \ {timeout}
  /\ live' = live \ {cleanup.url}
  /\ cleanup' = NoCleanup
  /\ UNCHANGED <<shown, next, timeout, rendered, stage, seen, endpoint>>

-----------------------------------------------------------------------------
(* The endpoint's task for a call. *)
Compile(r) ==
  \/ RefuseRequest(r) \/ CompilerFails(r) \/ CompilerTimesOut(r) \/ CompilerSucceeds(r)
  \/ ReadPdf(r) \/ PdfIsMissing(r) \/ AnswerPlaceholder(r)

Next ==
  \/ \E r \in Calls :
       \/ Click(r) \/ PressCtrlS(r)
       \/ Compile(r) \/ LoseConnection(r)
       \/ \E k \in 1 .. Compilers : AbandonedFinishes(r, k)
       \/ Succeed(r) \/ Fail(r) \/ Fire(r)
  \/ Render \/ CleanUp

Spec == Init /\ [][Next]_vars

(* The runtime runs the endpoint's tasks, and a compiler it waits for ends  *)
(* or is given up; the page runs the continuations of its promises, renders *)
(* and effects.  Nobody must compile, and abandoned compilers may hang.     *)
Fairness ==
  /\ \A r \in Calls : WF_vars(Compile(r)) /\ WF_vars(Succeed(r) \/ Fail(r))
  /\ WF_vars(Render) /\ WF_vars(CleanUp)

FairSpec == Spec /\ Fairness

-----------------------------------------------------------------------------
(* Properties *)

(* The page is up to date. *)
Settled == shown = next /\ ~cleanup.due

(* The viewer never holds on to a URL that has been revoked: whichever      *)
(* calls overlap and whatever URL each of them revokes, the URL of a page   *)
(* that is up to date is live.                                              *)
ShownUrlIsLive == (Settled /\ shown.url # Null) => shown.url \in live

(* App.tsx:110, "Revoke previous URL to prevent memory leaks".  No URL that *)
(* was shown is forgotten, although a call may revoke a URL of an earlier   *)
(* render than the last.  (One that was replaced before a render showed it  *)
(* is.)                                                                     *)
ShownUrlsAreRevoked == Settled => live \cap rendered \subseteq {shown.url}

(* A page that is up to date and waits for nothing shows how the last call  *)
(* to be answered ended: it does not say that it compiles, and a PDF is     *)
(* shown just when that call had one.                                       *)
PageAgrees ==
  (Settled /\ InFlight = {}) =>
    /\ shown.status # "compiling"
    /\ (shown.url # Null) <=> (shown.status = "success")

(* A PDF that is answered was compiled for the request it answers, although *)
(* requests overlap and compilers that were given up go on writing.         *)
PdfIsOfRequest ==
  \A r \in Calls : answer[r].kind = "pdf" =>
    answer[r].of = r

(* However compilers hang, fail or are missing, and however calls overlap,  *)
(* the page does not say for ever that it compiles.                         *)
EveryCompileEnds == shown.status = "compiling" ~> shown.status # "compiling"
=============================================================================

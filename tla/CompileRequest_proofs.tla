------------------------ MODULE CompileRequest_proofs ------------------------
(***************************************************************************)
(* Proofs about CompileRequest for any number of calls, overlapping calls  *)
(* and compilers: which URLs the page shows and revokes, what it says when *)
(* all calls have returned, and whose PDF the endpoint answers.            *)
(***************************************************************************)
EXTENDS CompileRequest, TLAPS

Urls     == Calls \cup {Null}
Displays == [status : {"idle", "compiling", "success", "error"},
             message : {"none", "compiling", "success", "error"},
             url : Urls]
Stages   == {"Unused", "Compiling", "Reading", "Answered", "Done"}

Done == {r \in Calls : stage[r] = "Done"}

PageType ==
  /\ shown \in Displays /\ next \in Displays
  /\ cleanup \in [due : BOOLEAN, url : Urls]
  /\ seen \in [Calls -> Urls]
  /\ stage \in [Calls -> Stages]

LEMMA NullIsNoCall == Null \notin Calls
  BY DEF Null, Calls

-----------------------------------------------------------------------------
(* The endpoint does not touch the page, and no call returns meanwhile. *)
EndpointStep ==
  \E r \in Calls :
    \/ Compile(r) \/ LoseConnection(r)
    \/ \E k \in 1 .. Compilers : AbandonedFinishes(r, k)

LEMMA EndpointKeepsPage ==
  ASSUME PageType, EndpointStep
  PROVE  /\ UNCHANGED <<page, seen>>
         /\ stage' \in [Calls -> Stages] /\ Done' = Done /\ InFlight' = InFlight
<1>1. PICK r \in Calls : \/ Compile(r) \/ LoseConnection(r)
                         \/ \E k \in 1 .. Compilers : AbandonedFinishes(r, k)
  BY DEF EndpointStep
<1>2. UNCHANGED <<page, seen>>
  BY <1>1, Zenon DEF Compile, RefuseRequest, CompilerFails, CompilerTimesOut, CompilerSucceeds, ReadPdf,
                     PdfIsMissing, AnswerPlaceholder, LoseConnection, AbandonedFinishes
<1>3. \/ stage' = stage
      \/ \E end \in {"Compiling", "Reading", "Answered"} :
           /\ stage[r] \in {"Compiling", "Reading", "Answered"}
           /\ stage' = [stage EXCEPT ![r] = end]
  BY <1>1 DEF Compile, RefuseRequest, CompilerFails, CompilerTimesOut, CompilerSucceeds, ReadPdf,
              PdfIsMissing, AnswerPlaceholder, LoseConnection, AbandonedFinishes, Moves
<1>4. /\ stage' \in [Calls -> Stages]
      /\ \A q \in Calls : stage'[q] = "Done" <=> stage[q] = "Done"
      /\ \A q \in Calls : stage'[q] \in {"Compiling", "Reading", "Answered"}
                            <=> stage[q] \in {"Compiling", "Reading", "Answered"}
  BY <1>3 DEF PageType, Stages
<1>5. Done' = Done /\ InFlight' = InFlight
  BY <1>4 DEF Done, InFlight
<1>6. QED
  BY <1>2, <1>4, <1>5

(* A call of handleCompile begins with what the page shows, or has shown. *)
LEMMA HandleCompileEffect ==
  ASSUME PageType, NEW r \in Calls, Click(r) \/ PressCtrlS(r)
  PROVE  /\ UNCHANGED <<shown, cleanup, live, rendered>>
         /\ next' = Display("compiling", "compiling", next.url)
         /\ next' \in Displays /\ next'.url = next.url
         /\ seen' \in [Calls -> Urls] /\ stage' \in [Calls -> Stages]
         /\ Done' = Done /\ r \in InFlight'
<1>1. PICK url \in Urls : HandleCompile(r, url)
  BY DEF Click, PressCtrlS, PageType, Displays
<1>2. /\ UNCHANGED <<shown, cleanup, live, rendered>>
      /\ next' = Display("compiling", "compiling", next.url)
      /\ seen' \in [Calls -> Urls]
      /\ stage[r] = "Unused" /\ stage' = [stage EXCEPT ![r] = "Compiling"]
  BY <1>1 DEF HandleCompile, Moves, PageType
<1>3. next' \in Displays /\ next'.url = next.url
  BY <1>2 DEF Display, Displays, PageType
<1>4. /\ stage' \in [Calls -> Stages] /\ stage'[r] = "Compiling"
      /\ \A q \in Calls : stage'[q] = "Done" <=> stage[q] = "Done"
  BY <1>2 DEF PageType, Stages
<1>5. Done' = Done /\ r \in InFlight'
  BY <1>4 DEF Done, InFlight
<1>6. QED
  BY <1>2, <1>3, <1>4, <1>5

(* A call that returns replaces the URL by its own or by none, and revokes  *)
(* the one that it saw.                                                     *)
LEMMA ReturnEffect ==
  ASSUME PageType, NEW r \in Calls, Succeed(r) \/ Fail(r)
  PROVE  /\ UNCHANGED <<shown, cleanup, rendered>>
         /\ stage[r] = "Answered" /\ r \notin Done
         /\ stage' \in [Calls -> Stages] /\ seen' \in [Calls -> Urls]
         /\ Done' = Done \cup {r}
         /\ next' \in Displays
         /\ \/ next'.url = r /\ next'.status = "success" /\ live' = (live \ {seen[r]}) \cup {r}
            \/ next'.url = Null /\ next'.status = "error" /\ live' = live \ {seen[r]}
<1>1. /\ stage[r] = "Answered" /\ stage' = [stage EXCEPT ![r] = "Done"]
      /\ seen' = [seen EXCEPT ![r] = Null]
      /\ UNCHANGED <<shown, cleanup, rendered>>
  BY DEF Succeed, Fail, Returns, Moves
<1>2. /\ r \notin Done /\ Done' = Done \cup {r}
      /\ stage' \in [Calls -> Stages] /\ seen' \in [Calls -> Urls]
  BY <1>1 DEF Done, PageType, Stages, Urls
<1>3. CASE Succeed(r)
  <2>1. next' = Display("success", "success", r) /\ live' = (live \ {seen[r]}) \cup {r}
    BY <1>3 DEF Succeed
  <2>2. QED
    BY <1>1, <1>2, <2>1 DEF Display, Displays, Urls
<1>4. CASE Fail(r)
  <2>1. next' = Display("error", "error", Null) /\ live' = live \ {seen[r]}
    BY <1>4 DEF Fail
  <2>2. QED
    BY <1>1, <1>2, <2>1 DEF Display, Displays, Urls
<1>5. QED
  BY <1>3, <1>4

-----------------------------------------------------------------------------
(* URLs.  The URL that is set is live.  The cleanup that is due goes by     *)
(* another one.  A URL the page has known belongs to a call that returned,  *)
(* so a call that returns brings a new one.  Of the URLs that were shown    *)
(* only the last is live, and one that the cleanup is about to revoke.      *)
NextUrlIsLive == next.url # Null => next.url \in live

CleanupIsOfAnotherUrl == cleanup.due /\ cleanup.url # Null => cleanup.url # next.url

KnownUrlsAreDone ==
  /\ {shown.url, next.url, cleanup.url} \subseteq Done \cup {Null}
  /\ rendered \subseteq Done

ShownUrlsAreRevokedSoon ==
  \A url \in live \cap rendered :
    url = shown.url \/ (cleanup.due /\ url = cleanup.url)

UrlInv ==
  /\ PageType
  /\ NextUrlIsLive
  /\ CleanupIsOfAnotherUrl
  /\ KnownUrlsAreDone
  /\ ShownUrlsAreRevokedSoon

LEMMA UrlInductive == UrlInv /\ [Next]_vars => UrlInv'
<1> SUFFICES ASSUME UrlInv, [Next]_vars
             PROVE  UrlInv'
  OBVIOUS
<1> USE DEF UrlInv, PageType, NextUrlIsLive, CleanupIsOfAnotherUrl, KnownUrlsAreDone,
            ShownUrlsAreRevokedSoon
<1>1. CASE EndpointStep
  BY <1>1, EndpointKeepsPage DEF page
<1>2. ASSUME NEW r \in Calls, Click(r) \/ PressCtrlS(r)
      PROVE  UrlInv'
  BY <1>2, HandleCompileEffect
<1>3. ASSUME NEW r \in Calls, Succeed(r) \/ Fail(r)
      PROVE  UrlInv'
  BY <1>3, ReturnEffect, NullIsNoCall
<1>4. ASSUME NEW r \in Calls, Fire(r)
      PROVE  UrlInv'
  <2>1. /\ UNCHANGED <<shown, cleanup, live, rendered, stage, seen>>
        /\ next' = [next EXCEPT !.message = "none"]
    BY <1>4 DEF Fire
  <2>2. next' \in Displays /\ next'.url = next.url
    BY <2>1 DEF Displays
  <2>3. Done' = Done
    BY <2>1 DEF Done
  <2>4. QED
    BY <2>1, <2>2, <2>3
<1>5. CASE Render
  <2>1. /\ UNCHANGED <<next, live, stage, seen>> /\ shown' = next /\ ~cleanup.due
        /\ rendered' = rendered \cup ({next.url} \ {Null})
        /\ \/ next.url = shown.url /\ cleanup' = NoCleanup
           \/ next.url # shown.url /\ cleanup' = [due |-> TRUE, url |-> shown.url]
    BY <1>5 DEF Render
  <2>2. Done' = Done
    BY <2>1 DEF Done
  <2>3. CASE next.url = shown.url /\ cleanup' = NoCleanup
    <3>1. cleanup' \in [due : BOOLEAN, url : Urls] /\ ~cleanup'.due /\ cleanup'.url = Null
      BY <2>3 DEF NoCleanup, Urls
    <3>2. QED
      BY <2>1, <2>2, <2>3, <3>1
  <2>4. CASE next.url # shown.url /\ cleanup' = [due |-> TRUE, url |-> shown.url]
    <3>1. cleanup' \in [due : BOOLEAN, url : Urls] /\ cleanup'.due /\ cleanup'.url = shown.url
      BY <2>4 DEF Displays
    <3>2. QED
      BY <2>1, <2>2, <2>4, <3>1
  <2>5. QED
    BY <2>1, <2>3, <2>4
<1>6. CASE CleanUp
  <2>1. /\ UNCHANGED <<shown, next, rendered, stage, seen>> /\ cleanup.due
        /\ live' = live \ {cleanup.url} /\ cleanup' = NoCleanup
    BY <1>6 DEF CleanUp
  <2>2. Done' = Done
    BY <2>1 DEF Done
  <2>3. cleanup' \in [due : BOOLEAN, url : Urls] /\ ~cleanup'.due /\ cleanup'.url = Null
    BY <2>1 DEF NoCleanup, Urls
  <2>4. QED
    BY <2>1, <2>2, <2>3
<1>7. CASE UNCHANGED vars
  <2>1. UNCHANGED <<shown, next, cleanup, live, rendered, stage, seen>>
    BY <1>7, Zenon DEF vars, page
  <2>2. Done' = Done
    BY <2>1 DEF Done
  <2>3. QED
    BY <2>1, <2>2
<1>8. QED
  BY <1>1, <1>2, <1>3, <1>4, <1>5, <1>6, <1>7 DEF Next, EndpointStep

THEOREM UrlInvCorrect == Spec => []UrlInv
<1>1. Init => UrlInv
  <2> SUFFICES ASSUME Init
               PROVE  UrlInv
    OBVIOUS
  <2>1. /\ shown = Display("idle", "none", Null) /\ next = shown /\ cleanup = NoCleanup
        /\ live = {} /\ rendered = {}
        /\ stage = [r \in Calls |-> "Unused"] /\ seen = [r \in Calls |-> Null]
    BY DEF Init
  <2>2. shown \in Displays /\ shown.url = Null
    BY <2>1 DEF Display, Displays, Urls
  <2>3. cleanup \in [due : BOOLEAN, url : Urls] /\ ~cleanup.due /\ cleanup.url = Null
    BY <2>1 DEF NoCleanup, Urls
  <2>4. PageType
    BY <2>1, <2>2, <2>3 DEF PageType, Stages, Urls
  <2>5. QED
    BY <2>1, <2>2, <2>3, <2>4 DEF UrlInv, NextUrlIsLive, CleanupIsOfAnotherUrl, KnownUrlsAreDone,
                                  ShownUrlsAreRevokedSoon
<1>2. QED
  BY <1>1, UrlInductive, PTL DEF Spec

(* Whatever calls overlap, a page that is up to date shows no URL that has  *)
(* been revoked.                                                            *)
THEOREM ShownUrlIsLiveCorrect == Spec => []ShownUrlIsLive
<1>1. UrlInv => ShownUrlIsLive
  BY DEF UrlInv, NextUrlIsLive, ShownUrlIsLive, Settled
<1>2. QED
  BY <1>1, UrlInvCorrect, PTL

(* ... and every other URL that was shown has been revoked. *)
THEOREM ShownUrlsAreRevokedCorrect == Spec => []ShownUrlsAreRevoked
<1>1. UrlInv => ShownUrlsAreRevoked
  BY DEF UrlInv, ShownUrlsAreRevokedSoon, ShownUrlsAreRevoked, Settled
<1>2. QED
  BY <1>1, UrlInvCorrect, PTL

-----------------------------------------------------------------------------
(* What the page says.  When no call is under way, the last to return has   *)
(* set status and URL together, and no call has begun since.                *)
NextAgrees ==
  InFlight = {} =>
    /\ next.status # "compiling"
    /\ (next.url # Null) <=> (next.status = "success")

PageInv == PageType /\ NextAgrees

LEMMA PageInductive == UrlInv' /\ PageInv /\ [Next]_vars => PageInv'
<1> SUFFICES ASSUME PageType', PageInv, [Next]_vars
             PROVE  NextAgrees'
  BY DEF UrlInv, PageInv
<1> USE DEF PageInv, NextAgrees
<1>1. CASE EndpointStep
  BY <1>1, EndpointKeepsPage DEF page
<1>2. ASSUME NEW r \in Calls, Click(r) \/ PressCtrlS(r)
      PROVE  NextAgrees'
  <2>1. r \in InFlight'
    BY <1>2, HandleCompileEffect
  <2>2. QED
    BY <2>1
<1>3. ASSUME NEW r \in Calls, Succeed(r) \/ Fail(r)
      PROVE  NextAgrees'
  BY <1>3, ReturnEffect, NullIsNoCall
<1>4. ASSUME NEW r \in Calls, Fire(r)
      PROVE  NextAgrees'
  <2>1. stage' = stage /\ next' = [next EXCEPT !.message = "none"]
    BY <1>4 DEF Fire
  <2>2. next'.url = next.url /\ next'.status = next.status
    BY <2>1 DEF PageType, Displays
  <2>3. QED
    BY <2>1, <2>2 DEF InFlight
<1>5. CASE Render \/ CleanUp \/ UNCHANGED vars
  <2>1. next' = next /\ stage' = stage
    BY <1>5, Zenon DEF Render, CleanUp, vars, page
  <2>2. QED
    BY <2>1 DEF InFlight
<1>6. QED
  BY <1>1, <1>2, <1>3, <1>4, <1>5 DEF Next, EndpointStep

(* However calls overlap and answers are reordered, once all of them have   *)
(* returned the page does not say that it compiles, and shows a PDF just    *)
(* when it says that it succeeded.                                          *)
THEOREM PageAgreesCorrect == Spec => []PageAgrees
<1>1. Init => NextAgrees
  BY DEF Init, NextAgrees, Display
<1>2. NextAgrees => PageAgrees
  BY DEF NextAgrees, PageAgrees, Settled
<1>3. UrlInv => PageType
  BY DEF UrlInv
<1>4. PageType /\ NextAgrees <=> PageInv
  BY DEF PageInv
<1>5. QED
  BY <1>1, <1>2, <1>3, <1>4, UrlInvCorrect, PageInductive, PTL DEF Spec

-----------------------------------------------------------------------------
(* Directories.  Whatever finishes in the directory of a request, also late *)
(* and after it was given up, was started for that request.                 *)
FileIsOfRequest ==
  /\ file \in [Calls -> Urls]
  /\ \A r \in Calls : file[r] \in {Null, r}

AnswerIsOfRequest == DOMAIN answer = Calls /\ PdfIsOfRequest

FileInv == FileIsOfRequest /\ AnswerIsOfRequest

LEMMA AnswerEffect ==
  ASSUME FileInv, NEW r \in Calls, NEW a, Answer(r, a), a.kind = "pdf" => a.of = r
  PROVE  FileInv'
<1>1. /\ file' = [file EXCEPT ![r] = Null]
      /\ answer' = [answer EXCEPT ![r] = a]
  BY DEF Answer, WorkDir
<1>2. QED
  BY <1>1 DEF FileInv, FileIsOfRequest, AnswerIsOfRequest, PdfIsOfRequest, Urls

LEMMA FileInductive == FileInv /\ [Next]_vars => FileInv'
<1> SUFFICES ASSUME FileInv, [Next]_vars
             PROVE  FileInv'
  OBVIOUS
<1> USE DEF FileInv, FileIsOfRequest, AnswerIsOfRequest, PdfIsOfRequest
<1>1. ASSUME NEW r \in Calls, RefuseRequest(r) \/ LoseConnection(r)
      PROVE  FileInv'
  <2>1. Answer(r, [kind |-> "error"])
    BY <1>1 DEF RefuseRequest, LoseConnection
  <2>2. QED
    BY <2>1, AnswerEffect
<1>2. ASSUME NEW r \in Calls, AnswerPlaceholder(r)
      PROVE  FileInv'
  <2>1. Answer(r, [kind |-> "placeholder"])
    BY <1>2 DEF AnswerPlaceholder
  <2>2. QED
    BY <2>1, AnswerEffect
<1>3. ASSUME NEW r \in Calls, ReadPdf(r)
      PROVE  FileInv'
  <2>1. /\ Answer(r, [kind |-> "pdf", of |-> file[r]])
        /\ file[r] = r
    BY <1>3 DEF ReadPdf, WorkDir
  <2>2. QED
    BY <2>1, AnswerEffect
<1>4. ASSUME NEW r \in Calls,
             CompilerSucceeds(r) \/ \E k \in 1 .. Compilers : AbandonedFinishes(r, k)
      PROVE  FileInv'
  <2>1. /\ answer' = answer
        /\ file' = [file EXCEPT ![r] = r] \/ file' = file
    BY <1>4 DEF CompilerSucceeds, AbandonedFinishes, WorkDir
  <2>2. QED
    BY <2>1 DEF Urls
<1>5. ASSUME NEW r \in Calls, Succeed(r) \/ Fail(r)
      PROVE  FileInv'
  <2>1. file' = file /\ answer' = [answer EXCEPT ![r] = NoAnswer]
    BY <1>5 DEF Succeed, Fail, Returns
  <2>2. QED
    BY <2>1 DEF NoAnswer
<1>6. ASSUME NEW r \in Calls,
             \/ CompilerFails(r) \/ CompilerTimesOut(r) \/ PdfIsMissing(r)
             \/ Click(r) \/ PressCtrlS(r) \/ Fire(r)
      PROVE  FileInv'
  <2>1. file' = file /\ answer' = answer
    BY <1>6 DEF CompilerFails, CompilerTimesOut, PdfIsMissing, Click, PressCtrlS, HandleCompile, Fire,
                endpoint
  <2>2. QED
    BY <2>1
<1>7. CASE Render \/ CleanUp \/ UNCHANGED vars
  <2>1. file' = file /\ answer' = answer
    BY <1>7 DEF Render, CleanUp, vars, endpoint
  <2>2. QED
    BY <2>1
<1>8. QED
  BY <1>1, <1>2, <1>3, <1>4, <1>5, <1>6, <1>7 DEF Next, Compile

(* However many requests and given-up compilers run at once, nobody is      *)
(* answered another request's PDF.                                          *)
THEOREM PdfIsOfRequestCorrect == Spec => []PdfIsOfRequest
<1>1. Init => FileInv
  BY DEF Init, FileInv, FileIsOfRequest, AnswerIsOfRequest, PdfIsOfRequest, NoAnswer, Urls
<1>2. FileInv => PdfIsOfRequest
  BY DEF FileInv, AnswerIsOfRequest
<1>3. QED
  BY <1>1, <1>2, FileInductive, PTL DEF Spec
=============================================================================

----------------------------- MODULE RelayPage -----------------------------
(***************************************************************************)
(* The page as a whole: useRelaySession decides who may see the radar, and  *)
(* App shows either the gate or the workspace, whose stream is the hook of  *)
(* RadarStream.  What was free there, when the hook is mounted and          *)
(* unmounted, is here the rendering of what useRelaySession has decided:    *)
(* React renders after the handler that changed the state, so that for a    *)
(* moment the stream of a session that has ended is still there.            *)
(*                                                                          *)
(* A request is out until its answer has been handled.  One that is         *)
(* replaced is aborted, and its answer no longer handled.                   *)
(***************************************************************************)
EXTENDS RadarStream

VARIABLES
    access,     \* access.status
    expired,    \* the session of access has passed its expiresAtMs
    probing,    \* the request of the effect that probes the session is out
    recheck,    \* probeVersion was raised and that effect has not yet run
    operation   \* of operationController: "none", "login" or "logout"

entry == <<access, expired, probing, recheck, operation>>
pageVars == <<vars, entry>>

AccessStates ==
    {"bypassed", "loading", "anonymous", "unavailable", "error", "authenticated"}

PageTypeOK ==
    /\ TypeOK
    /\ access \in AccessStates /\ {expired, probing, recheck} \subseteq BOOLEAN
    /\ operation \in {"none", "login", "logout"}

PageInit ==
    /\ Init
    /\ access = IF mode = "embedded" THEN "bypassed" ELSE "loading"
    /\ probing = (mode = "relay")
    /\ expired = FALSE /\ recheck = FALSE /\ operation = "none"
-----------------------------------------------------------------------------
(* The answer names a session, which may have expired on its way.           *)
Enter(answer) ==
    /\ access' = CASE answer = "session" -> "authenticated"
                   [] answer = "401" -> "anonymous"
                   [] answer = "404" -> "unavailable"
                   [] OTHER -> "error"
    /\ IF answer = "session" THEN expired' \in BOOLEAN ELSE UNCHANGED expired

(* The effect of probeVersion: it aborts the request of its last run.       *)
ProbeEffect ==
    /\ recheck /\ recheck' = FALSE
    /\ access' = "loading" /\ probing' = TRUE
    /\ UNCHANGED <<vars, expired, operation>>

AccessProbeEnds(answer) ==
    /\ probing /\ probing' = FALSE
    /\ Enter(answer)
    /\ UNCHANGED <<vars, recheck, operation>>

(* The gate shows the form only to who is known to have no session, and     *)
(* not while something is submitted.                                        *)
FormShown_Always == ~mounted /\ operation = "none"
FormShown == ~mounted /\ access = "anonymous" /\ operation = "none"

SubmitLogin ==
    /\ FormShown
    /\ operation' = "login"
    /\ UNCHANGED <<vars, access, expired, probing, recheck>>

LoginEnds(answer) ==
    /\ operation = "login" /\ operation' = "none"
    /\ Enter(IF answer = "failed" THEN "401" ELSE answer)
    /\ UNCHANGED <<vars, probing, recheck>>

(* The workspace has the button; the stream ends before the request does,   *)
(* and whether that fails or not changes only an error line.                *)
Leave_WhenAnswered == UNCHANGED access
Leave == access' = "anonymous"

Logout ==
    /\ mounted /\ mode = "relay" /\ operation = "none"
    /\ Leave /\ operation' = "logout"
    /\ UNCHANGED <<vars, expired, probing, recheck>>

LogoutEnds ==
    /\ operation = "logout" /\ operation' = "none"
    /\ UNCHANGED <<vars, access, expired, probing, recheck>>

CheckAgain ==
    /\ ~mounted /\ access = "error"
    /\ recheck' = TRUE
    /\ UNCHANGED <<vars, access, expired, probing, operation>>
-----------------------------------------------------------------------------
(* The clock, and the timer of the session's effect.                        *)
SessionExpires ==
    /\ access = "authenticated" /\ expired' = TRUE
    /\ UNCHANGED <<vars, access, probing, recheck, operation>>

ExpiryFires ==
    /\ access = "authenticated" /\ expired
    /\ access' = "anonymous"
    /\ UNCHANGED <<vars, expired, probing, recheck, operation>>

(* resume: a timer may have slept with the device.                          *)
ResumeAccess ==
    /\ access' = IF access = "authenticated" /\ expired THEN "anonymous" ELSE access
    /\ recheck' = (recheck \/ access = "error")
    /\ UNCHANGED <<expired, probing, operation>>
-----------------------------------------------------------------------------
(* The stream tells of a session that was refused: invalidate.              *)
Rejected == status # "disconnected" /\ status' = "disconnected"
Invalidate_Ignored == UNCHANGED access
Invalidate == access' = "anonymous"

StreamFollows ==
    /\ IF Rejected THEN Invalidate ELSE UNCHANGED access
    /\ UNCHANGED <<expired, probing, recheck, operation>>

StreamRuns ==
    /\ \/ \E c \in Sockets : SocketEvent(c)
       \/ ReconnectFires \/ WatchdogFires \/ StaleFires \/ FrameAges
       \/ NetChanges \/ Retry
    /\ StreamFollows

(* Both hooks listen to the window; a hidden page does not resume.          *)
PageNetEvent ==
    /\ NetEvent
    /\ \/ Head(netEvents) = "online" /\ ResumeAccess
       \/ UNCHANGED entry

PageResumes ==
    /\ Resume \/ (~mounted /\ UNCHANGED vars)
    /\ ResumeAccess

(* App: the gate, or the workspace with the stream.                         *)
Admitted == access \in {"bypassed", "authenticated"}
Render ==
    /\ IF Admitted THEN Mount ELSE Unmount
    /\ UNCHANGED entry
-----------------------------------------------------------------------------
Answered == {"401", "404", "failed", "session"}

PageNext ==
    \/ StreamRuns \/ PageNetEvent \/ PageResumes \/ Render
    \/ ProbeEffect \/ SubmitLogin \/ Logout \/ LogoutEnds \/ CheckAgain
    \/ SessionExpires \/ ExpiryFires
    \/ \E answer \in Answered : AccessProbeEnds(answer) \/ LoginEnds(answer)

PageSpec == PageInit /\ [][PageNext]_pageVars

(* The browser is as fair as in RadarStream, React renders, and a timer     *)
(* that is armed fires.                                                     *)
FairPage ==
    PageSpec /\ BrowserFairness /\ WF_pageVars(Render) /\ WF_pageVars(ExpiryFires)
-----------------------------------------------------------------------------
(* One decision at a time: while a probe of the session is out nobody can   *)
(* log in, and while a login or logout is under way there is no session     *)
(* and no probe, so that no answer overwrites a newer one.                  *)
OneDecision ==
    /\ probing => access = "loading" /\ operation = "none" /\ ~mounted
    /\ operation # "none" => access = "anonymous" /\ ~probing /\ ~recheck

(* A session that was entered ends only by its expiry, by a logout or by a  *)
(* refusal of its stream.                                                   *)
SessionStays ==
    [][access = "authenticated" /\ access' # "authenticated"
         => expired \/ Rejected \/ (operation = "none" /\ operation' = "logout")]_pageVars

(* Whoever is sent back to the login has no connection left after a while,  *)
(* also none that was on its way.                                           *)
SignedOut ==
    access = "anonymous" ~> (access # "anonymous" \/ \A c \in Sockets : ready[c] = "closed")

(* The page mounts and unmounts the stream as RadarStream expects of its    *)
(* host; that the browser is fair is assumed in both.                       *)
HostIsFair == Spec /\ WF_vars(status = "disconnected" /\ Unmount)

(* Who may see the radar is decided once, and the stream follows.           *)
AccessFollows == []PageTypeOK /\ []OneDecision /\ SessionStays /\ SignedOut /\ HostIsFair
=============================================================================

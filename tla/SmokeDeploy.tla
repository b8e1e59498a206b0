---------------------------- MODULE SmokeDeploy ----------------------------
(***************************************************************************)
(* scripts/smoke-deploy.mjs: each deployed page is loaded in a browser,    *)
(* with retries, and watched until it has settled.  The browser reports    *)
(* what goes wrong at any time; what is tolerated is left out.             *)
(***************************************************************************)
EXTENDS Naturals, SmokeDeployState

CONSTANTS
  Urls,      \* how many pages
  Retries,   \* navigation attempts
  TlsWait,   \* how long a handshake that fails is retried
  TlsPause,  \* the wait after one
  Lasts      \* how long an attempt may last

vars == <<looking, url, attempt, loaded, elapsed, problems, broken, failing>>

SmokeTypeOK ==
  /\ looking \in {"navigating", "settling", "looking", "judging", "done", "dead"}
  /\ url \in 1..Urls /\ {attempt, elapsed} \subseteq Nat
  /\ {loaded, problems, broken} \subseteq BOOLEAN /\ failing \subseteq 1..Urls

Init ==
  /\ looking = "navigating" /\ url = 1 /\ attempt = 0 /\ loaded = FALSE /\ elapsed = 0
  /\ problems = FALSE /\ broken = FALSE /\ failing = {}

(* Whatever its status; the response handler notes one of 400 and more.     *)
Loads ==
  /\ looking = "navigating" /\ looking' = "settling"
  /\ attempt' = attempt + 1
  /\ loaded' = TRUE /\ broken' \in BOOLEAN
  /\ problems' = (problems \/ broken')
  /\ UNCHANGED <<url, elapsed, failing>>

(* An attempt fails; the failed request may be noted with it. *)
Attempted ==
  /\ looking = "navigating"
  /\ attempt' = attempt + 1
  /\ problems' \in {problems, TRUE}
  /\ UNCHANGED <<looking, url, loaded, broken, failing>>

(* The time that has passed is read after the attempt. *)
HandshakeFails ==
  /\ Attempted
  /\ \E t \in Lasts : elapsed + t < TlsWait /\ elapsed' = elapsed + t + TlsPause

(* For another reason, or when the wait for the handshake is over; the wait *)
(* grows with the attempts.                                                 *)
AttemptFails ==
  /\ attempt + 1 < Retries
  /\ Attempted
  /\ \E t \in Lasts : elapsed' = elapsed + t + attempt'

GivesUp ==
  /\ attempt + 1 >= Retries
  /\ looking = "navigating" /\ looking' = "judging"
  /\ attempt' = attempt + 1
  /\ problems' = TRUE
  /\ UNCHANGED <<url, loaded, elapsed, broken, failing>>

(* An exception, an error on the console or a subresource that fails. *)
PageErrs ==
  /\ looking \in {"settling", "looking", "judging"} /\ loaded
  /\ problems' = TRUE /\ broken' = TRUE
  /\ UNCHANGED <<looking, url, attempt, loaded, elapsed, failing>>

Settles ==
  /\ looking = "settling" /\ looking' = "looking"
  /\ UNCHANGED <<url, attempt, loaded, elapsed, problems, broken, failing>>

\* Mutant of Look: a page that renders nothing is only noted in the log.
LookAside ==
  /\ looking = "looking" /\ looking' = "judging"
  /\ broken' \in {broken, TRUE}
  /\ UNCHANGED <<url, attempt, loaded, elapsed, problems, failing>>

(* The page rendered something, or it is one more problem. *)
Look ==
  /\ looking = "looking" /\ looking' = "judging"
  /\ broken' \in {broken, TRUE}
  /\ problems' = (problems \/ (broken' # broken))
  /\ UNCHANGED <<url, attempt, loaded, elapsed, failing>>

Judge ==
  /\ looking = "judging"
  /\ failing' = IF problems THEN failing \cup {url} ELSE failing
  /\ IF url < Urls
     THEN /\ looking' = "navigating" /\ url' = url + 1
          /\ attempt' = 0 /\ loaded' = FALSE /\ elapsed' = 0
          /\ problems' = FALSE /\ broken' = FALSE
     ELSE looking' = "done" /\ UNCHANGED <<url, attempt, loaded, elapsed, problems, broken>>

(* The browser is gone: the script ends with an error of its own. *)
Dies ==
  /\ looking \notin {"done", "dead"} /\ looking' = "dead"
  /\ UNCHANGED <<url, attempt, loaded, elapsed, problems, broken, failing>>

Next ==
  \/ Loads \/ HandshakeFails \/ AttemptFails \/ GivesUp \/ PageErrs
  \/ Settles \/ Look \/ Judge \/ Dies

Spec == Init /\ [][Next]_vars
=============================================================================

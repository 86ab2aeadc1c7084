------------------------------- MODULE Updates -------------------------------
(***************************************************************************)
(* The Update button of a Docker deployment: the app's Updater             *)
(* (updater/updater.py), the updater service (services/updater/updater.py) *)
(* with its one lock, and the two stages of deploy/update-fast.sh it runs. *)
(* Versions are numbers; the registry and main only move forward.          *)
(***************************************************************************)
EXTENDS Integers

CONSTANTS
  MaxReleases     \* versions published in a behaviour

VARIABLES
  box,      \* what is published, checked out, pulled and running
  presses,  \* browser -> its request, and what the page was told
  lock,     \* _update_lock: the request holding it, 0 when free
  applying  \* the background thread of the second stage

updateVars == <<box, presses, lock, applying>>

Pressers == {1, 2}

NoPress == [at |-> "idle", told |-> "none", before |-> [commit |-> 0, image |-> 0]]

UpdateInit ==
  /\ box = [head |-> 0, checkout |-> 0, latest |-> 0, tag |-> 0, running |-> 0]
  /\ presses = [b \in Pressers |-> NoPress]
  /\ lock = 0 /\ applying = FALSE

Press(b, pc) == presses' = [presses EXCEPT ![b].at = pc]

Told(b, answer) ==
  presses' = [presses EXCEPT ![b] = [NoPress EXCEPT !.told = answer]]

-----------------------------------------------------------------------------
(* A commit reaches main; then CI publishes its image. *)

Publishes ==
  /\ \/ box.head < MaxReleases /\ box' = [box EXCEPT !.head = @ + 1]
     \/ box.latest < box.head /\ box' = [box EXCEPT !.latest = @ + 1]
  /\ UNCHANGED <<presses, lock, applying>>

(* do_POST: the bearer token and the mounted checkout, then the lock; the app
   reports a refusal in its own words. *)
Asks(b) ==
  /\ presses[b].at = "idle"
  /\ \/ Told(b, "refused") /\ UNCHANGED lock
     \/ lock # 0 /\ Told(b, "busy") /\ UNCHANGED lock
     \/ /\ lock = 0 /\ lock' = b
        /\ presses' = [presses EXCEPT ![b] = [NoPress EXCEPT !.at = "git",
             !.before = [commit |-> box.checkout, image |-> box.tag]]]
  /\ UNCHANGED <<box, applying>>

(* The pull stage: the checkout, then the image; each may fail. *)
GitPulls(b) ==
  /\ presses[b].at = "git" /\ Press(b, "image")
  /\ box' = [box EXCEPT !.checkout = box.head] /\ UNCHANGED <<lock, applying>>

ImagePulls(b) ==
  /\ presses[b].at = "image" /\ Press(b, "answer")
  /\ box' = [box EXCEPT !.tag = box.latest] /\ UNCHANGED <<lock, applying>>

PullFails(b) ==
  /\ presses[b].at \in {"git", "image"} /\ Told(b, "failed") /\ lock' = 0
  /\ UNCHANGED <<box, applying>>

(* _pull: nothing to apply has to be provable. *)
Settled(b) ==
  box.checkout = presses[b].before.commit /\ box.tag = presses[b].before.image

ReleasedEarly == lock' = 0

HeldForApply == UNCHANGED lock

(* The answer goes out first; the lock then goes with the apply thread.  The
   script may be unable to name the image, which is not a "no". *)
Answers(b) ==
  /\ presses[b].at = "answer"
  /\ \/ Settled(b) /\ Told(b, "up to date") /\ lock' = 0 /\ UNCHANGED applying
     \/ Told(b, "applying") /\ applying' = TRUE /\ HeldForApply
  /\ UNCHANGED box

(* The page that asked has left, or the app timed out: the service goes on. *)
Leaves(b) ==
  /\ presses[b].at = "answer" /\ ~Settled(b)
  /\ presses' = [presses EXCEPT ![b] = [NoPress EXCEPT !.told = "unknown"]]
  /\ applying' = TRUE /\ UNCHANGED <<box, lock>>

(* _apply_and_release: the app container is recreated onto the pulled image,
   and with it goes whoever was waiting for an answer. *)
Applies ==
  /\ applying /\ applying' = FALSE /\ lock' = 0
  /\ box' = [box EXCEPT !.running = box.tag]
  /\ presses' = [b \in Pressers |-> [presses[b] EXCEPT !.told = "gone"]]

(* The recreate fails: what was pulled stays pulled, and is not run. *)
ApplyFails ==
  /\ applying /\ applying' = FALSE /\ lock' = 0
  /\ UNCHANGED <<box, presses>>

UpdateNext ==
  \/ Publishes \/ Applies \/ ApplyFails
  \/ \E b \in Pressers : Asks(b) \/ GitPulls(b) \/ ImagePulls(b) \/ PullFails(b) \/ Answers(b) \/ Leaves(b)
=============================================================================

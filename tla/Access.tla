-------------------------------- MODULE Access --------------------------------
(***************************************************************************)
(* Who may use an instance: first run and its claim, login, the session    *)
(* cookie and the shared backoff (web/auth.py, web/setup.py,               *)
(* web/first_run.py, routes/auth.py, routes/setup.py, secrets.py), with    *)
(* crashes, failed writes and restarts.  Browsers are the clients, MaxKeys *)
(* bounds the signing keys minted and MaxAttempts is the limiter's.        *)
(***************************************************************************)
EXTENDS Integers

CONSTANTS Browsers, Passwords, MaxAttempts, MaxKeys

VARIABLES
  disk,     \* the secret store's file: password, setup code, signing key
  live,     \* the process and its environment
  browser,  \* per client: its cookie, and the password it last proved to know
  tries,    \* the limiter: failures counted, and those made since it last forgot
  reply     \* the last guarded request: let in, and whether its sender knew the password

accessVars == <<disk, live, browser, tries, reply>>

None == "none"
NoCookie == [pwd |-> None, key |-> 0]

AccessInit ==
  /\ disk = [password |-> None, code |-> FALSE, key |-> 0]
  /\ live \in [up : {FALSE}, env : Passwords \cup {None}, password : {None},
               firstRun : BOOLEAN, key : {0}, minted : {0}]
  /\ browser = [b \in Browsers |-> [cookie |-> NoCookie, proved |-> None]]
  /\ tries = [b \in Browsers |-> [count |-> 0, made |-> 0]]
  /\ reply = [entered |-> FALSE, knew |-> FALSE]

SetupRequired(password) == live.firstRun /\ password = None

(* ensure_setup_code: minted or reused while a claim is due, else retired. *)
CodeKept(password) == SetupRequired(password)

(* build_state: ensure_jwt_secret, ensure_auth_password, announce_setup_code. *)
Boots ==
  /\ ~live.up
  /\ disk.key = 0 => live.minted < MaxKeys
  /\ LET password == IF live.env # None THEN live.env ELSE disk.password
         minted == IF disk.key = 0 THEN live.minted + 1 ELSE live.minted
         key == IF disk.key = 0 THEN minted ELSE disk.key
     IN /\ live' = [live EXCEPT !.up = TRUE, !.password = password, !.key = key, !.minted = minted]
        /\ disk' = [disk EXCEPT !.key = key, !.code = CodeKept(password)]
  /\ tries' = [b \in Browsers |-> [count |-> 0, made |-> 0]]
  /\ UNCHANGED <<browser, reply>>

(* The process ends; the operator may change its environment. *)
Ends ==
  /\ live.up
  /\ \E env \in Passwords \cup {None} :
       live' = [live EXCEPT !.up = FALSE, !.password = None, !.key = 0, !.env = env]
  /\ UNCHANGED <<disk, browser, tries, reply>>

Allowed(b) == tries[b].count < MaxAttempts

Fails(b) == tries' = [tries EXCEPT ![b].count = @ + 1, ![b].made = @ + 1]
Succeeds(b) == tries' = [tries EXCEPT ![b].count = 0, ![b].made = 0]

(* lockout_seconds after the failure that last touched the entry. *)
WindowPasses(b) ==
  /\ tries[b].count > 0
  /\ Succeeds(b)
  /\ UNCHANGED <<disk, live, browser, reply>>

SignIn(b, password) ==
  browser' = [browser EXCEPT ![b] = [cookie |-> [pwd |-> password, key |-> live.key],
                                     proved |-> password]]

(* claim_instance: stored, then live, then the code retired; each write may
   fail or be the last thing the process does. *)
ClaimSteps == {"store fails", "dies stored", "delete fails", "dies live", "done"}
LiveBefore(how) == how \in {"store fails", "delete fails", "done"}
LiveAfter(how) == how \in {"delete fails", "done"}

Claimed(b, password, how) ==
  /\ disk' = [disk EXCEPT !.password = IF how = "store fails" THEN @ ELSE password,
                          !.code = IF how = "done" THEN FALSE ELSE @]
  /\ LET dies == how \in {"dies stored", "dies live"} IN
     live' = [live EXCEPT !.up = ~dies, !.key = IF dies THEN 0 ELSE @,
                          !.password = CASE dies -> None [] LiveAfter(how) -> password
                                         [] OTHER -> @]
  /\ IF how = "done" THEN SignIn(b, password) ELSE UNCHANGED browser

(* POST /api/setup/claim, past the 409 of a claimed instance and the 429. *)
ClaimAllowed(b) == Allowed(b)

Claims(b) ==
  /\ live.up /\ SetupRequired(live.password) /\ ClaimAllowed(b)
  /\ \/ Fails(b) /\ UNCHANGED <<disk, live, browser>>             \* a wrong code
     \/ /\ disk.code
        /\ \E password \in Passwords, how \in ClaimSteps : Claimed(b, password, how)
        /\ Succeeds(b)
  /\ UNCHANGED reply

(* POST /api/auth/login, which FirstRunGate refuses while unclaimed. *)
LogsIn(b) ==
  /\ live.up /\ ~SetupRequired(live.password) /\ Allowed(b)
  /\ \/ Fails(b) /\ UNCHANGED browser
     \/ live.password # None /\ Succeeds(b) /\ SignIn(b, live.password)
  /\ UNCHANGED <<disk, live, reply>>

LogsOut(b) ==
  /\ live.up /\ ~SetupRequired(live.password)
  /\ browser[b].cookie # NoCookie
  /\ browser' = [browser EXCEPT ![b].cookie = NoCookie]
  /\ UNCHANGED <<disk, live, tries, reply>>

(* verify_token: the signature, and the fingerprint of the password in force. *)
VerifiedToken(cookie) == cookie.key = live.key /\ cookie.pwd = live.password

(* Any route behind require_auth, behind the gate. *)
Enters(b) ==
  /\ live.up
  /\ reply' = [knew |-> live.password \in {None, browser[b].proved},
               entered |-> /\ ~SetupRequired(live.password)
                           /\ live.password = None \/ VerifiedToken(browser[b].cookie)]
  /\ UNCHANGED <<disk, live, browser, tries>>

AccessNext ==
  \/ Boots \/ Ends
  \/ \E b \in Browsers :
       Claims(b) \/ LogsIn(b) \/ LogsOut(b) \/ Enters(b) \/ WindowPasses(b)
=============================================================================

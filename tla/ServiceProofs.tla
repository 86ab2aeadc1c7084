---------------------------- MODULE ServiceProofs ----------------------------
(***************************************************************************)
(* Theorems about the parts around a session: one update at a time, the    *)
(* door of an instance, the timeline of the browser's microphone, the      *)
(* books of video generation, the grading of answers and the wholeness of  *)
(* speech, each for every value of its constants.  A step of one machine   *)
(* leaves `machine` as it is, so a promise of one is disturbed by no other *)
(* (what the cutting of audio does is proved in SpeechProofs).             *)
(***************************************************************************)
EXTENDS ServiceProps, TLAPS

SP == INSTANCE SpeechProofs

-----------------------------------------------------------------------------
(* Every step of the sum is a step of the machine the behaviour is of. *)
LEMMA MachineStays == [Next]_vars => machine' = machine
  BY DEF Next, vars, ConnectorNext, StreamNext, HandshakeStep, CallStep, BatchStep, RoomNext

-----------------------------------------------------------------------------
(* One update at a time.  What keeps a press from being served during a
   recreate is that the recreate has the lock: UpdateInv adds it. *)
PressesTyped ==
  DOMAIN presses = UP!Pressers /\ \A b \in UP!Pressers : "at" \in DOMAIN presses[b]

UpdateInv ==
  machine = "update" =>
    PressesTyped /\ OneUpdate /\ applying \in BOOLEAN /\ (applying => lock # 0)

LEMMA UpdateInitially == Init => UpdateInv
  <1> SUFFICES ASSUME Init, machine = "update" PROVE PressesTyped /\ OneUpdate /\ applying \in BOOLEAN /\ (applying => lock # 0)
    BY DEF UpdateInv
  <1>1. UP!UpdateInit
    BY DEF Init, RoomInit, ConnectorInit, StreamInit
  <1>2. PressesTyped
    BY <1>1 DEF UP!UpdateInit, PressesTyped, UP!NoPress
  <1>3. OneUpdate /\ applying \in BOOLEAN /\ (applying => lock # 0)
    BY <1>1 DEF UP!UpdateInit, OneUpdate, UP!NoPress
  <1> QED BY <1>2, <1>3

LEMMA UpdateStep == UpdateInv /\ [Next]_vars => UpdateInv'
  <1> SUFFICES ASSUME UpdateInv, [Next]_vars, machine = "update" PROVE UpdateInv'
    BY MachineStays DEF UpdateInv
  <1>0. PressesTyped /\ OneUpdate /\ applying \in BOOLEAN /\ (applying => lock # 0) /\ machine' = machine
    BY MachineStays DEF UpdateInv
  <1>1. UP!UpdateNext \/ UNCHANGED updateVars
    BY DEF Next, vars, ConnectorNext, StreamNext, HandshakeStep, CallStep, BatchStep, RoomNext
  <1>2. CASE UNCHANGED updateVars
    BY <1>0, <1>2 DEF UpdateInv, PressesTyped, OneUpdate, updateVars
  <1> USE <1>0 DEF UpdateInv, PressesTyped, OneUpdate
  <1>p. 0 \notin UP!Pressers
    BY DEF UP!Pressers
  <1>3. CASE UP!Publishes
    BY <1>3 DEF UP!Publishes
  <1>4. CASE UP!Applies
    BY <1>4 DEF UP!Applies
  <1>5. CASE UP!ApplyFails
    BY <1>5 DEF UP!ApplyFails
  <1>6. ASSUME NEW b \in UP!Pressers,
               UP!Asks(b) \/ UP!GitPulls(b) \/ UP!ImagePulls(b) \/ UP!PullFails(b) \/ UP!Answers(b) \/ UP!Leaves(b)
        PROVE UpdateInv'
    <2> USE DEF UP!Told, UP!Press, UP!NoPress
    <2>1. CASE UP!Asks(b)
      <3>1. CASE UP!Told(b, "refused") /\ UNCHANGED lock
        BY <2>1, <3>1 DEF UP!Asks
      <3>2. CASE lock # 0 /\ UP!Told(b, "busy") /\ UNCHANGED lock
        BY <2>1, <3>2 DEF UP!Asks
      <3>3. CASE /\ lock = 0 /\ lock' = b
                 /\ presses' = [presses EXCEPT ![b] = [UP!NoPress EXCEPT !.at = "git",
                      !.before = [commit |-> box.checkout, image |-> box.tag]]]
        <4>1. ~applying /\ ~applying' /\ \A c \in UP!Pressers : presses[c].at = "idle"
          BY <2>1, <3>3, <1>p DEF UP!Asks
        <4>2. DOMAIN presses' = UP!Pressers /\ \A c \in UP!Pressers \ {b} : presses'[c] = presses[c]
          BY <3>3
        <4>3. "at" \in DOMAIN presses'[b]
          BY <3>3, <1>6
        <4> QED BY <2>1, <3>3, <4>1, <4>2, <4>3 DEF UP!Asks
      <3> QED BY <2>1, <3>1, <3>2, <3>3 DEF UP!Asks
    <2>2. CASE UP!GitPulls(b)
      BY <2>2 DEF UP!GitPulls
    <2>3. CASE UP!ImagePulls(b)
      BY <2>3 DEF UP!ImagePulls
    <2>4. CASE UP!PullFails(b)
      BY <2>4 DEF UP!PullFails
    <2>5. CASE UP!Answers(b)
      <3>1. CASE UP!Settled(b) /\ UP!Told(b, "up to date") /\ lock' = 0 /\ UNCHANGED applying
        BY <2>5, <3>1, <1>6 DEF UP!Answers
      <3>2. CASE UP!Told(b, "applying") /\ applying' = TRUE /\ UNCHANGED lock
        BY <2>5, <3>2, <1>6, <1>p DEF UP!Answers
      <3> QED BY <2>5, <3>1, <3>2 DEF UP!Answers, UP!HeldForApply
    <2>6. CASE UP!Leaves(b)
      BY <2>6, <1>p DEF UP!Leaves
    <2> QED BY <1>6, <2>1, <2>2, <2>3, <2>4, <2>5, <2>6
  <1> QED BY <1>1, <1>2, <1>3, <1>4, <1>5, <1>6 DEF UP!UpdateNext

(* One update at a time, and none while a recreate is under way. *)
THEOREM OneUpdateAlways == Spec => []OneUpdate
  <1>1. UpdateInv => OneUpdate
    BY DEF UpdateInv, OneUpdate
  <1> QED BY UpdateInitially, UpdateStep, <1>1, PTL DEF Spec

-----------------------------------------------------------------------------
(* The door.  A cookie is of the password its browser last proved, and what
   the limiter counts are the guesses it let through. *)
AccessShape ==
  /\ DOMAIN disk = {"password", "code", "key"} /\ disk.code \in BOOLEAN
  /\ DOMAIN live = {"up", "env", "password", "firstRun", "key", "minted"}
  /\ live.up \in BOOLEAN /\ live.firstRun \in BOOLEAN
  /\ DOMAIN browser = Browsers
  /\ \A b \in Browsers : DOMAIN browser[b] = {"cookie", "proved"}
  /\ DOMAIN tries = Browsers
  /\ \A b \in Browsers : DOMAIN tries[b] = {"count", "made"}

CookiesProved == \A b \in Browsers : browser[b].cookie.pwd \in {AC!None, browser[b].proved}

GuessesCounted ==
  \A b \in Browsers :
    tries[b].count \in Nat /\ tries[b].made = tries[b].count /\ tries[b].made <= MaxAttempts

PasswordFound ==
  /\ live.up /\ live.password # AC!None => live.password \in {live.env, disk.password}
  /\ live.up /\ AC!SetupRequired(live.password) => disk.code

AccessInv ==
  machine = "access" =>
    /\ AccessShape /\ CookiesProved /\ GuessesCounted /\ PasswordFound
    /\ reply.entered => reply.knew

LEMMA AccessInitially == Init => AccessInv
  <1> SUFFICES ASSUME Init, machine = "access"
               PROVE  /\ AccessShape /\ CookiesProved /\ GuessesCounted /\ PasswordFound
                      /\ reply.entered => reply.knew
    BY DEF AccessInv
  <1>1. AC!AccessInit
    BY DEF Init, RoomInit, ConnectorInit, StreamInit
  <1> USE <1>1 DEF AC!AccessInit
  <1>2. AccessShape
    BY DEF AccessShape
  <1>3. CookiesProved
    BY DEF CookiesProved, AC!NoCookie
  <1>4. GuessesCounted
    BY DoorAssumption DEF GuessesCounted
  <1>5. PasswordFound /\ (reply.entered => reply.knew)
    BY DEF PasswordFound
  <1> QED BY <1>2, <1>3, <1>4, <1>5

LEMMA AccessStep == AccessInv /\ [Next]_vars => AccessInv'
  <1> SUFFICES ASSUME AccessInv, [Next]_vars, machine = "access" PROVE AccessInv'
    BY MachineStays DEF AccessInv
  <1>0. /\ AccessShape /\ CookiesProved /\ GuessesCounted /\ PasswordFound
        /\ reply.entered => reply.knew
    BY DEF AccessInv
  <1>1. AC!AccessNext \/ UNCHANGED accessVars
    BY DEF Next, vars, ConnectorNext, StreamNext, HandshakeStep, CallStep, BatchStep, RoomNext
  <1>s. ASSUME AccessShape', CookiesProved', GuessesCounted', PasswordFound',
               reply'.entered => reply'.knew
        PROVE  AccessInv'
    BY <1>s DEF AccessInv
  <1>2. CASE UNCHANGED accessVars
    BY <1>0, <1>2, <1>s
       DEF accessVars, AccessShape, CookiesProved, GuessesCounted, PasswordFound, AC!SetupRequired
  <1>3. CASE AC!Boots
    <2> USE <1>3, <1>0 DEF AC!Boots
    <2>1. AccessShape'
      BY DEF AccessShape, AC!CodeKept, AC!SetupRequired
    <2>2. CookiesProved'
      BY DEF CookiesProved
    <2>3. GuessesCounted'
      BY DoorAssumption DEF GuessesCounted
    <2>4. PasswordFound'
      BY DEF PasswordFound, AccessShape, AC!CodeKept, AC!SetupRequired
    <2> QED BY <2>1, <2>2, <2>3, <2>4, <1>s
  <1>4. CASE AC!Ends
    <2> USE <1>4, <1>0 DEF AC!Ends
    <2>1. AccessShape' /\ PasswordFound'
      BY DEF AccessShape, PasswordFound
    <2>2. CookiesProved' /\ GuessesCounted'
      BY DEF CookiesProved, GuessesCounted
    <2> QED BY <2>1, <2>2, <1>s
  <1>5. ASSUME NEW b \in Browsers,
               AC!Claims(b) \/ AC!LogsIn(b) \/ AC!LogsOut(b) \/ AC!Enters(b) \/ AC!WindowPasses(b)
        PROVE  AccessInv'
    <2>f. ASSUME AC!Fails(b), AC!Allowed(b)
          PROVE  GuessesCounted' /\ DOMAIN tries' = Browsers
                 /\ \A c \in Browsers : DOMAIN tries'[c] = {"count", "made"}
      BY <2>f, <1>0, DoorAssumption DEF AC!Fails, AC!Allowed, GuessesCounted, AccessShape
    <2>w. ASSUME AC!Succeeds(b)
          PROVE  GuessesCounted' /\ DOMAIN tries' = Browsers
                 /\ \A c \in Browsers : DOMAIN tries'[c] = {"count", "made"}
      BY <2>w, <1>0, DoorAssumption DEF AC!Succeeds, GuessesCounted, AccessShape
    <2>i. ASSUME NEW password, AC!SignIn(b, password)
          PROVE  CookiesProved' /\ DOMAIN browser' = Browsers
                 /\ \A c \in Browsers : DOMAIN browser'[c] = {"cookie", "proved"}
      BY <2>i, <1>0 DEF AC!SignIn, CookiesProved, AccessShape
    <2>1. CASE AC!Claims(b)
      <3>1. CASE AC!Fails(b) /\ UNCHANGED <<disk, live, browser>>
        BY <3>1, <2>1, <2>f, <1>0, <1>s
           DEF AC!Claims, AC!ClaimAllowed, AccessShape, CookiesProved, PasswordFound, AC!SetupRequired
      <3>2. ASSUME NEW password \in Passwords, NEW how \in AC!ClaimSteps,
                   AC!Claimed(b, password, how), AC!Succeeds(b)
            PROVE  AccessInv'
        <4> USE <2>1, <3>2, <1>0 DEF AC!Claims
        <4>1. AccessShape'
          BY <2>w, <2>i DEF AC!Claimed, AccessShape
        <4>2. CookiesProved'
          BY <2>i DEF AC!Claimed, CookiesProved
        <4>3. PasswordFound'
          BY DoorAssumption DEF AC!Claimed, AC!LiveAfter, AC!ClaimSteps, AC!None, AC!SetupRequired,
                                PasswordFound, AccessShape
        <4> QED BY <4>1, <4>2, <4>3, <2>w, <1>s
      <3> QED BY <2>1, <3>1, <3>2 DEF AC!Claims
    <2>2. CASE AC!LogsIn(b)
      <3>1. CASE AC!Fails(b) /\ UNCHANGED browser
        BY <3>1, <2>2, <2>f, <1>0, <1>s
           DEF AC!LogsIn, AccessShape, CookiesProved, PasswordFound, AC!SetupRequired
      <3>2. CASE AC!Succeeds(b) /\ AC!SignIn(b, live.password)
        BY <3>2, <2>2, <2>w, <2>i, <1>0, <1>s
           DEF AC!LogsIn, AccessShape, PasswordFound, AC!SetupRequired
      <3> QED BY <2>2, <3>1, <3>2 DEF AC!LogsIn
    <2>3. CASE AC!LogsOut(b)
      <3>1. CookiesProved' /\ AccessShape'
        BY <2>3, <1>0 DEF AC!LogsOut, AC!NoCookie, CookiesProved, AccessShape
      <3> QED BY <3>1, <2>3, <1>0, <1>s DEF AC!LogsOut, GuessesCounted, PasswordFound, AC!SetupRequired
    <2>4. CASE AC!Enters(b)
      <3>1. reply'.entered => reply'.knew
        BY <2>4, <1>0 DEF AC!Enters, AC!VerifiedToken, CookiesProved
      <3> QED BY <3>1, <2>4, <1>0, <1>s
              DEF AC!Enters, AccessShape, CookiesProved, GuessesCounted, PasswordFound, AC!SetupRequired
    <2>5. CASE AC!WindowPasses(b)
      BY <2>5, <2>w, <1>0, <1>s
         DEF AC!WindowPasses, AccessShape, CookiesProved, PasswordFound, AC!SetupRequired
    <2> QED BY <1>5, <2>1, <2>2, <2>3, <2>4, <2>5
  <1> QED BY <1>1, <1>2, <1>3, <1>4, <1>5 DEF AC!AccessNext

(* A password in force is one a restart finds again, an unclaimed instance
   can be claimed, whoever is let in knew the password, guesses are bounded. *)
THEOREM DoorAlwaysHolds == Spec => []DoorHolds
  <1>1. AccessInv => DoorHolds
    BY DEF AccessInv, DoorHolds, PasswordFound, GuessesCounted
  <1> QED BY AccessInitially, AccessStep, <1>1, PTL DEF Spec

-----------------------------------------------------------------------------
(* The browser's microphone.  What is fed or made up is never pushed out: a
   capture that is fed has taken all that was queued, and one that is wired
   again has room for what it missed.  And a capture that lost its browser has
   seen it gone for less than the window when it last looked. *)
MicShape ==
  /\ clock \in Nat
  /\ DOMAIN mic = {"token", "last"}
  /\ DOMAIN cap = {"at", "born", "lost", "queued", "taken", "waited", "sent", "away", "late"}
  /\ cap.born \in Nat /\ cap.queued \in Nat /\ cap.taken \in Nat
  /\ cap.sent \in Nat /\ cap.away \in Nat /\ cap.late \in Nat
  /\ cap.lost \in Nat \cup {-1} /\ cap.lost <= clock /\ cap.born <= clock
  /\ cap.waited \in 0 .. PollEvery
  /\ DOMAIN socks = CM!Sockets

OneToken ==
  /\ \A s \in CM!Sockets : socks[s] = "feeding" => mic.token = s
  /\ CM!Listening => (cap.lost = -1 <=> CM!Attached)

AddsUp ==
  CM!Listening =>
    /\ cap.taken + cap.queued <= cap.sent + cap.away
    /\ cap.sent + cap.away <= cap.taken + cap.queued + cap.late * (PollEvery - 1)

QueueHasRoom ==
  /\ cap.at = "starting" =>
       /\ clock - cap.born <= QueueMax - Window /\ cap.waited = 0
       /\ cap.queued <= (IF cap.lost = -1 THEN clock ELSE cap.lost) - cap.born
  /\ cap.at = "capturing" =>
       /\ cap.queued <= QueueMax
       /\ cap.lost # -1 /\ clock > cap.lost => cap.queued <= QueueMax - Window

LookedInTime ==
  cap.at = "capturing" /\ cap.lost # -1 =>
    /\ clock - cap.lost <= Window - 1 + cap.waited
    /\ cap.queued > 0 => clock - cap.lost <= Window - 1

MicInv ==
  machine = "mic" => MicShape /\ OneToken /\ AddsUp /\ QueueHasRoom /\ LookedInTime

LEMMA MicInitially == Init => MicInv
  <1> SUFFICES ASSUME Init, machine = "mic"
               PROVE  MicShape /\ OneToken /\ AddsUp /\ QueueHasRoom /\ LookedInTime
    BY DEF MicInv
  <1>1. CM!MicInit
    BY DEF Init, RoomInit, ConnectorInit, StreamInit
  <1> USE <1>1, WindowAssumption DEF CM!MicInit, CM!NoSource, CM!Never
  <1>2. MicShape
    BY DEF MicShape
  <1>3. OneToken /\ AddsUp /\ QueueHasRoom /\ LookedInTime
    BY DEF OneToken, AddsUp, QueueHasRoom, LookedInTime, CM!Listening
  <1> QED BY <1>2, <1>3

(* A return inside the window is padded whole; a later one comes before the
   poll that would have ended the capture. *)
LEMMA RewiredAddsUp ==
  ASSUME MicShape, OneToken, AddsUp, QueueHasRoom, LookedInTime, CM!Listening, cap.lost # -1,
         cap' = CM!Rewired(cap), clock' = clock, mic'.token # 0, DOMAIN mic' = DOMAIN mic,
         DOMAIN socks' = DOMAIN socks
  PROVE  MicShape' /\ AddsUp' /\ QueueHasRoom' /\ LookedInTime' /\ cap'.lost = -1
  <1> USE WindowAssumption DEF CM!Listening, CM!Never, CM!Lower
  <1> DEFINE gap == clock - cap.lost
             pad == IF gap <= Window THEN gap ELSE Window
             late == IF gap > Window THEN cap.late + 1 ELSE cap.late
  <1>1. cap.lost \in Nat /\ gap \in Nat /\ pad \in Nat /\ late \in Nat
    BY DEF MicShape
  <1>2. cap.queued + pad <= QueueMax
    BY <1>1 DEF MicShape, QueueHasRoom
  <1>3. gap - pad <= PollEvery - 1 /\ (gap > Window \/ gap = pad)
    BY <1>1 DEF MicShape, QueueHasRoom, LookedInTime
  <1>4. /\ cap'.at = cap.at /\ cap'.born = cap.born /\ cap'.lost = -1
        /\ cap'.queued = cap.queued + pad /\ cap'.taken = cap.taken
        /\ cap'.waited = cap.waited /\ cap'.sent = cap.sent
        /\ cap'.away = cap.away + gap /\ cap'.late = late
        /\ DOMAIN cap' = DOMAIN cap
    BY <1>1, <1>2 DEF CM!Rewired, CM!Padded, MicShape
  <1>5. gap - pad <= (late - cap.late) * (PollEvery - 1)
    <2>1. CASE gap > Window
      BY <1>1, <1>3, <2>1 DEF MicShape
    <2>2. CASE ~(gap > Window)
      BY <1>1, <1>3, <2>2 DEF MicShape
    <2> QED BY <2>1, <2>2
  <1>6. late * (PollEvery - 1) = cap.late * (PollEvery - 1) + (late - cap.late) * (PollEvery - 1)
    <2>1. CASE late = cap.late
      BY <2>1 DEF MicShape
    <2>2. CASE late = cap.late + 1
      BY <2>2 DEF MicShape
    <2> QED BY <2>1, <2>2
  <1>7. cap.late * (PollEvery - 1) \in Nat /\ late * (PollEvery - 1) \in Nat
    BY <1>1 DEF MicShape
  <1> DEFINE owed == cap.late * (PollEvery - 1)
             owes == late * (PollEvery - 1)
             more == (late - cap.late) * (PollEvery - 1)
  <1>8. owed \in Nat /\ owes \in Nat /\ owes = owed + more /\ gap - pad <= more /\ pad <= gap
    BY <1>1, <1>5, <1>6, <1>7
  <1>9. more \in Int
    BY <1>1 DEF MicShape
  <1> HIDE DEF gap, pad, owed, owes, more
  <1>10. /\ cap.taken + cap.queued <= cap.sent + cap.away
         /\ cap.sent + cap.away <= cap.taken + cap.queued + owed
    BY DEF AddsUp, owed
  <1>11. /\ cap.taken + (cap.queued + pad) <= cap.sent + (cap.away + gap)
         /\ cap.sent + (cap.away + gap) <= cap.taken + (cap.queued + pad) + owes
    BY <1>1, <1>8, <1>9, <1>10 DEF MicShape
  <1>12. AddsUp'
    BY <1>4, <1>11 DEF AddsUp, owes
  <1>13. MicShape' /\ LookedInTime'
    BY <1>1, <1>4 DEF MicShape, LookedInTime
  <1>14. QueueHasRoom'
    BY <1>1, <1>2, <1>4 DEF MicShape, QueueHasRoom, gap, pad
  <1> QED BY <1>4, <1>12, <1>13, <1>14

LEMMA MicStep == MicInv /\ [Next]_vars => MicInv'
  <1> SUFFICES ASSUME MicInv, [Next]_vars, machine = "mic" PROVE MicInv'
    BY MachineStays DEF MicInv
  <1>0. MicShape /\ OneToken /\ AddsUp /\ QueueHasRoom /\ LookedInTime
    BY DEF MicInv
  <1>1. CM!MicNext \/ UNCHANGED micVars
    BY DEF Next, vars, ConnectorNext, StreamNext, HandshakeStep, CallStep, BatchStep, RoomNext
  <1>s. ASSUME MicShape', OneToken', AddsUp', QueueHasRoom', LookedInTime' PROVE MicInv'
    BY <1>s DEF MicInv
  <1>t. 0 \notin CM!Sockets
    BY DEF CM!Sockets
  <1> USE <1>0, WindowAssumption DEF CM!Listening, CM!Attached, CM!Never
  <1>2. CASE UNCHANGED micVars
    BY <1>2, <1>s DEF micVars, MicShape, OneToken, AddsUp, QueueHasRoom, LookedInTime
  <1>3. ASSUME NEW s \in CM!Sockets,
               CM!SocketOpens(s) \/ CM!HelloRejected(s) \/ CM!connect(s) \/ CM!disconnect(s)
        PROVE  MicInv'
    <2>1. CASE CM!SocketOpens(s) \/ CM!HelloRejected(s)
      BY <2>1, <1>s
         DEF CM!SocketOpens, CM!HelloRejected, MicShape, OneToken, AddsUp, QueueHasRoom,
             LookedInTime
    <2>2. CASE CM!connect(s)
      <3>1. CASE CM!Attached
        BY <2>2, <3>1, <1>s
           DEF CM!connect, MicShape, OneToken, AddsUp, QueueHasRoom, LookedInTime
      <3>2. CASE ~CM!Attached
        <4>0. /\ clock' = clock /\ mic' = [mic EXCEPT !.token = s]
              /\ socks' = [socks EXCEPT ![s] = "feeding"]
              /\ cap' = IF CM!Listening THEN CM!Rewired(cap) ELSE cap
          BY <2>2, <3>2 DEF CM!connect
        <4>1. mic'.token = s /\ s # 0 /\ DOMAIN mic' = DOMAIN mic /\ DOMAIN socks' = DOMAIN socks
          BY <4>0, <1>t DEF MicShape
        <4>2. \A b \in CM!Sockets : socks'[b] = "feeding" => mic'.token = b
          BY <3>2, <4>0, <4>1, <1>t DEF MicShape, OneToken
        <4>3. CASE CM!Listening
          <5>1. cap.lost # -1
            BY <3>2, <4>3 DEF OneToken
          <5>2. MicShape' /\ AddsUp' /\ QueueHasRoom' /\ LookedInTime' /\ cap'.lost = -1
            BY <4>0, <4>1, <4>3, <5>1, RewiredAddsUp
          <5>3. OneToken'
            BY <4>1, <4>2, <5>2 DEF OneToken
          <5> QED BY <5>2, <5>3, <1>s
        <4>4. CASE ~CM!Listening
          <5>1. cap' = cap
            BY <4>0, <4>4
          <5>2. OneToken'
            BY <4>2, <4>4, <5>1 DEF OneToken
          <5> QED BY <4>0, <4>1, <4>4, <5>1, <5>2, <1>s
                  DEF MicShape, AddsUp, QueueHasRoom, LookedInTime
        <4> QED BY <4>3, <4>4
      <3> QED BY <3>1, <3>2
    <2>3. CASE CM!disconnect(s)
      <3> USE <2>3, <1>t DEF CM!disconnect
      <3>1. mic.token = s /\ (CM!Listening => cap.lost = -1)
        BY DEF OneToken
      <3>2. MicShape' /\ OneToken'
        BY <3>1 DEF MicShape, OneToken
      <3>3. AddsUp' /\ QueueHasRoom' /\ LookedInTime'
        BY <3>1 DEF MicShape, AddsUp, QueueHasRoom, LookedInTime
      <3> QED BY <3>2, <3>3, <1>s
    <2> QED BY <1>3, <2>1, <2>2, <2>3
  <1>4. CASE CM!open
    BY <1>4, <1>s DEF CM!open, CM!Heard, CM!NoSource,
                      MicShape, OneToken, AddsUp, QueueHasRoom, LookedInTime
  <1>5. CASE CM!Starts
    <2>1. MicShape' /\ OneToken' /\ AddsUp'
      BY <1>5 DEF CM!Starts, MicShape, OneToken, AddsUp
    <2>2. QueueHasRoom' /\ LookedInTime'
      BY <1>5 DEF CM!Starts, MicShape, QueueHasRoom, LookedInTime
    <2> QED BY <2>1, <2>2, <1>s
  <1>6. CASE CM!frames
    <2>1. MicShape' /\ OneToken' /\ AddsUp'
      BY <1>6 DEF CM!frames, MicShape, OneToken, AddsUp
    <2>2. QueueHasRoom' /\ LookedInTime'
      BY <1>6 DEF CM!frames, MicShape, QueueHasRoom, LookedInTime
    <2> QED BY <2>1, <2>2, <1>s
  <1>7. CASE CM!Polls \/ CM!stop
    <2>1. MicShape' /\ OneToken' /\ AddsUp'
      BY <1>7 DEF CM!Polls, CM!stop, MicShape, OneToken, AddsUp
    <2>2. QueueHasRoom' /\ LookedInTime'
      BY <1>7 DEF CM!Polls, CM!stop, MicShape, QueueHasRoom, LookedInTime
    <2> QED BY <2>1, <2>2, <1>s
  <1>8. CASE CM!feed
    <2>1. MicShape' /\ OneToken'
      BY <1>8 DEF CM!feed, CM!FedSource, CM!Lower, MicShape, OneToken
    <2>2. AddsUp' /\ QueueHasRoom' /\ LookedInTime'
      BY <1>8 DEF CM!feed, CM!FedSource, CM!KeepsUp, CM!Lower, MicShape, OneToken, AddsUp,
                  QueueHasRoom, LookedInTime
    <2> QED BY <2>1, <2>2, <1>s
  <1>9. CASE CM!Stalls
    <2>1. MicShape' /\ OneToken' /\ AddsUp'
      BY <1>9 DEF CM!Stalls, CM!KeepsUp, MicShape, OneToken, AddsUp
    <2>2. QueueHasRoom' /\ LookedInTime'
      BY <1>9 DEF CM!Stalls, CM!KeepsUp, MicShape, QueueHasRoom, LookedInTime
    <2> QED BY <2>1, <2>2, <1>s
  <1> QED BY <1>1, <1>2, <1>3, <1>4, <1>5, <1>6, <1>7, <1>8, <1>9 DEF CM!MicNext

(* While a browser captures, the recording holds what its browsers sent, once,
   and silence for the time it had none, less than a poll short for each return
   that came after the window; and a capture nobody feeds ends within a poll of
   the window's end. *)
THEOREM TimelineAlwaysKept == Spec => []TimelineKept
  <1>1. ASSUME MicInv PROVE TimelineKept
    <2> SUFFICES ASSUME machine = "mic", cap.at = "capturing" PROVE TimelineKept
      BY DEF TimelineKept
    <2>1. MicShape /\ AddsUp /\ LookedInTime /\ CM!Listening
      BY <1>1 DEF MicInv, CM!Listening
    <2>2. cap.lost # -1 => clock - cap.lost < Window + PollEvery
      BY <2>1, WindowAssumption DEF MicShape, LookedInTime
    <2> QED BY <2>1, <2>2 DEF TimelineKept, AddsUp, CM!Never
  <1> QED BY MicInitially, MicStep, <1>1, PTL DEF Spec

-----------------------------------------------------------------------------
(* The books of video generation.  A row goes only after its task and file
   have, and whoever erases the session knows of all that run, or lists them
   as late. *)
VideoShape ==
  /\ DOMAIN vjobs = VJ!Videos /\ DOMAIN vtasks = VJ!Videos /\ DOMAIN vops = VJ!Videos
  /\ DOMAIN remote = VJ!Videos /\ vfiles \subseteq VJ!Videos
  /\ DOMAIN verase = {"at", "job", "queue", "late"}
  /\ verase.at \in {"stop", "row"} => verase.job \in VJ!Videos
  /\ verase.queue \subseteq VJ!Videos
  /\ \A j \in VJ!Videos :
       /\ DOMAIN vjobs[j] = {"status", "remote"} /\ vjobs[j].remote \in BOOLEAN
       /\ DOMAIN remote[j] = {"state", "asked", "polls"} /\ remote[j].polls \in Nat

Live(j) == vtasks[j] # "none" \/ j \in vfiles

LiveIsKnown ==
  \A j \in VJ!Videos : Live(j) => vjobs[j] # VJ!NoRow \/ j \in verase.late

StoppedFirst ==
  \A j \in VJ!Videos :
    vops[j] = "row" \/ (verase.at = "row" /\ verase.job = j) => ~Live(j)

EnqueuedAfresh ==
  \A j \in VJ!Videos : vops[j] = "enqueue" =>
    /\ vjobs[j] = VJ!NoRow /\ vtasks[j] = "none" /\ remote[j] = VJ!NoGeneration
    /\ VJ!Erasing => /\ j \in verase.late /\ j \notin verase.queue
                     /\ verase.at \in {"stop", "row"} => verase.job # j

EraseFinds ==
  VJ!Erasing => \A j \in VJ!Videos : Live(j) =>
    j \in verase.late \/ j \in verase.queue \/ (verase.at = "stop" /\ verase.job = j)

RecordedInTime ==
  \A j \in VJ!Videos :
    /\ vtasks[j] \in {"start", "submit"} => remote[j] = VJ!NoGeneration
    /\ vtasks[j] = "record" => remote[j].polls = 0
    /\ vtasks[j] = "poll" /\ vjobs[j] # VJ!NoRow => vjobs[j].remote

VideoInv ==
  machine = "video" =>
    /\ VideoShape /\ LiveIsKnown /\ StoppedFirst /\ EnqueuedAfresh /\ EraseFinds
    /\ RecordedInTime /\ RunningIsGenerating /\ PaidAsAsked

LEMMA VideoInitially == Init => VideoInv
  <1> SUFFICES ASSUME Init, machine = "video"
               PROVE  /\ VideoShape /\ LiveIsKnown /\ StoppedFirst /\ EnqueuedAfresh /\ EraseFinds
                      /\ RecordedInTime /\ RunningIsGenerating /\ PaidAsAsked
    BY DEF VideoInv
  <1>1. VJ!VideoInit
    BY DEF Init, RoomInit, ConnectorInit, StreamInit
  <1> USE <1>1 DEF VJ!VideoInit, VJ!NoRow, VJ!NoGeneration
  <1>2. VideoShape
    BY DEF VideoShape
  <1>3. LiveIsKnown /\ StoppedFirst /\ EnqueuedAfresh /\ EraseFinds
    BY DEF LiveIsKnown, StoppedFirst, EnqueuedAfresh, EraseFinds, Live, VJ!Erasing
  <1>4. RecordedInTime /\ RunningIsGenerating /\ PaidAsAsked
    BY DEF RecordedInTime, RunningIsGenerating, PaidAsAsked
  <1> QED BY <1>2, <1>3, <1>4

(* An update finds its row or does nothing. *)
LEMMA WritesIfThere ==
  ASSUME VideoShape, NEW j \in VJ!Videos, NEW row, row # VJ!NoRow, vjobs' = VJ!Write(j, row),
         DOMAIN row = {"status", "remote"}, row.remote \in BOOLEAN
  PROVE  /\ DOMAIN vjobs' = VJ!Videos
         /\ \A i \in VJ!Videos : i # j => vjobs'[i] = vjobs[i]
         /\ vjobs[j] = VJ!NoRow => vjobs'[j] = VJ!NoRow
         /\ vjobs[j] # VJ!NoRow => vjobs'[j] = row
         /\ \A i \in VJ!Videos : vjobs'[i] = VJ!NoRow <=> vjobs[i] = VJ!NoRow
         /\ \A i \in VJ!Videos :
              DOMAIN vjobs'[i] = {"status", "remote"} /\ vjobs'[i].remote \in BOOLEAN
  BY DEF VideoShape, VJ!Write

LEMMA NoRowShape ==
  DOMAIN VJ!NoRow = {"status", "remote"} /\ VJ!NoRow.remote = FALSE /\ VJ!NoRow.status = "none"
  BY DEF VJ!NoRow

(* The last write of a task, its own or its canceller's. *)
RowSettled(j) ==
  vjobs' = VJ!Write(j, [vjobs[j] EXCEPT !.status = IF vtasks[j] = "finish" THEN "done" ELSE "error"])

LEMMA SettlesRow ==
  ASSUME VideoShape, NEW j \in VJ!Videos, RowSettled(j)
  PROVE  /\ DOMAIN vjobs' = VJ!Videos
         /\ vjobs'[j].status \notin {"queued", "running"}
         /\ \A i \in VJ!Videos :
              /\ DOMAIN vjobs'[i] = {"status", "remote"} /\ vjobs'[i].remote = vjobs[i].remote
              /\ vjobs'[i] = VJ!NoRow <=> vjobs[i] = VJ!NoRow
              /\ i # j => vjobs'[i] = vjobs[i]
  <1> DEFINE row == [vjobs[j] EXCEPT !.status = IF vtasks[j] = "finish" THEN "done" ELSE "error"]
  <1>1. /\ DOMAIN row = {"status", "remote"} /\ row.remote = vjobs[j].remote
        /\ row.status \in {"done", "error"}
    BY DEF VideoShape
  <1>2. row # VJ!NoRow /\ row.remote \in BOOLEAN
    BY <1>1 DEF VJ!NoRow, VideoShape
  <1>3. vjobs' = VJ!Write(j, row)
    BY DEF RowSettled
  <1> HIDE DEF row
  <1>4. /\ DOMAIN vjobs' = VJ!Videos
        /\ \A i \in VJ!Videos : i # j => vjobs'[i] = vjobs[i]
        /\ vjobs[j] = VJ!NoRow => vjobs'[j] = VJ!NoRow
        /\ vjobs[j] # VJ!NoRow => vjobs'[j] = row
        /\ \A i \in VJ!Videos : vjobs'[i] = VJ!NoRow <=> vjobs[i] = VJ!NoRow
        /\ \A i \in VJ!Videos : DOMAIN vjobs'[i] = {"status", "remote"}
    BY <1>1, <1>2, <1>3, WritesIfThere
  <1> QED BY <1>1, <1>4, NoRowShape

(* A task that was stopped is gone, its file with it. *)
LEMMA StopsTask ==
  ASSUME VideoShape, NEW j \in VJ!Videos, VJ!Stops(j)
  PROVE  /\ vtasks' = [vtasks EXCEPT ![j] = "none"] /\ vfiles' = vfiles \ {j}
         /\ DOMAIN vjobs' = VJ!Videos
         /\ \A i \in VJ!Videos :
              /\ DOMAIN vjobs'[i] = {"status", "remote"} /\ vjobs'[i].remote = vjobs[i].remote
              /\ vjobs'[i] = VJ!NoRow <=> vjobs[i] = VJ!NoRow
              /\ i # j => vjobs'[i] = vjobs[i]
  <1>1. vtasks' = [vtasks EXCEPT ![j] = "none"] /\ vfiles' = vfiles \ {j}
    BY DEF VJ!Stops, VJ!Moves
  <1>2. UNCHANGED vjobs \/ RowSettled(j)
    BY DEF VJ!Stops, VJ!At, RowSettled
  <1> QED BY <1>1, <1>2, SettlesRow DEF VideoShape

LEMMA VideoStep == VideoInv /\ [Next]_vars => VideoInv'
  <1> SUFFICES ASSUME VideoInv, [Next]_vars, machine = "video" PROVE VideoInv'
    BY MachineStays DEF VideoInv
  <1>0. /\ VideoShape /\ LiveIsKnown /\ StoppedFirst /\ EnqueuedAfresh /\ EraseFinds
        /\ RecordedInTime /\ RunningIsGenerating /\ PaidAsAsked
    BY DEF VideoInv
  <1>1. VJ!VideoNext \/ UNCHANGED videoVars
    BY DEF Next, vars, ConnectorNext, StreamNext, HandshakeStep, CallStep, BatchStep, RoomNext
  <1>s. ASSUME VideoShape', LiveIsKnown', StoppedFirst', EnqueuedAfresh', EraseFinds',
               RecordedInTime', RunningIsGenerating', PaidAsAsked'
        PROVE  VideoInv'
    BY <1>s DEF VideoInv
  <1> USE <1>0
  <1>2. CASE UNCHANGED videoVars
    BY <1>2, <1>s
       DEF videoVars, VideoShape, LiveIsKnown, StoppedFirst, EnqueuedAfresh, EraseFinds, Live,
           RecordedInTime, RunningIsGenerating, PaidAsAsked, VJ!Erasing
  <1>3. ASSUME NEW j \in VJ!Videos,
               \/ VJ!EnqueueChecks(j) \/ VJ!EnqueueCreates(j) \/ VJ!Runs(j) \/ VJ!Submits(j)
               \/ VJ!Records(j) \/ VJ!Polls(j) \/ VJ!VendorEnds(j) \/ VJ!Downloads(j)
               \/ VJ!Ends(j) \/ VJ!DeleteRequest(j) \/ VJ!Stopped(j) \/ VJ!RowDeleted(j)
               \/ VJ!EraseTakes(j)
        PROVE  VideoInv'
    <2> USE <1>3 DEF VJ!At, VJ!Moves
    <2>a. CASE VJ!EnqueueChecks(j)
      <3>1. VideoShape' /\ LiveIsKnown' /\ StoppedFirst' /\ EnqueuedAfresh' /\ EraseFinds'
        BY <2>a DEF VJ!EnqueueChecks, VideoShape, LiveIsKnown, StoppedFirst, EnqueuedAfresh, EraseFinds,
                    Live, VJ!Erasing
      <3>2. RecordedInTime' /\ RunningIsGenerating' /\ PaidAsAsked'
        BY <2>a DEF VJ!EnqueueChecks, VideoShape, RecordedInTime, RunningIsGenerating, PaidAsAsked
      <3> QED BY <3>1, <3>2, <1>s
    <2>b. CASE VJ!EnqueueCreates(j)
      <3>0. vops[j] = "enqueue" /\ vops' = [vops EXCEPT ![j] = "none"] /\ UNCHANGED <<vfiles, remote, verase>>
        BY <2>b DEF VJ!EnqueueCreates
      <3>1. CASE UNCHANGED <<vjobs, vtasks>>
        <4>1. VideoShape' /\ LiveIsKnown' /\ StoppedFirst' /\ EnqueuedAfresh' /\ EraseFinds'
          BY <3>0, <3>1 DEF VideoShape, LiveIsKnown, StoppedFirst, EnqueuedAfresh, EraseFinds, Live,
                            VJ!Erasing
        <4>2. RecordedInTime' /\ RunningIsGenerating' /\ PaidAsAsked'
          BY <3>0, <3>1 DEF VideoShape, RecordedInTime, RunningIsGenerating, PaidAsAsked
        <4> QED BY <4>1, <4>2, <1>s
      <3>2. CASE /\ vjobs' = [vjobs EXCEPT ![j] = [status |-> "queued", remote |-> FALSE]]
                 /\ vtasks' = [vtasks EXCEPT ![j] = "start"]
        <4>1. /\ vjobs[j] = VJ!NoRow /\ remote[j] = VJ!NoGeneration
              /\ VJ!Erasing => /\ j \in verase.late /\ j \notin verase.queue
                               /\ verase.at \in {"stop", "row"} => verase.job # j
          BY <3>0 DEF EnqueuedAfresh
        <4>2. /\ DOMAIN vjobs' = VJ!Videos /\ vjobs'[j] = [status |-> "queued", remote |-> FALSE]
              /\ \A i \in VJ!Videos \ {j} : vjobs'[i] = vjobs[i]
          BY <3>2 DEF VideoShape
        <4>3. /\ vjobs'[j] # VJ!NoRow /\ vjobs'[j].status = "queued" /\ vjobs'[j].remote = FALSE
              /\ DOMAIN vjobs'[j] = {"status", "remote"}
          BY <4>2 DEF VJ!NoRow
        <4>4. VideoShape'
          BY <3>0, <3>2, <4>2, <4>3 DEF VideoShape
        <4>5. LiveIsKnown' /\ StoppedFirst' /\ EnqueuedAfresh' /\ EraseFinds'
          BY <3>0, <3>2, <4>1, <4>2, <4>3
             DEF VideoShape, LiveIsKnown, StoppedFirst, EnqueuedAfresh, EraseFinds, Live, VJ!Erasing
        <4>6. remote[j].polls = 0
          BY <4>1 DEF VJ!NoGeneration
        <4>7. RecordedInTime' /\ RunningIsGenerating' /\ PaidAsAsked'
          BY <3>0, <3>2, <4>1, <4>2, <4>3, <4>6
             DEF VideoShape, RecordedInTime, RunningIsGenerating, PaidAsAsked
        <4> QED BY <4>4, <4>5, <4>7, <1>s
      <3> QED BY <2>b, <3>1, <3>2 DEF VJ!EnqueueCreates
    <2>c. CASE VJ!Runs(j)
      <3> DEFINE row == [status |-> "running", remote |-> FALSE]
      <3>1. vjobs' = VJ!Write(j, row) /\ row # VJ!NoRow
        BY <2>c DEF VJ!Runs, VJ!NoRow
      <3>2. /\ DOMAIN row = {"status", "remote"} /\ row.remote = FALSE /\ row.status = "running"
        OBVIOUS
      <3> HIDE DEF row
      <3>w. /\ DOMAIN vjobs' = VJ!Videos
            /\ \A i \in VJ!Videos : i # j => vjobs'[i] = vjobs[i]
            /\ vjobs[j] = VJ!NoRow => vjobs'[j] = VJ!NoRow
            /\ vjobs[j] # VJ!NoRow => vjobs'[j] = row
            /\ \A i \in VJ!Videos : vjobs'[i] = VJ!NoRow <=> vjobs[i] = VJ!NoRow
            /\ \A i \in VJ!Videos :
                 DOMAIN vjobs'[i] = {"status", "remote"} /\ vjobs'[i].remote \in BOOLEAN
        BY <3>1, <3>2, WritesIfThere
      <3> USE <2>c, <3>w, <3>2 DEF VJ!Runs
      <3>3. VideoShape'
        BY DEF VideoShape
      <3>4. LiveIsKnown' /\ StoppedFirst' /\ EnqueuedAfresh' /\ EraseFinds'
        BY DEF VideoShape, LiveIsKnown, StoppedFirst, EnqueuedAfresh, EraseFinds, Live, VJ!Erasing
      <3>5. RecordedInTime' /\ RunningIsGenerating' /\ PaidAsAsked'
        <4>1. remote[j] = VJ!NoGeneration /\ remote[j].polls = 0 /\ VJ!NoRow.status = "none"
          BY DEF RecordedInTime, VJ!NoGeneration, VJ!NoRow
        <4> QED BY <4>1 DEF VideoShape, RecordedInTime, RunningIsGenerating, PaidAsAsked
      <3> QED BY <3>3, <3>4, <3>5, <1>s
    <2>d. CASE VJ!Submits(j)
      <3> USE <2>d DEF VJ!Submits
      <3>1. VideoShape'
        BY DEF VideoShape
      <3>2. LiveIsKnown' /\ StoppedFirst' /\ EnqueuedAfresh' /\ EraseFinds'
        BY DEF VideoShape, LiveIsKnown, StoppedFirst, EnqueuedAfresh, EraseFinds, Live, VJ!Erasing
      <3>3. /\ remote' # remote => /\ vtasks' = [vtasks EXCEPT ![j] = "record"]
                                   /\ remote'[j].polls = 0 /\ remote'[j].asked
            /\ \A i \in VJ!Videos \ {j} : remote'[i] = remote[i]
            /\ vtasks'[j] \in {"record", "fail"} /\ (vtasks'[j] = "record" => remote'[j].polls = 0)
            /\ \A i \in VJ!Videos \ {j} : vtasks'[i] = vtasks[i]
        <4>1. \A wish \in VJ!Wishes : (VJ!Renders(wish.kind, VJ!Payload(wish)).audio = wish.audio) = TRUE
          BY DEF VJ!Wishes, VJ!Renders, VJ!Payload
        <4>2. CASE \E wish \in VJ!Wishes :
                     /\ remote' = [remote EXCEPT ![j] =
                          [state |-> "running", polls |-> 0,
                           asked |-> VJ!Renders(wish.kind, VJ!Payload(wish)).audio = wish.audio]]
                     /\ vtasks' = [vtasks EXCEPT ![j] = "record"]
          <5>1. PICK wish \in VJ!Wishes :
                  /\ remote' = [remote EXCEPT ![j] =
                       [state |-> "running", polls |-> 0,
                        asked |-> VJ!Renders(wish.kind, VJ!Payload(wish)).audio = wish.audio]]
                  /\ vtasks' = [vtasks EXCEPT ![j] = "record"]
            BY <4>2
          <5> DEFINE asked == VJ!Renders(wish.kind, VJ!Payload(wish)).audio = wish.audio
          <5>2. asked = TRUE
            BY <4>1
          <5>3. remote' = [remote EXCEPT ![j] = [state |-> "running", polls |-> 0, asked |-> asked]]
            BY <5>1
          <5> HIDE DEF asked
          <5>4. remote' = [remote EXCEPT ![j] = [state |-> "running", polls |-> 0, asked |-> TRUE]]
            BY <5>2, <5>3
          <5> QED BY <5>1, <5>4 DEF VideoShape
        <4>3. CASE vtasks' = [vtasks EXCEPT ![j] = "fail"] /\ UNCHANGED remote
          BY <4>3 DEF VideoShape
        <4> QED BY <4>2, <4>3
      <3>4. RecordedInTime' /\ RunningIsGenerating' /\ PaidAsAsked'
        <4> HIDE DEF VJ!Submits
        <4>1. UNCHANGED <<vjobs, vops, verase>> /\ vtasks[j] = "submit" /\ (remote' = remote \/ remote' # remote)
          BY <2>d DEF VJ!Submits
        <4> QED BY <3>3, <4>1 DEF VideoShape, RecordedInTime, RunningIsGenerating, PaidAsAsked
      <3> QED BY <3>1, <3>2, <3>4, <1>s
    <2>e. CASE VJ!Records(j)
      <3> DEFINE row == [vjobs[j] EXCEPT !.remote = TRUE]
      <3>1. vjobs' = VJ!Write(j, row)
        BY <2>e DEF VJ!Records
      <3>2. /\ DOMAIN row = {"status", "remote"} /\ row.remote = TRUE /\ row.status = vjobs[j].status
        BY DEF VideoShape
      <3>3. row # VJ!NoRow
        BY <3>2 DEF VJ!NoRow
      <3> HIDE DEF row
      <3>w. /\ DOMAIN vjobs' = VJ!Videos
            /\ \A i \in VJ!Videos : i # j => vjobs'[i] = vjobs[i]
            /\ vjobs[j] = VJ!NoRow => vjobs'[j] = VJ!NoRow
            /\ vjobs[j] # VJ!NoRow => vjobs'[j] = row
            /\ \A i \in VJ!Videos : vjobs'[i] = VJ!NoRow <=> vjobs[i] = VJ!NoRow
            /\ \A i \in VJ!Videos :
                 DOMAIN vjobs'[i] = {"status", "remote"} /\ vjobs'[i].remote \in BOOLEAN
        BY <3>1, <3>2, <3>3, WritesIfThere
      <3> USE <2>e, <3>w, <3>2, <3>3 DEF VJ!Records
      <3>4. VideoShape'
        BY DEF VideoShape
      <3>5. LiveIsKnown' /\ StoppedFirst' /\ EnqueuedAfresh' /\ EraseFinds'
        BY DEF VideoShape, LiveIsKnown, StoppedFirst, EnqueuedAfresh, EraseFinds, Live, VJ!Erasing
      <3>6. RecordedInTime' /\ RunningIsGenerating' /\ PaidAsAsked'
        <4>1. remote[j].polls = 0 /\ VJ!NoRow.status = "none"
          BY DEF RecordedInTime, VJ!NoRow
        <4>2. /\ vtasks'[j] = "poll" /\ \A i \in VJ!Videos \ {j} : vtasks'[i] = vtasks[i]
              /\ vjobs'[j] # VJ!NoRow => vjobs'[j].remote = TRUE
              /\ vjobs'[j].status = vjobs[j].status
              /\ UNCHANGED <<remote, vops, verase>>
          BY DEF VideoShape
        <4> HIDE DEF VJ!Records
        <4>r. vtasks[j] = "record" /\ \A i \in VJ!Videos \ {j} : vjobs'[i] = vjobs[i]
          BY <3>w, <2>e DEF VJ!Records
        <4>3. RecordedInTime' /\ PaidAsAsked'
          BY <4>1, <4>2, <4>r DEF RecordedInTime, PaidAsAsked
        <4>4. RunningIsGenerating'
          BY <4>2, <4>r DEF RunningIsGenerating
        <4> QED BY <4>3, <4>4
      <3> QED BY <3>4, <3>5, <3>6, <1>s
    <2>f. CASE VJ!Polls(j)
      <3> USE <2>f DEF VJ!Polls
      <3>1. VideoShape'
        BY DEF VideoShape
      <3>2. LiveIsKnown' /\ StoppedFirst' /\ EnqueuedAfresh' /\ EraseFinds'
        BY DEF VideoShape, LiveIsKnown, StoppedFirst, EnqueuedAfresh, EraseFinds, Live, VJ!Erasing
      <3>3. RecordedInTime' /\ RunningIsGenerating' /\ PaidAsAsked'
        BY DEF VideoShape, RecordedInTime, RunningIsGenerating, PaidAsAsked
      <3> QED BY <3>1, <3>2, <3>3, <1>s
    <2>g. CASE VJ!VendorEnds(j)
      <3> USE <2>g DEF VJ!VendorEnds
      <3>1. VideoShape'
        BY DEF VideoShape
      <3>2. LiveIsKnown' /\ StoppedFirst' /\ EnqueuedAfresh' /\ EraseFinds'
        BY DEF VideoShape, LiveIsKnown, StoppedFirst, EnqueuedAfresh, EraseFinds, Live, VJ!Erasing
      <3>3. RecordedInTime' /\ RunningIsGenerating' /\ PaidAsAsked'
        BY DEF VideoShape, RecordedInTime, RunningIsGenerating, PaidAsAsked
      <3> QED BY <3>1, <3>2, <3>3, <1>s
    <2>h. CASE VJ!Downloads(j)
      <3> USE <2>h DEF VJ!Downloads
      <3>1. VideoShape'
        BY DEF VideoShape
      <3>2. LiveIsKnown' /\ StoppedFirst' /\ EnqueuedAfresh' /\ EraseFinds'
        BY DEF VideoShape, LiveIsKnown, StoppedFirst, EnqueuedAfresh, EraseFinds, Live, VJ!Erasing
      <3>3. RecordedInTime' /\ RunningIsGenerating' /\ PaidAsAsked'
        BY DEF VideoShape, RecordedInTime, RunningIsGenerating, PaidAsAsked
      <3> QED BY <3>1, <3>2, <3>3, <1>s
    <2>i. CASE VJ!Ends(j)
      <3>1. /\ vtasks[j] \in {"finish", "fail"} /\ vtasks' = [vtasks EXCEPT ![j] = "none"]
            /\ UNCHANGED <<vfiles, remote, vops, verase>>
            /\ RowSettled(j)
        BY <2>i DEF VJ!Ends, RowSettled
      <3> USE <3>1, SettlesRow
      <3>2. VideoShape'
        BY DEF VideoShape
      <3>3. LiveIsKnown' /\ StoppedFirst' /\ EnqueuedAfresh' /\ EraseFinds'
        BY DEF VideoShape, LiveIsKnown, StoppedFirst, EnqueuedAfresh, EraseFinds, Live, VJ!Erasing
      <3>4. RecordedInTime' /\ RunningIsGenerating' /\ PaidAsAsked'
        BY DEF VideoShape, RecordedInTime, RunningIsGenerating, PaidAsAsked
      <3> QED BY <3>2, <3>3, <3>4, <1>s
    <2>j. CASE VJ!DeleteRequest(j)
      <3>1. VideoShape' /\ LiveIsKnown' /\ StoppedFirst' /\ EnqueuedAfresh' /\ EraseFinds'
        BY <2>j DEF VJ!DeleteRequest, VideoShape, LiveIsKnown, StoppedFirst, EnqueuedAfresh, EraseFinds,
                    Live, VJ!Erasing
      <3>2. RecordedInTime' /\ RunningIsGenerating' /\ PaidAsAsked'
        BY <2>j DEF VJ!DeleteRequest, VideoShape, RecordedInTime, RunningIsGenerating, PaidAsAsked
      <3> QED BY <3>1, <3>2, <1>s
    <2>k. CASE VJ!Stopped(j)
      <3>1. /\ vops[j] = "stop" /\ vops' = [vops EXCEPT ![j] = "row"] /\ UNCHANGED <<remote, verase>>
            /\ VJ!Stops(j)
        BY <2>k DEF VJ!Stopped
      <3> USE <3>1, StopsTask
      <3>2. VideoShape'
        BY DEF VideoShape
      <3>3. LiveIsKnown' /\ StoppedFirst' /\ EnqueuedAfresh' /\ EraseFinds'
        BY DEF VideoShape, LiveIsKnown, StoppedFirst, EnqueuedAfresh, EraseFinds, Live, VJ!Erasing
      <3>4. RecordedInTime' /\ RunningIsGenerating' /\ PaidAsAsked'
        BY DEF VideoShape, RecordedInTime, RunningIsGenerating, PaidAsAsked
      <3> QED BY <3>2, <3>3, <3>4, <1>s
    <2>l. CASE VJ!RowDeleted(j)
      <3>1. /\ vops[j] = "row" /\ vops' = [vops EXCEPT ![j] = "none"]
            /\ UNCHANGED <<vfiles, vtasks, remote, verase>>
            /\ vjobs' = [vjobs EXCEPT ![j] = VJ!NoRow]
        BY <2>l DEF VJ!RowDeleted
      <3> USE <3>1, NoRowShape
      <3>2. VideoShape'
        BY DEF VideoShape
      <3>3. LiveIsKnown' /\ StoppedFirst' /\ EnqueuedAfresh' /\ EraseFinds'
        BY DEF VideoShape, LiveIsKnown, StoppedFirst, EnqueuedAfresh, EraseFinds, Live, VJ!Erasing
      <3>4. RecordedInTime' /\ RunningIsGenerating' /\ PaidAsAsked'
        BY DEF VideoShape, RecordedInTime, RunningIsGenerating, PaidAsAsked
      <3> QED BY <3>2, <3>3, <3>4, <1>s
    <2>m. CASE VJ!EraseTakes(j)
      <3> USE <2>m DEF VJ!EraseTakes
      <3>1. VideoShape'
        BY DEF VideoShape
      <3>2. LiveIsKnown' /\ StoppedFirst' /\ EnqueuedAfresh' /\ EraseFinds'
        BY DEF VideoShape, LiveIsKnown, StoppedFirst, EnqueuedAfresh, EraseFinds, Live, VJ!Erasing
      <3>3. RecordedInTime' /\ RunningIsGenerating' /\ PaidAsAsked'
        BY DEF VideoShape, RecordedInTime, RunningIsGenerating, PaidAsAsked
      <3> QED BY <3>1, <3>2, <3>3, <1>s
    <2> QED BY <2>a, <2>b, <2>c, <2>d, <2>e, <2>f, <2>g, <2>h, <2>i, <2>j, <2>k, <2>l, <2>m
  <1>4. CASE VJ!EraseStarts
    <2> USE <1>4 DEF VJ!EraseStarts
    <2>1. VideoShape'
      BY DEF VideoShape
    <2>2. LiveIsKnown' /\ StoppedFirst' /\ EnqueuedAfresh' /\ EraseFinds'
      BY DEF VideoShape, LiveIsKnown, StoppedFirst, EnqueuedAfresh, EraseFinds, Live, VJ!Erasing
    <2>3. RecordedInTime' /\ RunningIsGenerating' /\ PaidAsAsked'
      BY DEF VideoShape, RecordedInTime, RunningIsGenerating, PaidAsAsked
    <2> QED BY <2>1, <2>2, <2>3, <1>s
  <1>5. CASE VJ!EraseStops
    <2> DEFINE j == verase.job
    <2>1. /\ verase.at = "stop" /\ verase' = [verase EXCEPT !.at = "row"] /\ UNCHANGED <<remote, vops>>
          /\ VJ!Stops(j) /\ j \in VJ!Videos
      BY <1>5 DEF VJ!EraseStops, VideoShape
    <2>2. verase'.at = "row" /\ verase'.job = j /\ verase'.queue = verase.queue /\ verase'.late = verase.late
      BY <2>1 DEF VideoShape
    <2> HIDE DEF j
    <2> USE <2>1, <2>2, StopsTask
    <2>3. VideoShape'
      BY DEF VideoShape
    <2>4. LiveIsKnown' /\ StoppedFirst' /\ EraseFinds'
      BY DEF VideoShape, LiveIsKnown, StoppedFirst, EraseFinds, Live, VJ!Erasing, j
    <2>5. EnqueuedAfresh'
      BY DEF VideoShape, EnqueuedAfresh, VJ!Erasing, j
    <2>6. RecordedInTime' /\ RunningIsGenerating' /\ PaidAsAsked'
      BY DEF VideoShape, RecordedInTime, RunningIsGenerating, PaidAsAsked
    <2> QED BY <2>3, <2>4, <2>5, <2>6, <1>s
  <1>6. CASE VJ!EraseDeletesRow
    <2>1. /\ verase.at = "row" /\ verase' = [verase EXCEPT !.at = "next"]
          /\ vjobs' = [vjobs EXCEPT ![verase.job] = VJ!NoRow] /\ verase.job \in VJ!Videos
          /\ UNCHANGED <<vfiles, vtasks, remote, vops>>
      BY <1>6 DEF VJ!EraseDeletesRow, VideoShape
    <2> USE <2>1, NoRowShape
    <2>2. VideoShape'
      BY DEF VideoShape
    <2>3. LiveIsKnown' /\ StoppedFirst' /\ EnqueuedAfresh' /\ EraseFinds'
      BY DEF VideoShape, LiveIsKnown, StoppedFirst, EnqueuedAfresh, EraseFinds, Live, VJ!Erasing
    <2>4. RecordedInTime' /\ RunningIsGenerating' /\ PaidAsAsked'
      BY DEF VideoShape, RecordedInTime, RunningIsGenerating, PaidAsAsked
    <2> QED BY <2>2, <2>3, <2>4, <1>s
  <1>7. CASE VJ!EraseEnds
    <2> USE <1>7, NoRowShape DEF VJ!EraseEnds
    <2>1. VideoShape'
      BY DEF VideoShape
    <2>2. LiveIsKnown' /\ StoppedFirst' /\ EnqueuedAfresh' /\ EraseFinds'
      BY DEF VideoShape, LiveIsKnown, StoppedFirst, EnqueuedAfresh, EraseFinds, Live, VJ!Erasing
    <2>3. RecordedInTime' /\ RunningIsGenerating' /\ PaidAsAsked'
      BY DEF VideoShape, RecordedInTime, RunningIsGenerating, PaidAsAsked
    <2> QED BY <2>1, <2>2, <2>3, <1>s
  <1>8. CASE VJ!Restarts
    <2>1. /\ vtasks' = [j \in VJ!Videos |-> "none"] /\ vops' = [j \in VJ!Videos |-> "none"]
          /\ UNCHANGED <<vfiles, remote>>
          /\ verase' = IF VJ!Erasing THEN [verase EXCEPT !.at = "there", !.job = 0, !.queue = {}] ELSE verase
      BY <1>8 DEF VJ!Restarts
    <2>2. /\ DOMAIN vjobs' = VJ!Videos
          /\ \A j \in VJ!Videos :
               /\ DOMAIN vjobs'[j] = {"status", "remote"} /\ vjobs'[j].remote = vjobs[j].remote
               /\ vjobs[j] # VJ!NoRow => vjobs'[j] # VJ!NoRow
               /\ vjobs[j] = VJ!NoRow => vjobs'[j] = VJ!NoRow
               /\ vjobs'[j].status \notin {"queued", "running"}
      <3>1. /\ DOMAIN vjobs' = VJ!Videos
            /\ \A j \in VJ!Videos :
                 vjobs'[j] = IF vjobs[j].status \in {"queued", "running"}
                             THEN [vjobs[j] EXCEPT !.status = "error"] ELSE vjobs[j]
        BY <1>8 DEF VJ!Restarts
      <3>2. \A j \in VJ!Videos :
               LET row == [vjobs[j] EXCEPT !.status = "error"] IN
               /\ DOMAIN row = {"status", "remote"} /\ row.remote = vjobs[j].remote
               /\ row.status = "error" /\ row # VJ!NoRow
        BY NoRowShape DEF VideoShape
      <3> QED BY <3>1, <3>2, NoRowShape DEF VideoShape
    <2>3. /\ DOMAIN verase' = {"at", "job", "queue", "late"} /\ verase'.late = verase.late
          /\ verase'.at \in {"there", "gone"} /\ verase'.queue \subseteq VJ!Videos
      BY <2>1 DEF VideoShape, VJ!Erasing
    <2>4. VideoShape'
      BY <2>1, <2>2, <2>3 DEF VideoShape
    <2>5. LiveIsKnown' /\ StoppedFirst' /\ EnqueuedAfresh' /\ EraseFinds'
      BY <2>1, <2>2, <2>3 DEF LiveIsKnown, StoppedFirst, EnqueuedAfresh, EraseFinds, Live, VJ!Erasing
    <2>6. RecordedInTime' /\ RunningIsGenerating' /\ PaidAsAsked'
      BY <2>1, <2>2, <2>3 DEF RecordedInTime, RunningIsGenerating, PaidAsAsked
    <2> QED BY <2>4, <2>5, <2>6, <1>s
  <1> QED BY <1>1, <1>2, <1>3, <1>4, <1>5, <1>6, <1>7, <1>8 DEF VJ!VideoNext

(* Rows, files, tasks and paid generations of video jobs agree, however many
   jobs, polls, deletions and restarts there are. *)
THEOREM VideoBooksAgree == Spec => []VideoBooks
  <1>1. VideoInv => VideoBooks
    BY DEF VideoInv, VideoBooks, NoOrphanVideo, LiveIsKnown, Live, VideoShape
  <1> QED BY VideoInitially, VideoStep, <1>1, PTL DEF Spec

-----------------------------------------------------------------------------
(* The grading of answers: in whatever wording a vendor puts it, what is wrong
   for good is told from what passes, and what is wrong with the key from the
   rest. *)
Terminal(code, body) ==
  \/ code = -1
  \/ code > 0 /\ GR!OutOfCredit(code, body)
  \/ /\ code > 0 /\ ~GR!OutOfCredit(code, body)
     /\ GR!Status(code, body) = "unauthorized" \/ code = 404

LEMMA TerminalIs ==
  ASSUME NEW code \in Nat \cup {-1}, NEW body
  PROVE  GR!RequestVerdict(code, body).terminal <=> Terminal(code, body)
  <1>1. CASE code = -1
    BY <1>1 DEF GR!RequestVerdict, Terminal
  <1>2. CASE code = 0
    BY <1>2 DEF GR!RequestVerdict, Terminal
  <1>3. CASE code > 0 /\ GR!OutOfCredit(code, body)
    BY <1>3 DEF GR!RequestVerdict, Terminal
  <1>4. CASE code > 0 /\ ~GR!OutOfCredit(code, body)
    <2> DEFINE lasting == GR!Status(code, body) = "unauthorized" \/ code = 404
    <2>1. GR!RequestVerdict(code, body) = [terminal |-> lasting, status |-> GR!Status(code, body)]
      BY <1>4 DEF GR!RequestVerdict
    <2>2. Terminal(code, body) <=> lasting
      BY <1>4 DEF Terminal
    <2> HIDE DEF lasting
    <2>3. GR!RequestVerdict(code, body).terminal = lasting
      BY <2>1
    <2> QED BY <2>2, <2>3
  <1> QED BY <1>1, <1>2, <1>3, <1>4

LEMMA VerdictsByCause ==
  ASSUME NEW why \in GR!Troubles, NEW w \in GR!Wordings[why]
  PROVE  GR!RequestVerdict(w[1], w[2]).terminal <=> why \in GR!Lasting
  <1> USE DEF GR!Wordings, GR!Troubles, GR!Body, GR!Auth, GR!Billing, GR!Retry
  <1>1. w[1] \in Nat \cup {-1}
    OBVIOUS
  <1>2. CASE why \in {"no_key", "bad_key", "blank_key"}
    <2>1. Terminal(w[1], w[2])
      BY <1>2 DEF Terminal, GR!Status, GR!OutOfCredit
    <2> QED BY <1>1, <1>2, <2>1, TerminalIs DEF GR!Lasting
  <1>3. CASE why \in {"no_credit", "no_model"}
    <2>1. CASE why = "no_credit"
      <3> DEFINE both == [GR!Billing EXCEPT !.auth = TRUE]
      <3>0. /\ GR!Billing.billing /\ ~GR!Billing.retry /\ ~GR!Body.retry
            /\ both.billing /\ ~both.retry
        OBVIOUS
      <3> HIDE DEF both
      <3>2. w \in {<<429, GR!Billing>>, <<402, GR!Billing>>, <<402, GR!Body>>,
                   <<400, GR!Billing>>, <<402, both>>}
        BY <2>1 DEF both
      <3>1. w[1] \in {400, 402, 429} /\ ~w[2].retry /\ (w[1] = 402 \/ w[2].billing)
        BY <3>0, <3>2
      <3> QED BY <1>1, <2>1, <3>1, TerminalIs DEF Terminal, GR!OutOfCredit, GR!Lasting
    <2>2. CASE why = "no_model"
      <3>1. w[1] = 404
        BY <2>2
      <3> QED BY <1>1, <2>2, <3>1, TerminalIs DEF Terminal, GR!Lasting
    <2> QED BY <1>3, <2>1, <2>2
  <1>4. CASE why \in {"throttled", "broken", "dropped", "bad_clip"}
    <2>1. \/ w[1] \in {500, 502, 503} \/ w[1] = 0
          \/ w[1] = 400 /\ ~w[2].auth /\ ~w[2].billing
          \/ w[1] = 429 /\ (w[2].retry \/ ~w[2].billing)
      <3>1. CASE why = "throttled"
        <4> DEFINE both == [GR!Retry EXCEPT !.billing = TRUE]
        <4>1. ~GR!Body.billing /\ GR!Retry.retry /\ both.retry
          OBVIOUS
        <4> HIDE DEF both
        <4>2. w \in {<<429, GR!Body>>, <<429, GR!Retry>>, <<429, both>>}
          BY <3>1 DEF both
        <4> QED BY <4>1, <4>2
      <3>2. CASE why \in {"broken", "dropped", "bad_clip"}
        BY <3>2
      <3> QED BY <1>4, <3>1, <3>2
    <2>2. ~Terminal(w[1], w[2])
      <3>1. CASE w[1] \in {500, 502, 503} \/ w[1] = 0
        BY <3>1 DEF Terminal, GR!OutOfCredit, GR!Status
      <3>2. CASE w[1] = 400 /\ ~w[2].auth /\ ~w[2].billing
        BY <3>2 DEF Terminal, GR!OutOfCredit, GR!Status
      <3>3. CASE w[1] = 429 /\ (w[2].retry \/ ~w[2].billing)
        BY <3>3 DEF Terminal, GR!OutOfCredit, GR!Status
      <3> QED BY <2>1, <3>1, <3>2, <3>3
    <2> QED BY <1>1, <1>4, <2>2, TerminalIs DEF GR!Lasting
  <1> QED BY <1>2, <1>3, <1>4

LEMMA BadgesByCause ==
  ASSUME NEW why \in DOMAIN GR!Wordings \ {"bad_clip", "no_model"}, why = trouble,
         NEW w \in GR!Wordings[why]
  PROVE  /\ why \in GR!OfTheKey => GR!ProbeStatus(w[1], w[2]) = "unauthorized"
         /\ GR!ProbeStatus(w[1], w[2]) = "healthy" <=> why = "ok"
  <1> USE DEF GR!Wordings, GR!OfTheKey, GR!ProbeStatus, GR!Status, GR!Body, GR!Auth, GR!Billing,
              GR!Retry
  <1>1. CASE why \in {"ok", "no_key", "bad_key", "blank_key"}
    BY <1>1
  <1>2. CASE why \in {"no_credit", "throttled", "broken", "dropped"}
    BY <1>2
  <1> QED BY <1>1, <1>2

GradingInv == machine = "grading" => trouble \in DOMAIN GR!Wordings /\ GradedByCause

LEMMA GradingInitially == Init => GradingInv
  <1> SUFFICES ASSUME Init, machine = "grading" PROVE trouble \in DOMAIN GR!Wordings /\ GradedByCause
    BY DEF GradingInv
  <1>1. GR!GradingInit
    BY DEF Init, RoomInit, ConnectorInit, StreamInit
  <1> QED BY <1>1 DEF GR!GradingInit, GR!NoVerdict, GR!Wordings, GradedByCause, GR!Lasting, GR!OfTheKey

LEMMA GradingStep == GradingInv /\ [Next]_vars => GradingInv'
  <1> SUFFICES ASSUME GradingInv, [Next]_vars, machine = "grading" PROVE GradingInv'
    BY MachineStays DEF GradingInv
  <1>0. trouble \in DOMAIN GR!Wordings /\ GradedByCause /\ machine' = machine
    BY MachineStays DEF GradingInv
  <1>1. GR!GradingNext \/ UNCHANGED gradingVars
    BY DEF Next, vars, ConnectorNext, StreamNext, HandshakeStep, CallStep, BatchStep, RoomNext
  <1>2. CASE UNCHANGED gradingVars
    BY <1>0, <1>2 DEF GradingInv, GradedByCause, gradingVars
  <1>3. CASE GR!Requests
    <2>1. PICK w \in GR!Wordings[trouble] :
            verdict' = [of |-> trouble, terminal |-> GR!RequestVerdict(w[1], w[2]).terminal,
                        status |-> GR!RequestVerdict(w[1], w[2]).status]
      BY <1>3 DEF GR!Requests
    <2>2. PICK why \in GR!Troubles : why = trouble
      BY <1>0, <1>3 DEF GR!Requests, GR!Troubles
    <2>3. verdict'.terminal <=> verdict'.of \in GR!Lasting
      BY <2>1, <2>2, VerdictsByCause
    <2> QED BY <1>0, <1>3, <2>3 DEF GR!Requests, GradingInv, GradedByCause
  <1>4. CASE GR!Probes
    <2>1. PICK w \in GR!Wordings[trouble] :
            badge' = [of |-> trouble, terminal |-> FALSE, status |-> GR!ProbeStatus(w[1], w[2])]
      BY <1>4 DEF GR!Probes
    <2>2. PICK why \in DOMAIN GR!Wordings \ {"bad_clip", "no_model"} : why = trouble
      BY <1>0, <1>4 DEF GR!Probes
    <2>3. /\ badge'.of \in GR!OfTheKey => badge'.status = "unauthorized"
          /\ badge'.status = "healthy" <=> badge'.of = "ok"
      BY <2>1, <2>2, BadgesByCause
    <2> QED BY <1>0, <1>4, <2>3 DEF GR!Probes, GradingInv, GradedByCause
  <1>5. CASE GR!GoesWrong \/ GR!PassesByItself \/ GR!PutRight
    <2>1. trouble' \in DOMAIN GR!Wordings /\ UNCHANGED <<verdict, badge>>
      BY <1>5 DEF GR!GoesWrong, GR!PassesByItself, GR!PutRight, GR!Troubles, GR!Wordings
    <2> QED BY <1>0, <2>1 DEF GradingInv, GradedByCause
  <1> QED BY <1>1, <1>2, <1>3, <1>4, <1>5 DEF GR!GradingNext

(* A run leaves a provider for good exactly when what is wrong will not pass by
   itself, and a badge says unauthorized of every key it should and healthy of
   no other (classify_request_error, classify_status): the verdict is always
   that of the trouble it was met in, in every wording of it. *)
THEOREM AlwaysGradedByCause == Spec => []GradedByCause
  <1>1. GradingInv => GradedByCause
    BY DEF GradingInv, GradedByCause
  <1> QED BY GradingInitially, GradingStep, <1>1, PTL DEF Spec

-----------------------------------------------------------------------------
(* Speech.  While the loop runs, the recording is cut as SpeechProofs says; once
   it has ended, what that accounts for stays. *)
SpeechInv ==
  machine = "chunker" => SP!Accounted(take) /\ (take.at = "runs" => SP!Whole(take))

LEMMA SizesFit == SP!FramesFit
  BY FramesAssumption DEF CH!FramesFit, SP!FramesFit

LEMMA AccountsWhole == SP!Accounted(take) => SpeechIsWhole
<1> SUFFICES ASSUME SP!Accounted(take), machine = "chunker" PROVE SpeechIsWhole
  BY DEF SpeechIsWhole
<1> DEFINE s == take.wav
           index == take.index
           parts == [i \in DOMAIN index |-> index[i].pcm]
<1>1. PICK base \in Nat, k \in Nat : SP!Listed(index, s, base) /\ k <= Len(s) /\ base <= Len(s) - k
                     /\ take.voiced = SP!Ending(s, k)
  BY DEF SP!Accounted
<1>2. s \in Seq(Int) /\ SP!Rising(s) /\ take \in SP!Cut /\ index \in Seq(SP!Entry)
  BY DEF SP!Accounted, SP!Cut
<1>3. Uttered = SP!FlattenSeq(parts) \o SP!Ending(s, k)
  BY <1>1 DEF Uttered, SP!FlattenSeq, FlattenSeq
<1>4. SP!Rising(Uttered) /\ SP!ToSet(Uttered) = SP!InIndex(index) \cup SP!ToSet(SP!Ending(s, k))
  <2> HIDE DEF s, index
  <2> QED BY <1>1, <1>2, <1>3, SP!ListedRises
<1>5. take.spoken \subseteq ToSet(Uttered)
  <2>1. take.spoken \subseteq SP!Known(take)
    BY DEF SP!Accounted
  <2>2. ToSet(Uttered) = SP!ToSet(Uttered)
    BY DEF SP!ToSet, ToSet
  <2> QED BY <1>1, <1>4, <2>1, <2>2 DEF SP!Known
<1>6. ASSUME NEW i \in 1..Len(index)
      PROVE  SubSeq(s, index[i].offset + 1 - index[i].late,
                       index[i].offset - index[i].late + Len(index[i].pcm)) = index[i].pcm
  <2> DEFINE e == index[i]
  <2>1. SP!Placed(e, s)
    BY <1>1 DEF SP!Listed
  <2> HIDE DEF e, s
  <2>2. e.offset \in Nat /\ e.late \in Nat /\ e.pcm = SubSeq(s, e.offset - e.late + 1, e.offset - e.late + Len(e.pcm))
    BY <2>1 DEF SP!Placed, SP!Entry, SP!Slice, SP!Start, SP!Stop
  <2>3. e.offset - e.late + 1 = e.offset + 1 - e.late
    BY <2>2
  <2>4. SubSeq(s, e.offset + 1 - e.late, e.offset - e.late + Len(e.pcm)) = e.pcm
    BY <2>2, <2>3
  <2> QED BY <2>4 DEF e
<1>7. DOMAIN index = 1..Len(index)
  BY <1>2
<1>8. \A i \in 1..Len(index) :
       /\ Len(index[i].pcm) <= MaxUtterance
       /\ index[i].late > 0 => i = Len(index) /\ take.at = "closed"
  BY DEF SP!Accounted
<1>9. Ordered(s) /\ Ordered(Uttered)
  BY <1>2, <1>4 DEF Ordered, SP!Rising
<1>10. ASSUME NEW i \in DOMAIN index
       PROVE  LET e == index[i] IN
              /\ Len(e.pcm) <= MaxUtterance
              /\ SubSeq(s, e.offset + 1 - e.late, e.offset - e.late + Len(e.pcm)) = e.pcm
              /\ e.late > 0 => i = Len(index) /\ take.at = "closed"
  BY <1>6, <1>7, <1>8
<1> QED BY <1>5, <1>9, <1>10 DEF SpeechIsWhole

LEMMA SpeechInitially == Init => SpeechInv
  <1> SUFFICES ASSUME Init, machine = "chunker"
               PROVE  SP!Accounted(take) /\ (take.at = "runs" => SP!Whole(take))
    BY DEF SpeechInv
  <1>1. CH!ChunkerInit
    BY DEF Init, RoomInit, ConnectorInit, StreamInit
  <1>2. SP!ChunkerInit
    BY <1>1 DEF CH!ChunkerInit, SP!ChunkerInit
  <1>3. SP!Whole(take) /\ take.at = "runs"
    BY <1>2, SizesFit, SP!NothingHeard
  <1> QED BY <1>3, SizesFit, SP!TellsWhole

(* SpeechProofs speaks of the same steps. *)
LEMMA SameParts ==
  /\ \A s : CH!ToSet(s) = SP!ToSet(s) /\ CH!FlattenSeq(s) = SP!FlattenSeq(s) /\ CH!Newest(s) = SP!Newest(s)
  /\ \A c : CH!Written(c) = SP!Written(c)
  /\ \A c, late : CH!Marks(c, late) = SP!Marks(c, late)
<1>1. \A s : CH!ToSet(s) = SP!ToSet(s) /\ CH!FlattenSeq(s) = SP!FlattenSeq(s) /\ CH!Newest(s) = SP!Newest(s)
  BY DEF CH!ToSet, SP!ToSet, CH!FlattenSeq, SP!FlattenSeq, CH!Newest, SP!Newest
<1>2. \A c : CH!Written(c) = SP!Written(c)
  BY DEF CH!Written, SP!Written
<1>3. \A c, late : CH!Marks(c, late) = SP!Marks(c, late)
  BY DEF CH!Marks, SP!Marks
<1> QED BY <1>1, <1>2, <1>3

LEMMA SameSteps == CH!ChunkerNext => SP!ChunkerNext
<1>1. ASSUME NEW c PROVE CH!Flushed(c) = SP!Flushed(c)
  <2> DEFINE zero == 0
             none == << >>
             m == CH!Marks(c, zero)
             n == SP!Marks(c, zero)
  <2>1. CH!Flushed(c) = [m EXCEPT !.voiced = none, !.quiet = zero, !.roll = none]
    BY DEF CH!Flushed
  <2>2. SP!Flushed(c) = [n EXCEPT !.voiced = none, !.quiet = zero, !.roll = none]
    BY DEF SP!Flushed
  <2> HIDE DEF zero, none
  <2>3. m = n
    BY SameParts
  <2> HIDE DEF m, n
  <2> QED BY <2>1, <2>2, <2>3
<1>2. ASSUME NEW c, NEW late PROVE CH!Closed(c, late) = SP!Closed(c, late)
  <2> DEFINE none == << >>
             closed == "closed"
             m == CH!Marks(c, late)
             n == SP!Marks(c, late)
  <2>1. CH!Closed(c, late) = [IF c.voiced = none THEN c ELSE m EXCEPT !.voiced = none, !.at = closed]
    BY DEF CH!Closed
  <2>2. SP!Closed(c, late) = [IF c.voiced = none THEN c ELSE n EXCEPT !.voiced = none, !.at = closed]
    BY DEF SP!Closed
  <2>3. m = n
    BY SameParts
  <2> HIDE DEF m, n, none, closed
  <2> QED BY <2>1, <2>2, <2>3
<1>3. ASSUME NEW c, NEW t PROVE CH!Waits(c, t) = SP!Waits(c, t)
  <2> DEFINE roll == CH!Newest(Append(c.roll, t))
             all == CH!FlattenSeq(roll)
  <2>1. roll = SP!Newest(Append(c.roll, t)) /\ all = SP!FlattenSeq(roll)
    BY SameParts
  <2>2. CH!Waits(c, t) = [c EXCEPT !.roll = roll, !.quiet = IF c.says THEN 0 ELSE @,
                                   !.voiced = IF c.says THEN all ELSE @]
    BY DEF CH!Waits
  <2>3. SP!Waits(c, t) = [c EXCEPT !.roll = SP!Newest(Append(c.roll, t)), !.quiet = IF c.says THEN 0 ELSE @,
                    !.voiced = IF c.says THEN SP!FlattenSeq(SP!Newest(Append(c.roll, t))) ELSE @]
    BY DEF SP!Waits
  <2> HIDE DEF roll, all
  <2>4. SP!Waits(c, t) = [c EXCEPT !.roll = roll, !.quiet = IF c.says THEN 0 ELSE @,
                                   !.voiced = IF c.says THEN all ELSE @]
    BY <2>1, <2>3
  <2> QED BY <2>2, <2>4
<1>4. ASSUME NEW c, NEW t PROVE CH!Extends(c, t) = SP!Extends(c, t)
  <2> DEFINE d == [c EXCEPT !.voiced = @ \o t, !.quiet = IF c.says THEN 0 ELSE @ + 1]
  <2>1. CH!Extends(c, t) = IF d.quiet >= Silence \/ Len(d.voiced) >= MaxUtterance THEN CH!Flushed(d) ELSE d
    BY DEF CH!Extends
  <2>2. SP!Extends(c, t) = IF d.quiet >= Silence \/ Len(d.voiced) >= MaxUtterance THEN SP!Flushed(d) ELSE d
    BY DEF SP!Extends
  <2>3. CH!Flushed(d) = SP!Flushed(d)
    BY <1>1
  <2> HIDE DEF d
  <2> QED BY <2>1, <2>2, <2>3
<1>5. \A c, t : CH!Feeds(c, t) = SP!Feeds(c, t)
  BY <1>3, <1>4 DEF CH!Feeds, SP!Feeds
<1>6. ASSUME NEW c, NEW t, NEW v PROVE CH!Judges(c, t, v) = SP!Judges(c, t, v)
  <2> DEFINE sound == c.window \o t
             window == SubSeq(sound, 1, VadWindow)
             units == CH!ToSet(window)
  <2>1. units = SP!ToSet(window)
    BY SameParts
  <2>2. CH!Judges(c, t, v) =
          IF Len(sound) < VadWindow THEN [c EXCEPT !.window = sound]
          ELSE [c EXCEPT !.window = SubSeq(sound, VadWindow + 1, Len(sound)), !.says = v,
                         !.spoken = IF v THEN @ \cup units ELSE @]
    BY DEF CH!Judges
  <2>3. SP!Judges(c, t, v) =
          IF Len(sound) < VadWindow THEN [c EXCEPT !.window = sound]
          ELSE [c EXCEPT !.window = SubSeq(sound, VadWindow + 1, Len(sound)), !.says = v,
                         !.spoken = IF v THEN @ \cup SP!ToSet(window) ELSE @]
    BY DEF SP!Judges
  <2> HIDE DEF sound, window, units
  <2> QED BY <2>1, <2>2, <2>3
<1>7. CH!TakesFrame => SP!TakesFrame
  BY <1>5, <1>6, SameParts DEF CH!TakesFrame, SP!TakesFrame
<1>8. CH!Delivers => SP!Delivers
  BY DEF CH!Delivers, SP!Delivers
<1>9. CH!TakesBlock => SP!TakesBlock
  BY DEF CH!TakesBlock, SP!TakesBlock
<1>10. CH!Stops \/ CH!BreaksMidFrame => SP!Stops \/ SP!BreaksMidFrame
  BY <1>2, SameParts DEF CH!Stops, SP!Stops, CH!BreaksMidFrame, SP!BreaksMidFrame
<1> QED BY <1>7, <1>8, <1>9, <1>10 DEF CH!ChunkerNext, SP!ChunkerNext

LEMMA SpeechStep == SpeechInv /\ [Next]_vars => SpeechInv'
  <1> SUFFICES ASSUME SpeechInv, [Next]_vars, machine = "chunker" PROVE SpeechInv'
    BY MachineStays DEF SpeechInv
  <1>1. CH!ChunkerNext \/ UNCHANGED take
    BY DEF Next, vars, roomVars, ConnectorNext, StreamNext, HandshakeStep, CallStep, BatchStep, RoomNext
  <1>2. SP!Accounted(take) /\ (take.at = "runs" => SP!Whole(take))
    BY DEF SpeechInv
  <1>3. SP!ChunkerNext \/ UNCHANGED take
    BY <1>1, SameSteps
  <1> QED BY <1>2, <1>3, SizesFit, SP!SpeechStays DEF SpeechInv

(* Whatever blocks the device loses and wherever the capture is cut, audio
   judged to be speech is in exactly one utterance, in order, none longer than
   the cap, and each is where the index says it is in the recording, save the
   last of a capture cut mid-frame, which is there a frame earlier
   (VadChunker, mark_utterance, _capture_utterances): every entry is a
   part of the recording that ends before the next one begins, and what is not
   yet one is its end. *)
THEOREM SpeechAlwaysWhole == Spec => []SpeechIsWhole
  <1>1. SpeechInv => SpeechIsWhole
    BY AccountsWhole DEF SpeechInv, SpeechIsWhole
  <1> QED BY SpeechInitially, SpeechStep, <1>1, PTL DEF Spec
=============================================================================

-------------------------- MODULE BootstrapProofs ---------------------------
(***************************************************************************)
(* What holds of Bootstrap for any deadline, pauses and durations of       *)
(* attempts.                                                               *)
(***************************************************************************)
EXTENDS Bootstrap, TLAPS

\* The stages before the one named, in the order of bootstrap().
BeforeHttpDb == {"connect", "pause", "createHttp", "initHttp", "gaveUp", "dead"}

BeforeCrons == BeforeHttpDb \cup {"listenHttp", "initGrpc", "startCrons"}

\* What a process has is what the stages behind it gave it.
StageInv ==
    /\ TypeOK
    /\ ServesWhatItCan
    /\ stage \notin {"connect", "pause", "gaveUp", "dead"} => producer
    /\ stage \notin BeforeHttpDb => "http" \in db
    /\ webhook => stage \notin BeforeHttpDb \cup {"listenHttp"}
    /\ stage \notin BeforeHttpDb \cup {"listenHttp"} => webhook
    /\ stage \notin BeforeHttpDb \cup {"listenHttp", "initGrpc"} => "grpc" \in db
    /\ crons => stage \notin BeforeCrons
    /\ stage \notin BeforeCrons => crons
    /\ grpc => stage = "up"

LEMMA StageInit == Init => StageInv
  <1> SUFFICES ASSUME Init
               PROVE  StageInv
    OBVIOUS
  <1>1. clock \in Nat
    BY DEF Init
  <1>2. TypeOK
    BY <1>1 DEF Init, TypeOK, Stage
  <1>3. stage \in BeforeHttpDb \cap BeforeCrons
    BY DEF Init, BeforeHttpDb, BeforeCrons
  <1>4. QED
    BY <1>2, <1>3 DEF Init, StageInv, ServesWhatItCan, BeforeCrons

LEMMA StageStep ==
    ASSUME StageInv, [Next]_vars
    PROVE  StageInv'
  <1> USE TimesAssumption DEF StageInv, TypeOK, ServesWhatItCan, Stage, App, BeforeHttpDb, BeforeCrons
  <1>1. CASE UNCHANGED vars
    BY <1>1 DEF vars, services
  <1>2. CASE ProducerConnects
    BY <1>2 DEF ProducerConnects
  <1>3. CASE ConnectFails
    BY <1>3 DEF ConnectFails, services
  <1>4. CASE GivesUp
    <2>1. clock' \in Nat
      BY <1>4 DEF GivesUp
    <2>2. stage' = "gaveUp" /\ Ends
      BY <1>4 DEF GivesUp
    <2>3. QED
      BY <2>1, <2>2 DEF Ends
  <1>5. CASE PauseEnds
    BY <1>5 DEF PauseEnds, services
  <1>6. CASE CreateHttpApp
    BY <1>6 DEF CreateHttpApp, services
  <1>7. CASE InitHttpApp
    BY <1>7 DEF InitHttpApp
  <1>8. CASE ListenHttp
    BY <1>8 DEF ListenHttp
  <1>9. CASE InitGrpcApp
    BY <1>9 DEF InitGrpcApp
  <1>10. CASE StartCrons
    BY <1>10 DEF StartCrons
  <1>11. CASE ListenGrpc
    BY <1>11 DEF ListenGrpc
  <1>12. CASE StepFails \/ Killed
    BY <1>12 DEF StepFails, Killed, Ends
  <1>13. CASE Restart
    BY <1>13 DEF Restart, services
  <1>14. QED
    BY <1>1, <1>2, <1>3, <1>4, <1>5, <1>6, <1>7, <1>8, <1>9, <1>10, <1>11, <1>12, <1>13
       DEF Next, Progress

\* Nothing is served before what it needs is connected.
THEOREM ConnectedBeforeServing == Spec => []ServesWhatItCan
  <1>1. StageInv => ServesWhatItCan
    BY DEF StageInv
  <1>2. QED
    BY <1>1, StageInit, StageStep, PTL DEF Spec

-----------------------------------------------------------------------------
(* The connect loop                                                        *)

\* A pause begins before the deadline.
LoopInv ==
    /\ clock \in Nat
    /\ AttemptsEnd
    /\ stage = "pause" => clock <= Deadline

LEMMA LoopInit == Init => LoopInv
  BY TimesAssumption DEF Init, LoopInv, AttemptsEnd

LEMMA LoopStep ==
    ASSUME LoopInv, [Next]_vars
    PROVE  LoopInv'
  <1> USE TimesAssumption DEF LoopInv, AttemptsEnd
  <1>1. CASE UNCHANGED vars
    BY <1>1 DEF vars
  <1>2. CASE ProducerConnects
    BY <1>2 DEF ProducerConnects
  <1>3. CASE ConnectFails
    BY <1>3 DEF ConnectFails, TooLate
  <1>4. CASE GivesUp
    BY <1>4 DEF GivesUp, Ends
  <1>5. CASE PauseEnds
    BY <1>5 DEF PauseEnds
  <1>6. CASE CreateHttpApp \/ InitHttpApp \/ ListenHttp \/ InitGrpcApp \/ StartCrons \/ ListenGrpc
    BY <1>6 DEF CreateHttpApp, InitHttpApp, ListenHttp, InitGrpcApp, StartCrons, ListenGrpc
  <1>7. CASE StepFails \/ Killed
    BY <1>7 DEF StepFails, Killed, Ends
  <1>8. CASE Restart
    BY <1>8 DEF Restart
  <1>9. QED
    BY <1>1, <1>2, <1>3, <1>4, <1>5, <1>6, <1>7, <1>8 DEF Next, Progress

\* The safety half of TimelyBrokerFound: the loop gives up on no broker that was
\* up one attempt before the deadline.
THEOREM GivesUpOnlyLate == Spec => [](stage = "gaveUp" => upAt + MaxAttempt > Deadline)
  <1> DEFINE late == stage = "gaveUp" => upAt + MaxAttempt > Deadline
             known == clock \in Nat /\ upAt \in Nat
  <1>1. Init => known /\ late
    BY TimesAssumption DEF Init
  <1>2. LoopInv /\ LoopInv' /\ known /\ late /\ [Next]_vars => known' /\ late'
    <2> SUFFICES ASSUME LoopInv, LoopInv', known, late, [Next]_vars
                 PROVE  known' /\ late'
      OBVIOUS
    <2> USE TimesAssumption
    <2>1. CASE UNCHANGED vars
      BY <2>1 DEF vars, LoopInv
    <2>2. CASE GivesUp
      <3>1. PICK d \in 0..MaxAttempt : clock < upAt /\ clock + d > Deadline
        BY <2>2 DEF GivesUp, TooLate
      <3>2. upAt' = upAt /\ clock' \in Nat
        BY <2>2 DEF GivesUp, Ends, LoopInv
      <3>3. QED
        BY <3>1, <3>2
    <2>3. CASE Restart
      BY <2>3 DEF Restart
    <2>4. CASE \/ ProducerConnects \/ ConnectFails \/ PauseEnds \/ CreateHttpApp
               \/ InitHttpApp \/ ListenHttp \/ InitGrpcApp \/ StartCrons \/ ListenGrpc
               \/ StepFails \/ Killed
      <3>1. stage' # "gaveUp" /\ upAt' = upAt
        BY <2>4 DEF ProducerConnects, ConnectFails, PauseEnds, CreateHttpApp, InitHttpApp,
               ListenHttp, InitGrpcApp, StartCrons, ListenGrpc, StepFails, Killed, Ends, services
      <3>2. QED
        BY <3>1 DEF LoopInv
    <2>5. QED
      BY <2>1, <2>2, <2>3, <2>4 DEF Next, Progress
  <1>3. LoopInv /\ [Next]_vars => LoopInv'
    BY LoopStep
  <1>4. QED
    BY <1>1, <1>2, <1>3, LoopInit, PTL DEF Spec

\* No attempt to connect begins later than one pause after the deadline.
THEOREM LoopEnds == Spec => []AttemptsEnd
  <1>1. LoopInv => AttemptsEnd
    BY DEF LoopInv
  <1>2. QED
    BY <1>1, LoopInit, LoopStep, PTL DEF Spec

=============================================================================

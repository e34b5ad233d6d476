-------------------------- MODULE MCPlatformServices --------------------------
(* One instance for parts of the platform that share no state: runs whose   *)
(* heartbeats come in time, and the services that watch and announce.  A    *)
(* behaviour exercises the part named by `subject`.                         *)
EXTENDS MCEvaluationRuns, ThresholdAlerts, NotificationCenter, ModuleHub,
    CopilotRuns, AccountSessions, VerificationCodes

VARIABLE subject

runVars == vars
platformVars == <<runVars, alertVars, centerVars, hubVars, copilotVars,
                  sessionVars, codeVars, subject>>

\* Users, conversations and requests of the chat are interchangeable: the
\* first run may as well be the first of each.
FirstChat ==
    chatRuns'[1].pc # "unused" =>
        /\ chatRuns'[1].user = CHOOSE u \in Chatters : TRUE
        /\ chatRuns'[1].chat = CHOOSE c \in Chats : TRUE
        /\ chatRuns'[1].request = CHOOSE q \in ChatRequests : TRUE

\* Digits and requests are interchangeable: the first code has the digits chosen
\* first, and a request takes the first free slot.
FirstCode ==
    /\ codes' # << >> => codes'[1].digits = SomeDigits
    /\ (\A c \in Clients : codePc[c] = "idle") =>
          \A c \in Clients \ {CHOOSE d \in Clients : TRUE} : codePc'[c] = "idle"

\* A report takes the first free slot.
FirstReport ==
    Awaiting = {} => \A r \in Reporters \ {CHOOSE q \in Reporters : TRUE} : reported'[r] = NoCommit

SomeDates == [c \in Commits |-> IF c = 1 THEN 1 ELSE 2]
SomeShas == [c \in Commits |-> 4 - c]

Subjects == {"runs", "alerts", "notifications", "hub", "chats", "sessions", "codes"}

Others(s) ==
    /\ s # "runs" => UNCHANGED runVars
    /\ s # "alerts" => UNCHANGED alertVars
    /\ s # "notifications" => UNCHANGED centerVars
    /\ s # "hub" => UNCHANGED hubVars
    /\ s # "chats" => UNCHANGED copilotVars
    /\ s # "sessions" => UNCHANGED sessionVars
    /\ s # "codes" => UNCHANGED codeVars

Turn(s, A) == subject = s /\ A /\ Others(s) /\ UNCHANGED subject

PlatformNext ==
    \/ Turn("runs", Next)
    \/ Turn("alerts", AlertsNext)
    \/ Turn("notifications", CenterNext)
    \/ Turn("hub", HubNext /\ FirstReport)
    \/ Turn("chats", CopilotNext /\ FirstChat)
    \/ Turn("sessions", SessionsNext)
    \/ Turn("codes", CodesNext /\ FirstCode)

PlatformInit ==
    /\ subject \in Subjects
    /\ Init /\ AlertsInit /\ CenterInit /\ HubInit /\ CopilotInit
    /\ SessionsInit /\ CodesInit
    /\ subject # "hub" => releases = {}
    /\ subject # "sessions" => prompt

PlatformSpec == PlatformInit /\ [][PlatformNext]_platformVars

-----------------------------------------------------------------------------
\* The service that a behaviour is about is in states of its types.
PlatformTypeOK ==
    /\ subject = "notifications" => NotificationsTypeOK
    /\ subject = "alerts" => AlertsTypeOK
    /\ subject = "hub" => HubTypeOK
    /\ subject = "chats" => CopilotTypeOK
    /\ subject = "sessions" => SessionsTypeOK
    /\ subject = "codes" => CodesTypeOK
=============================================================================

----------------------------- MODULE Handshake ------------------------------
(***************************************************************************)
(* AttemptHandshake of tlsscan/dialer.go, as getSupportedProtocols of      *)
(* tlsscan/tls_scan.go calls it for one protocol version after the other.  *)
(*                                                                         *)
(* An attempt has three goroutines: the caller, the timer's function and   *)
(* crypto/tls's Handshake.  The last two report on the buffered channel    *)
(* errChannel, and the caller takes what comes first.  After a timeout the *)
(* caller goes on, to the next version too, while the handshake of this    *)
(* attempt may still run, call the callbacks and write the fields of its   *)
(* connection, which the caller reads without synchronization.             *)
(***************************************************************************)
EXTENDS Naturals, Sequences, FiniteSets

CONSTANTS
    Version,     \* ProtocolVersions
    Negotiates,  \* the versions for which the service chooses a cipher suite
    Serves,      \* ... and shows a certificate
    Requests     \* ... and asks for one of the client

ASSUME ServiceAssumption ==
    /\ IsFiniteSet(Version)
    /\ Negotiates \subseteq Version
    /\ Serves \subseteq Negotiates /\ Requests \subseteq Serves

VARIABLES
    caller,     \* getSupportedProtocols: pc, the version tried, err, and
                \* whether err came from the handshake
    attempt,    \* attempt[v]: the variables of the call for version v
    answer,     \* what AttemptHandshake returned for each version
    supported   \* supportedVersions

vars == <<caller, attempt, answer, supported>>

Capacity == 2

\* nil, and the errors told apart here: the timeout, ErrExpectedAbort, others.
Nil == "nil"
TimedOut == "timed out"
ExpectedAbort == "aborted"
Failed == "failed"
Err == {Nil, TimedOut, ExpectedAbort, Failed}

\* An attempt that has not been made: its timer, its connection, the pc and
\* the result of its handshake, errChannel, and the two things the handshake
\* leaves behind: the connection's cipherSuite and the callback's mark.
NotMade == [timer |-> "off", conn |-> "none", pc |-> "off", result |-> Nil,
            errChannel |-> <<>>, cipherSuite |-> FALSE, providesCert |-> FALSE]

Init ==
    /\ caller \in [pc : {"next"}, v : Version, err : {Nil}, heard : {FALSE}]
    /\ attempt = [v \in Version |-> NotMade]
    /\ answer = [v \in Version |-> "none"]
    /\ supported = {}

Update(v, r) == attempt' = [attempt EXCEPT ![v] = r]

-----------------------------------------------------------------------------
(* The caller.                                                             *)

\* Fault: no timer is set.
BeginUntimed(v) ==
    /\ caller.pc = "next" /\ attempt[v].timer = "off"
    /\ caller' = [pc |-> "dial", v |-> v, err |-> Nil, heard |-> FALSE]
    /\ UNCHANGED <<attempt, answer, supported>>

\* The next version: the timer is set before the service is dialled.
Begin(v) ==
    /\ caller.pc = "next" /\ attempt[v].timer = "off"
    /\ caller' = [pc |-> "dial", v |-> v, err |-> Nil, heard |-> FALSE]
    /\ Update(v, [attempt[v] EXCEPT !.timer = "set"])
    /\ UNCHANGED <<answer, supported>>

Dial(v) ==
    /\ caller.pc = "dial" /\ caller.v = v
    /\ caller' = [caller EXCEPT !.pc = "wait"]
    /\ Update(v, [attempt[v] EXCEPT !.conn = "open", !.pc = "hello"])
    /\ UNCHANGED <<answer, supported>>

\* No connection, or none within the dialer's timeout.
DialFails(v) ==
    /\ caller.pc = "dial" /\ caller.v = v
    /\ caller' = [caller EXCEPT !.pc = "judge"]
    /\ answer' = [answer EXCEPT ![v] = Failed]
    /\ UNCHANGED <<attempt, supported>>

ReceiveErr(v) ==
    /\ caller.pc = "wait" /\ caller.v = v
    /\ attempt[v].errChannel # <<>>
    /\ caller' = [caller EXCEPT !.pc = "close", !.err = Head(attempt[v].errChannel),
                                !.heard = Head(attempt[v].errChannel) # TimedOut]
    /\ Update(v, [attempt[v] EXCEPT !.errChannel = Tail(@)])
    /\ UNCHANGED <<answer, supported>>

\* Fault: the connection is closed after a successful handshake only.
CloseUnlessError(v) ==
    /\ caller.pc = "close" /\ caller.v = v
    /\ caller' = [caller EXCEPT !.pc = "decide"]
    /\ Update(v, [attempt[v] EXCEPT !.conn = IF caller.err = Nil THEN "closed" ELSE @])
    /\ UNCHANGED <<answer, supported>>

Close(v) ==
    /\ caller.pc = "close" /\ caller.v = v
    /\ caller' = [caller EXCEPT !.pc = "decide"]
    /\ Update(v, [attempt[v] EXCEPT !.conn = "closed"])
    /\ UNCHANGED <<answer, supported>>

\* What an unsynchronized read of x, which only ever becomes TRUE, may see.
Seen(x) == IF caller.heard THEN {x} ELSE {x, FALSE}

\* Fault: the error is returned whatever suite was negotiated.
DecideByError(v) ==
    /\ caller.pc = "decide" /\ caller.v = v
    /\ caller' = [caller EXCEPT !.pc = "judge"]
    /\ answer' = [answer EXCEPT ![v] = caller.err]
    /\ UNCHANGED <<attempt, supported>>

\* The reflected cipherSuite is read last, after the connection is closed.
Decide(v) ==
    /\ caller.pc = "decide" /\ caller.v = v
    /\ caller' = [caller EXCEPT !.pc = "judge"]
    /\ \E negotiated \in Seen(attempt[v].cipherSuite) :
          answer' = [answer EXCEPT ![v] = IF negotiated THEN Nil ELSE caller.err]
    /\ UNCHANGED <<attempt, supported>>

\* getSupportedProtocols goes by the callback's mark, not by the answer.
Judge(v) ==
    /\ caller.pc = "judge" /\ caller.v = v
    /\ caller' = [caller EXCEPT !.pc = "next"]
    /\ \E provides \in Seen(attempt[v].providesCert) :
          supported' = IF provides THEN supported \cup {v} ELSE supported
    /\ UNCHANGED <<attempt, answer>>

CallerStep ==
    \E v \in Version : \/ Begin(v) \/ Dial(v) \/ DialFails(v) \/ ReceiveErr(v)
                       \/ Close(v) \/ Decide(v) \/ Judge(v)

-----------------------------------------------------------------------------
(* The timer's function.                                                   *)

Fire(v) ==
    /\ attempt[v].timer = "set"
    /\ Update(v, [attempt[v] EXCEPT !.timer = "send"])
    /\ UNCHANGED <<caller, answer, supported>>

SendTimeout(v) ==
    /\ attempt[v].timer = "send"
    /\ Len(attempt[v].errChannel) < Capacity
    /\ Update(v, [attempt[v] EXCEPT !.timer = "end", !.errChannel = Append(@, TimedOut)])
    /\ UNCHANGED <<caller, answer, supported>>

TimerStep(v) == Fire(v) \/ SendTimeout(v)

-----------------------------------------------------------------------------
(* conn.Handshake.  What has been received can still be processed when the *)
(* connection is closed, and any step may fail.                            *)

ServerHello(v) ==
    /\ attempt[v].pc = "hello" /\ v \in Negotiates
    /\ Update(v, [attempt[v] EXCEPT !.pc = "certificate", !.cipherSuite = TRUE])
    /\ UNCHANGED <<caller, answer, supported>>

\* Fault: the callback's variables are shared by all versions.
CertificateOfAny(v) ==
    /\ attempt[v].pc = "certificate" /\ v \in Serves
    /\ attempt' = [attempt EXCEPT ![v].pc = "finish", ![caller.v].providesCert = TRUE]
    /\ UNCHANGED <<caller, answer, supported>>

\* VerifyPeerCertificate.
Certificate(v) ==
    /\ attempt[v].pc = "certificate" /\ v \in Serves
    /\ Update(v, [attempt[v] EXCEPT !.pc = "finish", !.providesCert = TRUE])
    /\ UNCHANGED <<caller, answer, supported>>

\* GetClientCertificate gives up on purpose; without a request all is well.
Finish(v) ==
    /\ attempt[v].pc = "finish"
    /\ Update(v, [attempt[v] EXCEPT
                     !.pc = "send", !.result = IF v \in Requests THEN ExpectedAbort ELSE Nil])
    /\ UNCHANGED <<caller, answer, supported>>

HandshakeFails(v) ==
    /\ attempt[v].pc \in {"hello", "certificate", "finish"}
    /\ Update(v, [attempt[v] EXCEPT !.pc = "send", !.result = Failed])
    /\ UNCHANGED <<caller, answer, supported>>

\* Fault: errChannel is unbuffered.
SendResultIfAwaited(v) ==
    /\ attempt[v].pc = "send"
    /\ caller.pc = "wait" /\ caller.v = v
    /\ Update(v, [attempt[v] EXCEPT !.pc = "end", !.errChannel = Append(@, attempt[v].result)])
    /\ UNCHANGED <<caller, answer, supported>>

SendResult(v) ==
    /\ attempt[v].pc = "send"
    /\ Len(attempt[v].errChannel) < Capacity
    /\ Update(v, [attempt[v] EXCEPT !.pc = "end", !.errChannel = Append(@, attempt[v].result)])
    /\ UNCHANGED <<caller, answer, supported>>

HandshakeStep(v) ==
    ServerHello(v) \/ Certificate(v) \/ Finish(v) \/ HandshakeFails(v) \/ SendResult(v)

-----------------------------------------------------------------------------

\* Every version was tried, and no goroutine is left behind.
AllEnded ==
    /\ caller.pc = "next"
    /\ \A v \in Version : attempt[v].timer = "end" /\ attempt[v].pc \in {"off", "end"}
Terminated == AllEnded /\ UNCHANGED vars

Next ==
    \/ CallerStep
    \/ \E v \in Version : TimerStep(v) \/ HandshakeStep(v)
    \/ Terminated

\* The dialer's timeout ends Dial, the timer fires, and a handshake on a
\* connection that is closed ends; the service itself need never answer.
Fairness ==
    /\ WF_vars(CallerStep)
    /\ \A v \in Version : /\ WF_vars(TimerStep(v))
                          /\ WF_vars(attempt[v].conn = "closed" /\ HandshakeFails(v))
                          /\ WF_vars(SendResult(v))

Spec == Init /\ [][Next]_vars /\ Fairness

-----------------------------------------------------------------------------
(* Properties.                                                             *)

Attempt == [timer : {"off", "set", "send", "end"}, conn : {"none", "open", "closed"},
            pc : {"off", "hello", "certificate", "finish", "send", "end"},
            result : Err, errChannel : Seq(Err),
            cipherSuite : BOOLEAN, providesCert : BOOLEAN]

\* The types of the variables; a service is only dialled with the timer set.
TypeOK ==
    /\ caller \in [pc : {"next", "dial", "wait", "close", "decide", "judge"},
                   v : Version, err : Err, heard : BOOLEAN]
    /\ attempt \in [Version -> Attempt]
    /\ answer \in [Version -> Err \cup {"none"}]
    /\ supported \subseteq Version
    /\ \A v \in Version : attempt[v].conn # "none" => attempt[v].timer # "off"

\* A version is taken to be supported only when the service shows a
\* certificate under that version, not when a handshake left over from
\* another version gets its certificate late.
SupportedIsServed == supported \subseteq Serves

\* AttemptHandshake answers nil only when the service chose a cipher suite,
\* and the handshake that is given up because the service asks for a client
\* certificate is no error: the suite was chosen before that.
AnswerIsNegotiation ==
    \A v \in Version :
       /\ answer[v] = Nil => v \in Negotiates
       /\ answer[v] # ExpectedAbort

\* One connection to the service is open at a time, and none is left open.
OneConnection ==
    \A v \in Version :
       attempt[v].conn = "open" => caller.v = v /\ caller.pc \in {"wait", "close"}

\* getSupportedProtocols returns, also when the service never answers, and
\* every timer and every handshake it started ends.
AllEnd == <>[]AllEnded
=============================================================================

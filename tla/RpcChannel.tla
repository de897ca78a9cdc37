----------------------------- MODULE RpcChannel -----------------------------
(***************************************************************************)
(* master/net/protorpc/RpcChannel.cc over ProtobufCodecLite and Buffer: a  *)
(* client channel that several threads call and a server channel with a    *)
(* service, joined by a connection that delivers bytes in order, cut       *)
(* anywhere.                                                               *)
(*                                                                         *)
(* An RpcMessage is three bytes: type, id, and what it asks or answers.    *)
(* The service keeps a request as long as it likes, answers it once and    *)
(* before the channel dies (doneCallback() holds a bare pointer to it).    *)
(***************************************************************************)
EXTENDS ProtobufCodecLite, FiniteSets, SequencesExt

CONSTANTS
  Callers,      \* client threads; each makes one call
  ReadSizes,    \* how much one read may take at most
  Strays        \* frames of the wire that no codec of ours made; <<>> for none

Sides == {"client", "server"}
Peer(side) == IF side = "client" THEN "server" ELSE "client"

REQUEST == 1
RESPONSE == 2

\* What a request can name, and the byte that answers it: the result, or an error code.
Good == 0
Asks == {Good, 1, 2, 3}     \* then: no such service, no such method, an invalid request
NO_SERVICE == 2
NO_METHOD == 3
INVALID_REQUEST == 4
Result == 9                 \* a response in place of an error

VARIABLES
  id_, outstandings_,
  caller,        \* of each thread: the place in CallMethod(), its id and what it asks
  wire,          \* bytes on their way to each side
  inputBuffer_, reading, connected,
  serving,       \* requests that the service has not answered
  asked,         \* history: what each id asked
  answered,      \* history: the answers that ran done, as <<id, answer>>
  sent, received \* history: the payloads given to send() for each side, and dispatched there

rpcVars == <<id_, outstandings_, caller, wire, inputBuffer_, reading, connected, serving, asked,
             answered, sent, received>>

RpcInit ==
  /\ id_ = 0 /\ outstandings_ = {}
  /\ caller = [c \in Callers |-> [at |-> 1, id |-> 0, ask |-> Good]]
  /\ wire = [s \in Sides |-> <<>>]
  /\ inputBuffer_ = [s \in Sides |-> NewBuffer(kInitialSize)]
  /\ reading = [s \in Sides |-> FALSE]
  /\ connected = [s \in Sides |-> TRUE]
  /\ serving = {} /\ asked = <<>> /\ answered = <<>>
  /\ sent = [s \in Sides |-> <<>>] /\ received = [s \in Sides |-> <<>>]

\* Message::ParseFromArray() accepts what SerializeAsString() can make.  A message of type
\* ERROR, which it accepts and onRpcMessage() ignores, is left out: no code of this
\* repository makes one, and no stranger's frame is one.
RpcMessages == {REQUEST, RESPONSE} \X (0..(ByteBase - 1)) \X (0..(ByteBase - 1))

Ids == 1..Cardinality(Callers)

Payloads ==
  {<<REQUEST, id, ask>> : id \in Ids, ask \in Asks}
    \cup {<<RESPONSE, id, answer>> : id \in Ids,
                                      answer \in {NO_SERVICE, NO_METHOD, INVALID_REQUEST, Result}}

\* An id and an answer fit into a byte, a message into a frame, and what a stranger sends
\* first holds a frame that the codec refuses.
ASSUME RpcBounds ==
  /\ IsFiniteSet(Callers) /\ Cardinality(Callers) < ByteBase /\ Result < ByteBase
  /\ ReadSizes \subseteq Nat
  /\ kMinMessageLen + 3 <= kMaxMessageLen /\ kMinMessageLen + 3 < ByteBase * ByteBase
  /\ \A bytes \in Strays \ {<<>>} :
       LET len == NetworkToHost(bytes)
       IN  /\ bytes \in Seq(Nat) /\ Len(bytes) >= kMinMessageLen + kHeaderLen
           /\ \/ len > kMaxMessageLen \/ len < kMinMessageLen
              \/ /\ Len(bytes) >= kHeaderLen + len
                 /\ parse(SubSeq(bytes, kHeaderLen + 1, kHeaderLen + len), RpcMessages) # "kNoError"

\* The bytes of each message that can be sent.
Frames == [m \in Payloads |-> Content(fillEmptyBuffer(m))]

\* codec_.send(): TcpConnection::send() drops what comes after shutdown().
Send(from, payload) ==
  IF connected[from]
    THEN /\ wire' = [wire EXCEPT ![Peer(from)] = @ \o Frames[payload]]
         /\ sent' = [sent EXCEPT ![Peer(from)] = Append(@, payload)]
    ELSE UNCHANGED <<wire, sent>>

-----------------------------------------------------------------------------
(* CallMethod() *)

\* Mutant of CallSteps: the request is on its way before the call is entered.
CallStepsSendFirst == <<"number", "send", "insert">>

CallSteps == <<"number", "insert", "send">>

At(c, step) == caller[c].at <= 3 /\ CallSteps[caller[c].at] = step
Goes(c) == caller' = [caller EXCEPT ![c].at = @ + 1]

\* id_.incrementAndGet()
Number(c, ask) ==
  /\ At(c, "number")
  /\ id_' = id_ + 1
  /\ caller' = [caller EXCEPT ![c] = [at |-> 2, id |-> id_ + 1, ask |-> ask]]
  /\ asked' = Append(asked, ask)
  /\ UNCHANGED <<outstandings_, wire, inputBuffer_, reading, connected, serving,
                 answered, sent, received>>

\* outstandings_[id] = out, under mutex_
Insert(c) ==
  /\ At(c, "insert") /\ Goes(c)
  /\ outstandings_' = outstandings_ \cup {caller[c].id}
  /\ UNCHANGED <<id_, wire, inputBuffer_, reading, connected, serving, asked,
                 answered, sent, received>>

SendCall(c) ==
  /\ At(c, "send") /\ Goes(c)
  /\ Send("client", <<REQUEST, caller[c].id, caller[c].ask>>)
  /\ UNCHANGED <<id_, outstandings_, inputBuffer_, reading, connected, serving,
                 asked, answered, received>>

-----------------------------------------------------------------------------
(* The loop thread of each side *)

\* handleRead() of the connection; onMessage() follows.
ReadBytes(side, n) ==
  /\ ~reading[side]
  /\ n \in 1..Len(wire[side]) /\ n <= ReadLimit(inputBuffer_[side])
  /\ inputBuffer_' = [inputBuffer_ EXCEPT ![side] = readFd(@, SubSeq(wire[side], 1, n))]
  /\ wire' = [wire EXCEPT ![side] = SubSeq(@, n + 1, Len(@))]
  /\ reading' = [reading EXCEPT ![side] = TRUE]
  /\ UNCHANGED <<id_, outstandings_, caller, connected, serving, asked, answered,
                 sent, received>>

\* Nothing whole is left: onMessage() returns.
FrameWaits(side) ==
  /\ reading[side] /\ NextFrame(inputBuffer_[side], RpcMessages).code = "wait"
  /\ reading' = [reading EXCEPT ![side] = FALSE]
  /\ UNCHANGED <<id_, outstandings_, caller, wire, inputBuffer_, connected, serving, asked,
                 answered, sent, received>>

\* defaultErrorCallback(): shutdown(); what is wrong stays in the buffer.
FrameWrong(side) ==
  /\ reading[side] /\ NextFrame(inputBuffer_[side], RpcMessages).code \notin {"wait", "kNoError"}
  /\ connected' = [connected EXCEPT ![side] = FALSE]
  /\ reading' = [reading EXCEPT ![side] = FALSE]
  /\ UNCHANGED <<id_, outstandings_, caller, wire, inputBuffer_, serving, asked,
                 answered, sent, received>>

\* onRpcMessage() of a RESPONSE: an id that nobody waits for is ignored.
OnResponse(side, id, answer) ==
  /\ IF side = "client" /\ id \in outstandings_
       THEN /\ outstandings_' = outstandings_ \ {id}
            /\ answered' = Append(answered, <<id, answer>>)
       ELSE UNCHANGED <<outstandings_, answered>>
  /\ UNCHANGED <<wire, sent, serving>>

\* Mutant of ErrorOf: a missing method is reported as a missing service.
ErrorOfMixed(side, ask) == IF side = "client" \/ ask \in {1, 2} THEN NO_SERVICE ELSE INVALID_REQUEST

\* Only the server has services_.
ErrorOf(side, ask) ==
  IF side = "client" \/ ask = 1 THEN NO_SERVICE ELSE IF ask = 2 THEN NO_METHOD ELSE INVALID_REQUEST

\* onRpcMessage() of a REQUEST: to the service, or an error response at once.
OnRequest(side, id, ask) ==
  /\ IF side = "server" /\ ask = Good
       THEN serving' = serving \cup {id} /\ UNCHANGED <<wire, sent>>
       ELSE Send(side, <<RESPONSE, id, ErrorOf(side, ask)>>) /\ UNCHANGED serving
  /\ UNCHANGED <<outstandings_, answered>>

onRpcMessage(side) ==
  /\ reading[side]
  /\ \E next \in {NextFrame(inputBuffer_[side], RpcMessages)} :
       LET m == next.payload
       IN  /\ next.code = "kNoError"
           /\ inputBuffer_' = [inputBuffer_ EXCEPT ![side] = next.rest]
           /\ received' = [received EXCEPT ![side] = Append(@, m)]
           /\ IF m[1] = RESPONSE THEN OnResponse(side, m[2], m[3]) ELSE OnRequest(side, m[2], m[3])
  /\ UNCHANGED <<id_, caller, reading, connected, asked>>

\* The service runs done for a request it was given.
doneCallback(id) ==
  /\ id \in serving
  /\ serving' = serving \ {id}
  /\ Send("server", <<RESPONSE, id, Result>>)
  /\ UNCHANGED <<id_, outstandings_, caller, inputBuffer_, reading, connected, asked,
                 answered, received>>

\* Bytes from a peer that does not speak this protocol, before any call.
Stray(bytes) ==
  /\ bytes # <<>> /\ asked = <<>> /\ wire = [s \in Sides |-> <<>>] /\ received["server"] = <<>>
  /\ readableBytes(inputBuffer_["server"]) = 0 /\ connected["server"]
  /\ wire' = [wire EXCEPT !["server"] = bytes]
  /\ UNCHANGED <<id_, outstandings_, caller, inputBuffer_, reading, connected, serving,
                 asked, answered, sent, received>>

-----------------------------------------------------------------------------
LoopStep(side) ==
  \/ \E n \in ReadSizes : ReadBytes(side, n)
  \/ FrameWaits(side) \/ FrameWrong(side) \/ onRpcMessage(side)

RpcNext ==
  \/ \E c \in Callers : (\E ask \in Asks : Number(c, ask)) \/ Insert(c) \/ SendCall(c)
  \/ \E side \in Sides :
       \/ \E n \in ReadSizes : ReadBytes(side, n)
       \/ FrameWaits(side) \/ FrameWrong(side) \/ onRpcMessage(side)
  \/ \E id \in serving : doneCallback(id)
  \/ \E bytes \in Strays : Stray(bytes)

RpcSpec == RpcInit /\ [][RpcNext]_rpcVars

-----------------------------------------------------------------------------
(* Properties *)

\* The answer each kind of request has to get.
AnswerTo == [ask \in Asks |-> <<Result, NO_SERVICE, NO_METHOD, INVALID_REQUEST>>[ask + 1]]

\* Part of AnswersMatch: the messages dispatched on a side are the first of those sent to
\* it, whatever pieces the bytes arrive in; a stream that is not ours dispatches nothing.
MessagesArriveWhole == \A side \in Sides : IsPrefix(received[side], sent[side])

\* The done closure of a call runs at most once, with the answer to its own request,
\* although calls of several threads are answered in any order, and no message is
\* dispatched that was not sent.
AnswersMatch ==
  /\ MessagesArriveWhole
  /\ \A i \in DOMAIN answered : answered[i][2] = AnswerTo[asked[answered[i][1]]]
  /\ \A i, j \in DOMAIN answered : answered[i][1] = answered[j][1] => i = j

\* A call is answered, however fast the answer comes, unless one side has given the
\* connection up.
CallsAreAnswered ==
  \A c \in Callers :
    (caller[c].at > 1)
      ~> \/ \E i \in DOMAIN answered : answered[i][1] = caller[c].id
         \/ \E side \in Sides : ~connected[side]
=============================================================================

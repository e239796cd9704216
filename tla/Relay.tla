------------------------------- MODULE Relay -------------------------------
(***************************************************************************)
(* The relay between a client of one language-model protocol and a server  *)
(* of another (scripts/nebius-relay.py): the conversion of the             *)
(* conversation, message by message, and the translation of the answer,    *)
(* at once or as a stream of events that the client puts together again.   *)
(*                                                                         *)
(* Every request has a thread and a connection to the server of its own,   *)
(* so one request is modelled.  A piece of text or of the arguments of a   *)
(* tool call is named by its number in the stream of the server.           *)
(***************************************************************************)
EXTENDS Integers, SequencesExt

CONSTANTS
    Calls,          \* ids of tool calls in the conversation
    Slots,          \* indexes of the tool calls in a streamed answer
    None,           \* no block open, no reason given
    MaxMessages,    \* bound: messages in the conversation
    MaxPieces       \* bound: pieces of text and of calls in the server's stream

ASSUME CallsAssumption == IsFiniteSet(Calls) /\ IsFiniteSet(Slots)
ASSUME RelayBoundsAssumption == {MaxMessages, MaxPieces} \subseteq Nat

(* "function_call" is an older name of "tool_calls". *)
FinishReasons == {"stop", "length", "tool_calls", "content_filter"}

ASSUME NoneAssumption == None \notin {"text", "tool"} \cup FinishReasons /\ None \notin Slots

VARIABLES
    conversation,   \* the messages of the request
    phase,          \* how far the relay is with the request
    position,       \* how many messages it has converted
    body,           \* the messages it sends to the server
    stream,         \* the translation of the stream
    client,         \* the answer as the client has put it together
    heard           \* bookkeeping: what the server has sent

relayVars == <<conversation, phase, position, body, stream, client, heard>>

-----------------------------------------------------------------------------
(* The conversation.  A message carries text or not, and the tool calls it *)
(* makes or the results it brings.                                         *)

Message(role, text, calls) == [role |-> role, text |-> text, calls |-> calls]

(* What was said last before place i, but for system messages. *)
turnBefore(messages, i, k) ==
    /\ k < i /\ messages[k].role # "system"
    /\ \A j \in (k + 1)..(i - 1) : messages[j].role = "system"

(* A client speaks in turns and answers the calls of a turn in the next.   *)
(* That m may stand at place i says so of the messages before.             *)
mayStand(m, messages, i) ==
    /\ m.text \/ m.calls # {}
    /\ \/ m.role = "system" /\ m.calls = {}
       \/ /\ m.role = "assistant"
          /\ \E k \in 1..(i - 1) : turnBefore(messages, i, k) /\ messages[k].role = "user"
          /\ \A k \in 1..(i - 1) : m.calls \cap messages[k].calls = {}
       \/ /\ m.role = "user"
          /\ IF \A k \in 1..(i - 1) : messages[k].role = "system" THEN m.calls = {}
             ELSE \E k \in 1..(i - 1) : /\ turnBefore(messages, i, k)
                                       /\ messages[k].role = "assistant"
                                       /\ m.calls = messages[k].calls

(* The results of calls, each a message of its own. *)
results(calls) ==
    LET order == SetToSeq(calls) IN [i \in DOMAIN order |-> Message("tool", TRUE, {order[i]})]

spoken(text) == IF text THEN <<Message("user", TRUE, {})>> ELSE <<>>

(* Mistake: the text of a user goes before the results it came with. *)
converted_TextFirst(m) ==
    CASE m.role = "user" -> spoken(m.text) \o results(m.calls)
      [] m.role = "assistant" -> <<m>>
      [] m.role = "system" -> <<>>

(* What becomes of one message: a result of a tool is a message of its own *)
(* and goes before the text it came with.                                  *)
converted(m) ==
    CASE m.role = "user" -> results(m.calls) \o spoken(m.text)
      [] m.role = "assistant" -> <<m>>
      [] m.role = "system" -> <<>>

(* Every system message is folded into one that leads. *)
leading(messages) ==
    IF \E i \in DOMAIN messages : messages[i].role = "system"
    THEN <<Message("system", TRUE, {})>> ELSE <<>>

-----------------------------------------------------------------------------
(* The client at the other end.  A block is of text, or of the call of a   *)
(* slot.  An event the client cannot place confuses it.                    *)

Block(slot, parts, open) == [slot |-> slot, parts |-> parts, open |-> open]

blockStart(c, i, slot) ==
    [c EXCEPT !.blocks = Append(@, Block(slot, <<>>, TRUE)),
              !.confused = @ \/ i # Len(c.blocks) \/ \E k \in DOMAIN c.blocks : c.blocks[k].open]

(* Arguments that arrive when their block is closed go to that block, for  *)
(* which the protocol has no place: this client takes them all the same.   *)
blockDelta(c, i, part) ==
    IF i \in 0..(Len(c.blocks) - 1)
    THEN [c EXCEPT !.blocks[i + 1].parts = Append(@, part)]
    ELSE [c EXCEPT !.confused = TRUE]

blockStop(c, i) ==
    IF i \in 0..(Len(c.blocks) - 1) /\ c.blocks[i + 1].open
    THEN [c EXCEPT !.blocks[i + 1].open = FALSE]
    ELSE [c EXCEPT !.confused = TRUE]

messageStop(c, reason) ==
    [c EXCEPT !.ended = TRUE, !.stop = reason,
              !.confused = @ \/ \E k \in DOMAIN c.blocks : c.blocks[k].open]

-----------------------------------------------------------------------------
(* The translation.  s is the stream, c the client: a pair of the two.     *)

close_block(sc) ==
    IF sc.s.open_kind = None THEN sc
    ELSE [sc EXCEPT !.c = blockStop(@, sc.s.index), !.s.open_kind = None]

open_block(sc, kind, slot) ==
    LET closed == close_block(sc)
        i == closed.s.index + 1
    IN [closed EXCEPT !.s.index = i, !.s.open_kind = kind, !.c = blockStart(@, i, slot)]

forwardText(sc, part) ==
    LET opened == IF sc.s.open_kind = "text" THEN sc ELSE open_block(sc, "text", None)
    IN [opened EXCEPT !.c = blockDelta(@, opened.s.index, part)]

(* Mistake: arguments go to the block opened last. *)
blockOf_Latest(s, slot) == s.index

blockOf(s, slot) == s.tool_slot[slot]

(* A slot not seen before opens a block; arguments go to its block. *)
forwardCall(sc, slot, arguments, part) ==
    LET opened == IF slot \in DOMAIN sc.s.tool_slot THEN sc ELSE open_block(sc, "tool", slot)
        known == [opened EXCEPT !.s.tool_slot =
                     [t \in DOMAIN @ \cup {slot} |->
                         IF t \in DOMAIN @ THEN @[t] ELSE opened.s.index]]
    IN IF arguments THEN [known EXCEPT !.c = blockDelta(@, blockOf(known.s, slot), part)]
       ELSE known

stop_reason_for(finish, calls) ==
    IF finish = "length" THEN "max_tokens"
    ELSE IF finish = "tool_calls" \/ (calls /\ finish # "content_filter") THEN "tool_use"
    ELSE "end_turn"

Nothing == [text |-> {}, arguments |-> [t \in Slots |-> <<>>], called |-> {},
            finish |-> None, pieces |-> 0]

-----------------------------------------------------------------------------

RelayInit ==
    /\ conversation = <<>> /\ phase = "composing" /\ position = 0 /\ body = <<>>
    /\ stream = [index |-> -1, open_kind |-> None, tool_slot |-> [t \in {} |-> 0], finish |-> "stop"]
    /\ client = [blocks |-> <<>>, ended |-> FALSE, stop |-> None, confused |-> FALSE, waiting |-> FALSE]
    /\ heard = Nothing

(* The client goes on with the conversation. *)
Say ==
    /\ phase = "composing" /\ Len(conversation) < MaxMessages
    /\ \E role \in {"system", "user", "assistant"}, text \in BOOLEAN, calls \in SUBSET Calls :
          /\ mayStand(Message(role, text, calls), conversation, Len(conversation) + 1)
          /\ conversation' = Append(conversation, Message(role, text, calls))
    /\ UNCHANGED <<phase, position, body, stream, client, heard>>

(* It asks for the next turn. *)
do_POST ==
    /\ phase = "composing"
    /\ \E k \in DOMAIN conversation : /\ turnBefore(conversation, Len(conversation) + 1, k)
                                      /\ conversation[k].role = "user"
    /\ phase' = "converting"
    /\ client' = [client EXCEPT !.waiting = TRUE]
    /\ UNCHANGED <<conversation, position, body, stream, heard>>

(* One round of the loop over the messages. *)
to_openai ==
    /\ phase = "converting" /\ position < Len(conversation)
    /\ position' = position + 1
    /\ body' = body \o converted(conversation[position + 1])
    /\ UNCHANGED <<conversation, phase, stream, client, heard>>

(* The system message is put in front and the request is sent. *)
upstream ==
    /\ phase = "converting" /\ position = Len(conversation)
    /\ phase' = "upstream"
    /\ body' = leading(conversation) \o body
    /\ UNCHANGED <<conversation, position, stream, client, heard>>

(* An answer with its length, after which the client waits no more. *)
Answered(c) == phase' = "done" /\ client' = [c EXCEPT !.waiting = FALSE]

(* Nothing of the conversation is used once the server has it. *)
Forget == conversation' = <<>> /\ position' = 0 /\ body' = <<>>

(* No key, which is seen before the conversion; a server that refuses or   *)
(* cannot be reached, or one whose answer cannot be read.                  *)
_err ==
    /\ phase = "upstream" \/ (phase = "converting" /\ position = 0)
    /\ Answered(client) /\ Forget
    /\ UNCHANGED <<stream, heard>>

(* The whole answer at once: its text, its calls and why it ended.         *)
(* Arguments that cannot be read count as none.                            *)
_once ==
    /\ phase = "upstream"
    /\ \E text \in BOOLEAN, calls \in SUBSET Slots, finish \in FinishReasons :
       \E readable \in SUBSET calls :
          LET order == SetToSeq(calls)
              said(t) == IF t \in readable THEN <<1>> ELSE <<>>
              blocks == (IF text THEN <<Block(None, <<1>>, FALSE)>> ELSE <<>>)
                          \o [i \in DOMAIN order |-> Block(order[i], said(order[i]), FALSE)]
          IN /\ Answered([client EXCEPT !.blocks = blocks, !.ended = TRUE,
                                        !.stop = stop_reason_for(finish, calls # {})])
             /\ heard' = [text |-> IF text THEN {1} ELSE {},
                          arguments |-> [t \in Slots |-> said(t)],
                          called |-> calls, finish |-> finish, pieces |-> 1]
    /\ Forget /\ UNCHANGED stream

_stream ==
    /\ phase = "upstream"
    /\ phase' = "streaming"
    /\ Forget /\ UNCHANGED <<stream, client, heard>>

Forward(sc) == stream' = sc.s /\ client' = sc.c

(* A chunk brings the reason why the answer ended, a piece of text, pieces *)
(* of calls, or several of these.  They are forwarded one by one and       *)
(* nothing is remembered of a chunk.  The server may go back and forth     *)
(* between the calls and the text.                                         *)
TextPiece ==
    /\ phase = "streaming" /\ heard.pieces < MaxPieces
    /\ LET n == heard.pieces + 1
       IN /\ Forward(forwardText([s |-> stream, c |-> client], n))
          /\ heard' = [heard EXCEPT !.pieces = n, !.text = @ \cup {n}]
    /\ UNCHANGED <<conversation, phase, position, body>>

CallPiece ==
    /\ phase = "streaming" /\ heard.pieces < MaxPieces
    /\ \E slot \in Slots, arguments \in BOOLEAN :
          LET n == heard.pieces + 1
          IN /\ Forward(forwardCall([s |-> stream, c |-> client], slot, arguments, n))
             /\ heard' = [heard EXCEPT
                    !.pieces = n, !.called = @ \cup {slot},
                    !.arguments[slot] = IF arguments THEN Append(@, n) ELSE @]
    /\ UNCHANGED <<conversation, phase, position, body>>

FinishReason ==
    /\ phase = "streaming" /\ heard.finish = None
    /\ \E finish \in FinishReasons :
          /\ stream' = [stream EXCEPT !.finish = finish]
          /\ heard' = [heard EXCEPT !.finish = finish]
    /\ UNCHANGED <<conversation, phase, position, body, client>>

(* A stream has no length: only the closed connection ends it. *)
closes_connection == TRUE

Hangup(c) == [c EXCEPT !.waiting = ~ closes_connection]

ended(sc) ==
    LET closed == close_block(sc)
    IN [closed EXCEPT !.c = messageStop(@, stop_reason_for(closed.s.finish,
                                                           DOMAIN closed.s.tool_slot # {}))]

(* The server says [DONE], or closes the connection: the loop ends alike. *)
StreamEnds ==
    /\ phase = "streaming"
    /\ LET sc == ended([s |-> stream, c |-> client])
       IN stream' = sc.s /\ client' = Hangup(sc.c)
    /\ phase' = "done"
    /\ UNCHANGED <<conversation, position, body, heard>>

(* The connection to the server breaks or is silent for too long.  The     *)
(* client is told nothing but the end of the connection.                   *)
StreamAborts ==
    /\ phase = "streaming"
    /\ client' = Hangup(client)
    /\ phase' = "done"
    /\ UNCHANGED <<conversation, position, body, stream, heard>>

RelayNext ==
    \/ Say \/ do_POST \/ to_openai \/ upstream \/ _err \/ _once \/ _stream
    \/ TextPiece \/ CallPiece \/ FinishReason \/ StreamEnds \/ StreamAborts

RelaySpec == RelayInit /\ [][RelayNext]_relayVars

-----------------------------------------------------------------------------
(* Properties. *)

(* Every variable keeps its type, and the block of a slot has been opened. *)
Messages == [role : {"system", "user", "assistant", "tool"}, text : BOOLEAN, calls : SUBSET Calls]
Blocks == [slot : Slots \cup {None}, parts : Seq(Nat), open : BOOLEAN]
Clients == [blocks : Seq(Blocks), ended : BOOLEAN,
            stop : {None, "max_tokens", "tool_use", "end_turn"}, confused : BOOLEAN, waiting : BOOLEAN]

SlotsUpTo(i) == UNION {[S -> 0..i] : S \in SUBSET Slots}
Streams(slots) == [index : Nat \cup {-1}, open_kind : {None, "text", "tool"}, finish : FinishReasons,
                   tool_slot : slots]
Heard == [text : SUBSET Nat, arguments : [Slots -> Seq(Nat)], called : SUBSET Slots,
          finish : FinishReasons \cup {None}, pieces : Nat]

RelayTypeOK ==
    /\ conversation \in Seq(Messages) /\ position \in 0..Len(conversation) /\ body \in Seq(Messages)
    /\ phase \in {"composing", "converting", "upstream", "streaming", "done"}
    /\ stream \in Streams(SlotsUpTo(stream.index))
    /\ client \in Clients
    /\ heard \in Heard

(* Message i is a result that stands right behind message k, or behind     *)
(* other results of it.                                                    *)
resultOf(messages, i, k) ==
    k < i /\ \A j \in (k + 1)..i : messages[j].role = "tool"

resultsInPlace(messages) ==
    \A i \in DOMAIN messages : messages[i].role = "tool" =>
        \E k \in DOMAIN messages : /\ resultOf(messages, i, k)
                                  /\ messages[k].role = "assistant"
                                  /\ messages[i].calls \subseteq messages[k].calls

answered(messages, k) ==
    \A c \in messages[k].calls :
        \E i \in DOMAIN messages : resultOf(messages, i, k) /\ c \in messages[i].calls

(* The server rejects a system message that is not the first, a result     *)
(* that does not stand right behind the message whose call it answers, and *)
(* a call without a result: in a converted conversation none of them       *)
(* occurs, whatever turns, fragments and calls it is made of (to_openai).  *)
ServerAccepts ==
    /\ \A i \in DOMAIN body : body[i].role = "system" => i = 1
    /\ resultsInPlace(body)
    /\ phase = "upstream" => \A k \in DOMAIN body : body[k].role = "assistant" => answered(body, k)

(* The places of the pieces of text, in the order in which they are read. *)
textPlaces(blocks) == UNION {{k} \X DOMAIN blocks[k].parts :
                             k \in {k \in DOMAIN blocks : blocks[k].slot = None}}
read(blocks, p) == blocks[p[1]].parts[p[2]]
readsBefore(p, q) == p[1] < q[1] \/ (p[1] = q[1] /\ p[2] < q[2])

textIsWhole(blocks, text) ==
    /\ {read(blocks, p) : p \in textPlaces(blocks)} = text
    /\ \A p, q \in textPlaces(blocks) : readsBefore(p, q) => read(blocks, p) < read(blocks, q)

callsAreWhole(blocks, called, arguments) ==
    /\ \A t \in called : \E k \in DOMAIN blocks : blocks[k].slot = t /\ blocks[k].parts = arguments[t]
    /\ \A k \in DOMAIN blocks : blocks[k].slot # None =>
          /\ blocks[k].slot \in called
          /\ \A j \in DOMAIN blocks : blocks[j].slot = blocks[k].slot => j = k

(* A client that takes arguments for a closed block (blockDelta) puts      *)
(* together what the server sent: blocks open and close in order, the text *)
(* is whole, and each call has one block with its own arguments in order,  *)
(* even if the server goes back and forth between calls and text           *)
(* (tool_slot, close_block).  The client is never left waiting for more,   *)
(* since an answer without a length ends with its connection.  And where   *)
(* the server gave a reason, an answer cut for its length is not passed    *)
(* off as complete or as a call to run, nor is a filtered one as a call to *)
(* run, while calls that may be run are (stop_reason_for).  Nothing is     *)
(* said of a stream that ends without a reason: the code reports it as     *)
(* complete.                                                               *)
ClientHearsAll ==
    /\ ~ client.confused
    /\ phase = "done" => ~ client.waiting
    /\ textIsWhole(client.blocks, heard.text)
    /\ callsAreWhole(client.blocks, heard.called, heard.arguments)
    /\ client.ended =>
          /\ heard.finish = "length" => client.stop = "max_tokens"
          /\ heard.finish = "content_filter" => client.stop = "end_turn"
          /\ heard.finish \in {"stop", "tool_calls"} /\ heard.called # {} => client.stop = "tool_use"

-----------------------------------------------------------------------------
(* Why they hold. *)

(* A call waits for its result only at the end of the converted part, and  *)
(* what stands there is what was said last.                                *)
ConvertedInv ==
    /\ \A i \in DOMAIN body : body[i].role # "system"
    /\ resultsInPlace(body)
    /\ \A k \in DOMAIN body : body[k].role = "assistant" /\ k # Len(body) => answered(body, k)
    /\ \A k \in 1..position : turnBefore(conversation, position + 1, k) =>
          /\ body # <<>>
          /\ conversation[k].role = "assistant" => body[Len(body)] = conversation[k]
          /\ conversation[k].role = "user" => body[Len(body)].role # "assistant"
    /\ body # <<>> => \E k \in 1..position : conversation[k].role # "system"

RequestInv ==
    /\ \A i \in DOMAIN conversation : mayStand(conversation[i], conversation, i)
    /\ phase \in {"composing", "streaming", "done"} => position = 0 /\ body = <<>>
    /\ phase = "converting" =>
          /\ ConvertedInv
          /\ \E k \in DOMAIN conversation :
                turnBefore(conversation, Len(conversation) + 1, k) /\ conversation[k].role = "user"
    /\ phase \in {"composing", "converting", "upstream"} =>
          /\ stream.index = -1 /\ stream.open_kind = None /\ stream.tool_slot = [t \in {} |-> 0]
          /\ stream.finish = "stop"
          /\ client.blocks = <<>> /\ ~ client.ended /\ ~ client.confused
          /\ heard = Nothing

(* Only the last block may be open, and is while the relay has it open;    *)
(* the block of each slot is where the relay looks for it and holds what   *)
(* was said for it.                                                        *)
BlocksInv ==
    /\ ~ client.confused /\ ~ client.ended
    /\ Len(client.blocks) = stream.index + 1
    /\ \A k \in DOMAIN client.blocks :
          /\ client.blocks[k].open <=> k = Len(client.blocks) /\ stream.open_kind # None
          /\ client.blocks[k].slot # None =>
                client.blocks[k].slot \in heard.called /\ stream.tool_slot[client.blocks[k].slot] = k - 1
          /\ k = Len(client.blocks) /\ stream.open_kind = "text" => client.blocks[k].slot = None
    /\ stream.open_kind # None => client.blocks # <<>>
    /\ DOMAIN stream.tool_slot = heard.called
    /\ \A t \in Slots :
          IF t \in heard.called
          THEN /\ client.blocks[stream.tool_slot[t] + 1].slot = t
               /\ client.blocks[stream.tool_slot[t] + 1].parts = heard.arguments[t]
          ELSE heard.arguments[t] = <<>>

StreamInv ==
    /\ BlocksInv /\ textIsWhole(client.blocks, heard.text)
    /\ \A n \in heard.text : n <= heard.pieces
    /\ stream.finish = IF heard.finish = None THEN "stop" ELSE heard.finish

RelayInv ==
    /\ RequestInv
    /\ phase = "upstream" => ServerAccepts
    /\ phase = "streaming" => StreamInv
    /\ phase = "done" => ClientHearsAll

=============================================================================

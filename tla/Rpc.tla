-------------------------------- MODULE Rpc ---------------------------------
(***************************************************************************)
(* The request protocol between scripts/os.lua and server/server.py, byte  *)
(* by byte over the serial line.                                           *)
(*                                                                         *)
(*   client  send_message: a frame <length, id, text>, then polling until  *)
(*           the reply with that id arrives                                *)
(*   c2s     bytes on their way to the server                              *)
(*   server  reads a frame, makes the HTTP request, writes a frame         *)
(*           <length, <id, segment, segment>>                              *)
(*   s2c     bytes on their way to the kernel                              *)
(*   kbuf    bytes in the kernel's serial buffer                           *)
(*                                                                         *)
(* A byte is a number below BASE (256 in the code); lengths and ids take   *)
(* two bytes.  The driver may lose bytes on the way into kbuf (module      *)
(* Serial says when).  JSON text is a run of bytes JSON; dkjson decodes a  *)
(* segment that is such a run and fails on every other.                    *)
(***************************************************************************)
EXTENDS Integers, Sequences

CONSTANTS
  BASE,          \* number of values of a byte
  RequestLens,   \* lengths of the request texts
  BodyLens,      \* lengths of the pages that HTTP requests return
  SplitReads,    \* can a read of the serial device return a single byte?
  MaxRequests,   \* bound: requests in one behaviour
  MaxLosses      \* bound: bytes lost on the way to the kernel

ASSUME BaseAssumption == BASE \in Nat /\ BASE >= 3
ASSUME LensAssumption == RequestLens \subseteq Nat /\ BodyLens \subseteq Nat
ASSUME SplitAssumption == SplitReads \in BOOLEAN
ASSUME BoundsAssumption == MaxRequests \in Nat /\ MaxLosses \in Nat

VARIABLES
  cpc,           \* client: idle, sending, waiting, panic
  send_message_id,
  tosend,        \* bytes serial.send has still to write
  serin,         \* __serin
  headers,       \* __message_headers: ids for which it holds a value
  responses,     \* __message_responses: id -> page, or NoPage
  sent,          \* history: requests made
  answers,       \* history: what each callback was given
  spc,           \* server: header, body, dead
  need, data,    \* server: l + 2, and the bytes read so far
  c2s, s2c, kbuf,
  lost           \* history: bytes lost

client   == <<cpc, send_message_id, tosend, serin, headers, responses>>
callback == <<sent, answers>>
server   == <<spc, need, data>>
vars     == <<client, callback, server, c2s, s2c, kbuf, lost>>

Bytes  == 0 .. BASE - 1
JSON   == BASE - 1
NoPage == <<-1>>
Ids    == 0 .. BASE * BASE - 1
Run(b, n) == [j \in 1 .. n |-> b]

\* What a callback gets: whether the header decoded, and the page.
Answers    == [header : BOOLEAN, page : Seq(Bytes) \cup {NoPage}]
Nothing    == [header |-> FALSE, page |-> NoPage]
Page(n, k) == Run(n % BASE, k)       \* a page that names its request
Replies(n) == {[header |-> TRUE, page |-> Page(n, k)] : k \in BodyLens}

TypeOK ==
  /\ cpc \in {"idle", "sending", "waiting", "panic"}
  /\ send_message_id \in 0 .. BASE * BASE    \* the last one cannot be sent
  /\ tosend \in Seq(Bytes) /\ serin \in Seq(Bytes)
  /\ headers \subseteq Ids
  /\ responses \in [Ids -> Seq(Bytes) \cup {NoPage}]
  /\ sent \in Nat
  /\ answers \in Seq(Answers)
  /\ spc \in {"header", "body", "dead"}
  /\ need \in Nat /\ data \in Seq(Bytes)
  /\ c2s \in Seq(Bytes) /\ s2c \in Seq(Bytes) /\ kbuf \in Seq(Bytes)
  /\ lost \in 0 .. MaxLosses

Init ==
  /\ cpc = "idle" /\ send_message_id = 1
  /\ tosend = <<>> /\ serin = <<>>
  /\ headers = {} /\ responses = [n \in Ids |-> NoPage]
  /\ sent = 0 /\ answers = <<>>
  /\ spc = "header" /\ need = 0 /\ data = <<>>
  /\ c2s = <<>> /\ s2c = <<>> /\ kbuf = <<>>
  /\ lost = 0

-----------------------------------------------------------------------------
(* Framing                                                                 *)

\* Mutant: low byte first.
Two_LowFirst(n) == <<n % BASE, n \div BASE>>
\* Mutant: the low byte is not masked.
Two_NoMask(n) == <<n \div BASE, n>>
\* chr(n >> 8) + chr(n & 0xFF).
Two(n) == <<n \div BASE, n % BASE>>

\* Two bytes as a number.
Number(hi, lo) == hi * BASE + lo

\* Only numbers below BASE * BASE fit: above, string.char and chr raise.
Fits(n) == n < BASE * BASE

\* Mutant: the length counts itself.
mark_len_Total(msg) == Two(Len(msg) + 2) \o msg
mark_len(msg) == Two(Len(msg)) \o msg

\* msg:sub(i, j): an end beyond the string is the end of the string.
Sub(msg, i, j) == SubSeq(msg, i, IF j < Len(msg) THEN j ELSE Len(msg))

\* read_segments: the segment that starts at j, and where the next one starts.
\* One that claims more bytes than there are gets what there is.
After(msg, j)   == j + 2 + Number(msg[j], msg[j + 1])
Segment(msg, j) == Sub(msg, j + 2, After(msg, j) - 1)

\* The loop of read_segments ends without an error: going from segment to
\* segment it never comes to a place where a single byte is left.
Whole(msg) ==
  \E starts \in SUBSET (1 .. Len(msg) - 1) :
    /\ msg # <<>> => 1 \in starts
    /\ \A j \in starts : After(msg, j) \in starts \/ After(msg, j) > Len(msg)

\* json.decode succeeds on a run of JSON.
Decodes(seg) == seg # <<>> /\ \A j \in 1 .. Len(seg) : seg[j] = JSON

-----------------------------------------------------------------------------
(* The client                                                              *)

\* Up to serial.send: a message that is too long raises in string.char, and an
\* error that reaches cli stops the kernel.
SendMessage ==
  /\ cpc = "idle"
  /\ sent < MaxRequests
  /\ \E n \in RequestLens :
       IF Fits(n) /\ Fits(send_message_id)
       THEN /\ tosend' = Two(n) \o Two(send_message_id) \o Run(JSON, n)
            /\ cpc' = "sending"
            /\ sent' = sent + 1
       ELSE /\ cpc' = "panic"
            /\ UNCHANGED <<tosend, sent>>
  /\ UNCHANGED <<send_message_id, serin, headers, responses, answers,
                 server, c2s, s2c, kbuf, lost>>

\* serialout.put of the next byte, and on to polling after the last one.
SendByte ==
  /\ cpc = "sending"
  /\ c2s' = Append(c2s, Head(tosend))
  /\ tosend' = Tail(tosend)
  /\ cpc' = IF Len(tosend) = 1 THEN "waiting" ELSE "sending"
  /\ UNCHANGED <<send_message_id, serin, headers, responses, callback,
                 server, s2c, kbuf, lost>>

\* Mutant: the two bytes of the length are forgotten.
Complete_NoPrefix(buf) == Len(buf) > 2 /\ Len(buf) >= Number(buf[1], buf[2])
\* Has poll_for_message a whole message?
Complete(buf) == Len(buf) > 2 /\ Len(buf) >= Number(buf[1], buf[2]) + 2

\* handle_message reads the segments behind the id; pcall catches the error
\* when there are none or they are not whole.
Readable(text) == text # <<>> /\ Whole(text)

\* Headers and responses after message msg with this id.
HeadersAfter(msg, id) ==
  LET text == Sub(msg, 3, Len(msg))
  IN  IF ~Readable(text) THEN headers
      ELSE IF Decodes(Segment(text, 1)) THEN headers \cup {id}
      ELSE headers \ {id}
ResponsesAfter(msg, id) ==
  LET text   == Sub(msg, 3, Len(msg))
      second == After(text, 1)
  IN  IF ~Readable(text) THEN responses
      ELSE [responses EXCEPT ![id] = IF second <= Len(text)
                                     THEN Segment(text, second) ELSE NoPage]

\* poll_for_message() == __send_message_id
Awaited(id) == id = send_message_id

\* A poll that takes what the driver has and finds no whole message in it.
PollNothing ==
  /\ cpc = "waiting"
  /\ ~Complete(serin \o kbuf)
  /\ serin' = serin \o kbuf
  /\ kbuf' = <<>>
  /\ UNCHANGED <<cpc, send_message_id, tosend, headers, responses, callback,
                 server, c2s, s2c, lost>>

\* A poll that handles one message; if it is the one awaited, the callback
\* runs, its entries are cleared and the next id is due.  A message without
\* room for an id is an error outside any pcall.
PollMessage ==
  LET buf  == serin \o kbuf
      stop == Number(buf[1], buf[2]) + 2
      msg  == Sub(buf, 3, stop)
      id   == Number(msg[1], msg[2])
      hs   == HeadersAfter(msg, id)
      rs   == ResponsesAfter(msg, id)
  IN  /\ cpc = "waiting"
      /\ Complete(buf)
      /\ kbuf' = <<>>
      /\ \/ /\ Len(msg) < 2
            /\ cpc' = "panic"
            /\ serin' = buf
            /\ UNCHANGED <<send_message_id, headers, responses, answers>>
         \/ /\ Len(msg) >= 2
            /\ serin' = Sub(buf, stop + 1, Len(buf))
            /\ IF Awaited(id)
               THEN /\ answers' = Append(answers,
                         [header |-> send_message_id \in hs,
                          page   |-> rs[send_message_id]])
                    /\ headers' = hs \ {send_message_id}
                    /\ responses' = [rs EXCEPT ![send_message_id] = NoPage]
                    /\ send_message_id' = send_message_id + 1
                    /\ cpc' = "idle"
               ELSE /\ headers' = hs /\ responses' = rs
                    /\ UNCHANGED <<answers, send_message_id, cpc>>
      /\ UNCHANGED <<tosend, sent, server, c2s, s2c, lost>>

-----------------------------------------------------------------------------
(* The server                                                              *)

\* r = sr.read(2) and the two ord(): with one byte, r[1] raises and nothing
\* catches it.
ServerHeader ==
  /\ spc = "header"
  /\ \/ /\ Len(c2s) >= 2
        /\ need' = Number(c2s[1], c2s[2]) + 2
        /\ c2s' = SubSeq(c2s, 3, Len(c2s))
        /\ spc' = "body"
     \/ /\ SplitReads /\ Len(c2s) = 1
        /\ c2s' = <<>>
        /\ spc' = "dead"
        /\ UNCHANGED need
  /\ data' = <<>>
  /\ UNCHANGED <<client, callback, s2c, kbuf, lost>>

\* One round of the loop around sr.read(l + 2 - len(data)).
ServerRead ==
  /\ spc = "body"
  /\ Len(data) < need
  /\ \E n \in 1 .. Len(c2s) :
       /\ n <= need - Len(data)
       /\ n = 1 \/ n = Len(c2s) \/ n = need - Len(data)
       /\ data' = data \o SubSeq(c2s, 1, n)
       /\ c2s' = SubSeq(c2s, n + 1, Len(c2s))
  /\ UNCHANGED <<client, callback, spc, need, s2c, kbuf, lost>>

ServerId == Number(data[1], data[2])

\* Mutant: the server counts the requests itself instead of echoing the id.
ReplyId_Own(id) == 1
\* The id a reply carries.
ReplyId(id) == id

\* send_message: id and text in one frame; "{}" is two bytes.
DUMMY == <<JSON, JSON>>
Frame(msg) == mark_len(Two(ReplyId(ServerId)) \o msg)

\* on_receive: the HTTP request succeeds with a page that fits a frame, or
\* something raises and the dummy message goes out instead.
ServerReply ==
  /\ spc = "body"
  /\ Len(data) = need
  /\ \/ \E k \in BodyLens :
          LET msg == mark_len(<<JSON>>) \o mark_len(Page(ServerId, k))
          IN  s2c' = s2c \o IF Fits(k) /\ Fits(Len(msg) + 2)
                            THEN Frame(msg) ELSE Frame(DUMMY)
     \/ s2c' = s2c \o Frame(DUMMY)
  /\ spc' = "header"
  /\ UNCHANGED <<client, callback, need, data, c2s, kbuf, lost>>

-----------------------------------------------------------------------------
(* The line into the kernel                                                *)

\* The serial interrupt moves a byte into the buffer.
Arrive ==
  /\ s2c # <<>>
  /\ kbuf' = Append(kbuf, Head(s2c))
  /\ s2c' = Tail(s2c)
  /\ UNCHANGED <<client, callback, server, c2s, lost>>

\* The driver loses a byte.
Lose ==
  /\ s2c # <<>>
  /\ lost < MaxLosses
  /\ s2c' = Tail(s2c)
  /\ lost' = lost + 1
  /\ UNCHANGED <<client, callback, server, c2s, kbuf>>

-----------------------------------------------------------------------------
Client == SendByte \/ PollNothing \/ PollMessage
Server == ServerHeader \/ ServerRead \/ ServerReply

Next == SendMessage \/ Client \/ Server \/ Arrive \/ Lose

Spec == Init /\ [][Next]_vars

\* The client keeps sending and polling, the server process is scheduled and
\* its HTTP requests end, the UART keeps interrupting.
FairSpec == Spec /\ WF_vars(Client) /\ WF_vars(Server) /\ WF_vars(Arrive)

-----------------------------------------------------------------------------
(* Properties                                                              *)

\* os.lua and server.py together implement RpcSpec: each callback runs once and
\* gets a whole page of its own request, or nothing.  This survives a lost byte:
\* the frame is then never complete, or has no room for an id, or carries an id
\* that nobody awaits.  It does not survive any number: three lost bytes can
\* make one frame parse as another.
Promise == INSTANCE RpcSpec WITH asked <- sent
ImplementsPromise == Promise!Spec

\* A line that loses nothing never leaves bytes of an earlier reply behind: no
\* request starts with part of a message in the client's buffers.
FreshStart ==
  lost = 0 /\ cpc \in {"idle", "sending"} =>
    serin = <<>> /\ kbuf = <<>> /\ s2c = <<>> /\ headers = {}

\* Every request that is sent is answered, unless bytes are lost or the server
\* has died of a split read.
EveryRequestAnswered ==
  cpc = "sending" ~> cpc = "idle" \/ lost > 0 \/ spc = "dead"

\* os.lua describes the format as "two bytes describing message size ... then
\* listens for message": every message in that format that a client sends
\* should leave the server ready for the next one.
ServerSurvives == spc # "dead"
=============================================================================

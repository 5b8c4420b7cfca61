----------------------------- MODULE RpcProofs ------------------------------
(***************************************************************************)
(* What holds of the request protocol for every base, all lengths of       *)
(* requests and pages, and any number of requests.                         *)
(***************************************************************************)
EXTENDS Rpc, SequenceTheorems, TLAPS

-----------------------------------------------------------------------------
(* Numbers and bytes                                                       *)

\* Every number below BASE * BASE takes exactly two bytes, and is read back.
LEMMA TwoBytes ==
  ASSUME NEW n \in Ids
  PROVE  /\ n \div BASE \in Bytes /\ n % BASE \in Bytes
         /\ Number(n \div BASE, n % BASE) = n
<1>1. BASE \in Nat /\ BASE >= 3 /\ n \in Nat /\ n < BASE * BASE
  BY BaseAssumption DEF Ids
<1>2. n \div BASE \in Nat /\ n % BASE \in Nat /\ n % BASE < BASE
  BY <1>1
<1>3. n = BASE * (n \div BASE) + (n % BASE)
  BY <1>1
<1>4. n \div BASE < BASE
  <2> DEFINE q == n \div BASE
  <2>1. SUFFICES ASSUME q >= BASE PROVE FALSE
    BY <1>1, <1>2
  <2>2. BASE * q >= BASE * BASE
    <3>1. q \in Nat /\ q >= BASE
      BY <1>2, <2>1
    <3> HIDE DEF q
    <3>2. PICK d \in Nat : q = BASE + d
      BY <1>1, <3>1
    <3>3. BASE * (BASE + d) = BASE * BASE + BASE * d /\ BASE * d \in Nat
      BY <1>1
    <3> QED
      BY <1>1, <3>2, <3>3
  <2> QED
    BY <1>1, <1>2, <1>3, <2>2
<1> QED
  BY <1>1, <1>2, <1>3, <1>4 DEF Bytes, Number

\* Two bytes make a number below BASE * BASE.
LEMMA NumberOfBytes ==
  ASSUME NEW hi \in Bytes, NEW lo \in Bytes
  PROVE  Number(hi, lo) \in Ids
<1>1. BASE \in Nat /\ BASE >= 3 /\ hi \in Nat /\ hi <= BASE - 1 /\ lo \in Nat /\ lo < BASE
  BY BaseAssumption DEF Bytes
<1>2. hi * BASE <= (BASE - 1) * BASE
  BY <1>1
<1>3. (BASE - 1) * BASE = BASE * BASE - BASE
  BY <1>1
<1>4. hi * BASE \in Nat /\ BASE * BASE \in Nat
  BY <1>1
<1> QED
  BY <1>1, <1>2, <1>3, <1>4 DEF Number, Ids

\* A part of a string is a string.
LEMMA SubIsString ==
  ASSUME NEW S, NEW msg \in Seq(S), NEW i \in Nat \ {0}, NEW j \in Nat
  PROVE  /\ Sub(msg, i, j) \in Seq(S)
         /\ j <= Len(msg) => Sub(msg, i, j) = SubSeq(msg, i, j)
         /\ Len(Sub(msg, i, j)) = IF i <= j /\ i <= Len(msg)
                                  THEN IF j < Len(msg) THEN j - i + 1
                                                       ELSE Len(msg) - i + 1
                                  ELSE 0
<1> DEFINE last == IF j < Len(msg) THEN j ELSE Len(msg)
<1>1. Len(msg) \in Nat /\ last \in Nat /\ last <= Len(msg)
  BY LenProperties
<1>2. \A k \in i .. last : msg[k] \in S
  BY <1>1, ElementOfSeq
<1>3. Sub(msg, i, j) = SubSeq(msg, i, last)
  BY DEF Sub
<1>4. /\ SubSeq(msg, i, last) \in Seq(S)
      /\ Len(SubSeq(msg, i, last)) = IF i <= last THEN last - i + 1 ELSE 0
  BY <1>1, <1>2, SubSeqProperties
<1>5. \/ j < Len(msg) /\ last = j
      \/ j >= Len(msg) /\ last = Len(msg)
  BY <1>1
<1> HIDE DEF last
<1>6. j <= Len(msg) => last = j
  BY <1>1, <1>5
<1> QED
  BY <1>1, <1>3, <1>4, <1>5, <1>6

\* A part that ends within the string is a subsequence.
LEMMA SubWithin ==
  ASSUME NEW msg \in Seq(Bytes), NEW i, NEW j \in 0 .. Len(msg)
  PROVE  Sub(msg, i, j) = SubSeq(msg, i, j)
<1>1. Len(msg) \in Nat
  BY LenProperties
<1>2. j < Len(msg) \/ j = Len(msg)
  BY <1>1
<1> QED
  BY <1>2 DEF Sub

\* A run of a byte is a string.
LEMMA RunIsString ==
  ASSUME NEW b \in Bytes, NEW n \in Nat
  PROVE  /\ Run(b, n) \in Seq(Bytes) /\ Len(Run(b, n)) = n
         /\ \A j \in 1 .. n : Run(b, n)[j] = b
  BY DEF Run

\* The two bytes of a number are a string.
LEMMA TwoIsString ==
  ASSUME NEW n \in Ids
  PROVE  /\ Two(n) \in Seq(Bytes) /\ Len(Two(n)) = 2
         /\ Two(n)[1] \in Bytes /\ Two(n)[2] \in Bytes
         /\ Number(Two(n)[1], Two(n)[2]) = n
  BY TwoBytes DEF Two

-----------------------------------------------------------------------------
(* Types                                                                   *)

\* What the types need to survive a step: there is a byte to send, and a body
\* has room for an id.
TypeInv ==
  /\ TypeOK
  /\ cpc = "sending" => tosend # <<>>
  /\ spc = "body" => need >= 2 /\ Len(data) <= need

\* Numbers that are used as bytes and ids.
LEMMA Constants ==
  /\ BASE \in Nat /\ BASE >= 3 /\ BASE * BASE \in Nat
  /\ Ids \subseteq Nat /\ 1 \in Ids /\ JSON \in Bytes
  /\ \A n \in Nat : Fits(n) => n \in Ids /\ n % BASE \in Bytes
  /\ RequestLens \subseteq Nat /\ BodyLens \subseteq Nat /\ MaxLosses \in Nat
<1>1. BASE \in Nat /\ BASE >= 3
  BY BaseAssumption
<1>2. BASE * BASE \in Nat /\ BASE * BASE > 1
  <2>1. BASE * 3 <= BASE * BASE
    <3>0. BASE - 3 \in Nat /\ BASE = 3 + (BASE - 3)
      BY <1>1
    <3>1. PICK d \in Nat : BASE = 3 + d
      BY <3>0
    <3>2. BASE * (3 + d) = BASE * 3 + BASE * d /\ BASE * d \in Nat
      BY <1>1
    <3> QED
      BY <1>1, <3>1, <3>2
  <2> QED
    BY <1>1, <2>1
<1>3. \A n \in Nat : n % BASE \in Bytes
  BY <1>1 DEF Bytes
<1> QED
  BY <1>1, <1>2, <1>3, LensAssumption, BoundsAssumption DEF Ids, Fits, Bytes, JSON

\* A message behind the mark of its length is a string.
LEMMA MarkIsString ==
  ASSUME NEW msg \in Seq(Bytes), Fits(Len(msg))
  PROVE  /\ mark_len(msg) \in Seq(Bytes)
         /\ Len(mark_len(msg)) = Len(msg) + 2
<1>1. Len(msg) \in Ids
  BY LenProperties, Constants
<1>2. Two(Len(msg)) \in Seq(Bytes) /\ Len(Two(Len(msg))) = 2
  BY <1>1, TwoIsString
<1> DEFINE mark == Two(Len(msg))
<1>3. mark_len(msg) = mark \o msg
  BY DEF mark_len
<1> HIDE DEF mark
<1>4. /\ mark \o msg \in Seq(Bytes) /\ Len(mark \o msg) = Len(mark) + Len(msg)
  BY <1>2, ConcatProperties DEF mark
<1> QED
  BY <1>2, <1>3, <1>4, LenProperties DEF mark

\* What handle_message leaves is well typed, whatever the message says.
LEMMA HandleTypes ==
  ASSUME TypeOK, NEW msg \in Seq(Bytes), NEW id \in Ids
  PROVE  /\ HeadersAfter(msg, id) \subseteq Ids
         /\ ResponsesAfter(msg, id) \in [Ids -> Seq(Bytes) \cup {NoPage}]
<1>1. HeadersAfter(msg, id) \subseteq Ids
  BY DEF TypeOK, HeadersAfter
<1>2. ASSUME NEW text \in Seq(Bytes), Readable(text)
      PROVE  /\ After(text, 1) \in Nat
             /\ After(text, 1) <= Len(text) =>
                  Segment(text, After(text, 1)) \in Seq(Bytes)
  <2>1. PICK starts \in SUBSET (1 .. Len(text) - 1) :
          /\ text # <<>> => 1 \in starts
          /\ \A j \in starts : After(text, j) \in starts \/ After(text, j) > Len(text)
    BY <1>2 DEF Readable, Whole
  <2>2. Len(text) \in Nat
    BY LenProperties
  <2>3. \A j \in 1 .. Len(text) - 1 : After(text, j) \in Nat /\ After(text, j) >= j + 2
    <3> TAKE j \in 1 .. Len(text) - 1
    <3>1. text[j] \in Bytes /\ text[j + 1] \in Bytes
      BY <2>2, ElementOfSeq
    <3>2. Number(text[j], text[j + 1]) \in Nat
      BY <3>1, NumberOfBytes, Constants
    <3> QED
      BY <3>2 DEF After
  <2>4. 1 \in starts
    BY <1>2, <2>1 DEF Readable
  <2>5. After(text, 1) \in Nat
    BY <2>1, <2>3, <2>4
  <2>6. ASSUME After(text, 1) <= Len(text)
        PROVE  Segment(text, After(text, 1)) \in Seq(Bytes)
    <3> DEFINE j == After(text, 1)
    <3>1. j \in 1 .. Len(text) - 1
      BY <2>1, <2>2, <2>4, <2>5, <2>6
    <3>2. After(text, j) \in Nat /\ After(text, j) >= j + 2
      BY <2>3, <3>1
    <3> HIDE DEF j
    <3>3. j + 2 \in Nat \ {0} /\ After(text, j) - 1 \in Nat
      BY <3>1, <3>2
    <3>4. Segment(text, j) \in Seq(Bytes)
      BY <3>3, SubIsString DEF Segment
    <3> QED
      BY <3>4 DEF j
  <2> QED
    BY <2>5, <2>6
<1>3. ResponsesAfter(msg, id) \in [Ids -> Seq(Bytes) \cup {NoPage}]
  <2> DEFINE text == Sub(msg, 3, Len(msg))
  <2>1. text \in Seq(Bytes)
    BY SubIsString, LenProperties
  <2> HIDE DEF text
  <2>2. CASE ~Readable(text)
    BY <2>2 DEF TypeOK, ResponsesAfter, text
  <2>3. CASE Readable(text)
    <3> DEFINE page == IF After(text, 1) <= Len(text)
                       THEN Segment(text, After(text, 1)) ELSE NoPage
    <3>1. page \in Seq(Bytes) \cup {NoPage}
      BY <1>2, <2>1, <2>3
    <3>2. ResponsesAfter(msg, id) = [responses EXCEPT ![id] = page]
      BY <2>3 DEF ResponsesAfter, text
    <3> HIDE DEF page
    <3> QED
      BY <3>1, <3>2 DEF TypeOK
  <2> QED
    BY <2>2, <2>3
<1> QED
  BY <1>1, <1>3

\* The two ends start with nothing to send.
LEMMA TypeInit == Init => TypeInv
  BY Constants DEF Init, TypeInv, TypeOK

\* A page is a string of the length that was asked for.
LEMMA PageIsString ==
  ASSUME NEW id \in Ids, NEW k \in BodyLens
  PROVE  Page(id, k) \in Seq(Bytes) /\ Len(Page(id, k)) = k
<1>1. id \in Nat /\ id % BASE \in Bytes /\ k \in Nat
  BY Constants DEF Bytes
<1> QED
  BY <1>1, RunIsString DEF Page

\* The text of a reply is a string.
LEMMA TextIsString ==
  ASSUME NEW id \in Ids, NEW k \in BodyLens, Fits(k)
  PROVE  /\ mark_len(<<JSON>>) \in Seq(Bytes) /\ Len(mark_len(<<JSON>>)) = 3
         /\ mark_len(Page(id, k)) \in Seq(Bytes)
         /\ Len(mark_len(Page(id, k))) = k + 2
         /\ mark_len(<<JSON>>) \o mark_len(Page(id, k)) \in Seq(Bytes)
<1>1. <<JSON>> \in Seq(Bytes) /\ Len(<<JSON>>) = 1 /\ Fits(1)
  BY Constants DEF Fits, Ids
<1>2. Page(id, k) \in Seq(Bytes) /\ Len(Page(id, k)) = k
  BY PageIsString
<1>3. mark_len(<<JSON>>) \in Seq(Bytes) /\ Len(mark_len(<<JSON>>)) = 1 + 2
  BY <1>1, MarkIsString
<1>4. /\ mark_len(Page(id, k)) \in Seq(Bytes)
      /\ Len(mark_len(Page(id, k))) = k + 2
  BY <1>2, MarkIsString
<1> QED
  BY <1>3, <1>4, ConcatProperties

\* The client's steps.
LEMMA TypeSendMessage == TypeInv /\ SendMessage => TypeInv'
<1> SUFFICES ASSUME TypeInv, SendMessage PROVE TypeInv'
  OBVIOUS
<1>1. PICK n \in RequestLens :
        IF Fits(n) /\ Fits(send_message_id)
        THEN /\ tosend' = Two(n) \o Two(send_message_id) \o Run(JSON, n)
             /\ cpc' = "sending"
             /\ sent' = sent + 1
        ELSE /\ cpc' = "panic"
             /\ UNCHANGED <<tosend, sent>>
  BY DEF SendMessage
<1>2. n \in Nat /\ send_message_id \in Nat
  BY Constants DEF TypeInv, TypeOK
<1>3. CASE Fits(n) /\ Fits(send_message_id)
  <2>1. n \in Ids /\ send_message_id \in Ids
    BY <1>2, <1>3, Constants
  <2>2. tosend' \in Seq(Bytes) /\ Len(tosend') = 4 + n
    <3> DEFINE first == Two(n)  second == Two(send_message_id)  text == Run(JSON, n)
    <3>1. /\ first \in Seq(Bytes) /\ Len(first) = 2
          /\ second \in Seq(Bytes) /\ Len(second) = 2
          /\ text \in Seq(Bytes) /\ Len(text) = n
      BY <1>2, <2>1, TwoIsString, RunIsString, Constants
    <3>2. tosend' = first \o second \o text
      BY <1>1, <1>3
    <3> HIDE DEF first, second, text
    <3>3. first \o second \in Seq(Bytes) /\ Len(first \o second) = 4
      BY <3>1, ConcatProperties
    <3> QED
      BY <1>2, <3>1, <3>2, <3>3, ConcatProperties
  <2>3. tosend' # <<>>
    BY <1>2, <2>2, EmptySeq
  <2> QED
    BY <1>1, <1>3, <2>2, <2>3 DEF SendMessage, TypeInv, TypeOK, server
<1>4. CASE ~(Fits(n) /\ Fits(send_message_id))
  BY <1>1, <1>4 DEF SendMessage, TypeInv, TypeOK, server
<1> QED
  BY <1>3, <1>4

LEMMA TypeSendByte == TypeInv /\ SendByte => TypeInv'
<1> SUFFICES ASSUME TypeInv, SendByte PROVE TypeInv'
  OBVIOUS
<1>1. tosend \in Seq(Bytes) /\ tosend # <<>> /\ c2s \in Seq(Bytes)
  BY DEF TypeInv, TypeOK, SendByte
<1>2. /\ tosend' \in Seq(Bytes) /\ Len(tosend') = Len(tosend) - 1
      /\ c2s' \in Seq(Bytes)
  BY <1>1, HeadTailProperties, AppendProperties DEF SendByte
<1>3. cpc' = "sending" => tosend' # <<>>
  <2>1. Len(tosend) \in Nat /\ Len(<<>>) = 0
    BY <1>1, LenProperties
  <2> QED
    BY <1>2, <2>1 DEF SendByte
<1>4. cpc' \in {"sending", "waiting"}
  BY DEF SendByte
<1> QED
  BY <1>2, <1>3, <1>4 DEF SendByte, TypeInv, TypeOK, callback, server

LEMMA TypePollNothing == TypeInv /\ PollNothing => TypeInv'
<1> SUFFICES ASSUME TypeInv, PollNothing PROVE TypeInv'
  OBVIOUS
<1>1. serin' \in Seq(Bytes) /\ kbuf' \in Seq(Bytes)
  BY ConcatProperties DEF TypeInv, TypeOK, PollNothing
<1> QED
  BY <1>1 DEF PollNothing, TypeInv, TypeOK, callback, server

LEMMA TypePollMessage == TypeInv /\ PollMessage => TypeInv'
<1> SUFFICES ASSUME TypeInv, PollMessage PROVE TypeInv'
  OBVIOUS
<1> USE Constants
<1> DEFINE buf  == serin \o kbuf
           stop == Number(buf[1], buf[2]) + 2
           msg  == Sub(buf, 3, stop)
           id   == Number(msg[1], msg[2])
           hs   == HeadersAfter(msg, id)
           rs   == ResponsesAfter(msg, id)
<1>0. /\ cpc = "waiting" /\ Complete(buf) /\ kbuf' = <<>>
      /\ \/ /\ Len(msg) < 2
            /\ cpc' = "panic"
            /\ serin' = buf
            /\ UNCHANGED <<send_message_id, headers, responses, answers>>
         \/ /\ Len(msg) >= 2
            /\ serin' = Sub(buf, stop + 1, Len(buf))
            /\ IF Awaited(id)
               THEN /\ answers' = Append(answers,
                         [header |-> send_message_id \in hs,
                          page   |-> rs[send_message_id]])
                    /\ headers' = hs \ {send_message_id}
                    /\ responses' = [rs EXCEPT ![send_message_id] = NoPage]
                    /\ send_message_id' = send_message_id + 1
                    /\ cpc' = "idle"
               ELSE /\ headers' = hs /\ responses' = rs
                    /\ UNCHANGED <<answers, send_message_id, cpc>>
      /\ UNCHANGED <<tosend, sent, server, c2s, s2c, lost>>
  BY DEF PollMessage
<1>1. TypeOK
  BY DEF TypeInv
<1> HIDE DEF buf, stop, msg, id, hs, rs
<1>2. buf \in Seq(Bytes)
  BY <1>1, ConcatProperties DEF TypeOK, buf
<1>3. Len(buf) \in Nat /\ Len(buf) > 2
  BY <1>0, <1>2, LenProperties DEF Complete
<1>4. stop \in Nat /\ stop + 1 \in Nat \ {0}
  <2>1. buf[1] \in Bytes /\ buf[2] \in Bytes
    BY <1>2, <1>3, ElementOfSeq
  <2>2. Number(buf[1], buf[2]) \in Nat
    BY <2>1, NumberOfBytes
  <2> QED
    BY <2>2 DEF stop
<1>5. msg \in Seq(Bytes) /\ Len(msg) \in Nat
  <2>1. msg \in Seq(Bytes)
    BY <1>2, <1>4, SubIsString DEF msg
  <2> QED
    BY <2>1, LenProperties
<1>6. CASE /\ Len(msg) < 2
           /\ cpc' = "panic"
           /\ serin' = buf
           /\ UNCHANGED <<send_message_id, headers, responses, answers>>
  BY <1>0, <1>1, <1>2, <1>6 DEF TypeInv, TypeOK, server
<1>7. CASE Len(msg) >= 2 /\ serin' = Sub(buf, stop + 1, Len(buf))
  <2>1. id \in Ids
    <3>1. msg[1] \in Bytes /\ msg[2] \in Bytes
      BY <1>5, <1>7, ElementOfSeq
    <3> QED
      BY <3>1, NumberOfBytes DEF id
  <2>2. serin' \in Seq(Bytes)
    BY <1>2, <1>3, <1>4, <1>7, SubIsString
  <2>3. hs \subseteq Ids /\ rs \in [Ids -> Seq(Bytes) \cup {NoPage}]
    BY <1>1, <1>5, <2>1, HandleTypes DEF hs, rs
  <2>4. CASE /\ Awaited(id)
             /\ answers' = Append(answers,
                     [header |-> send_message_id \in hs,
                      page   |-> rs[send_message_id]])
             /\ headers' = hs \ {send_message_id}
             /\ responses' = [rs EXCEPT ![send_message_id] = NoPage]
             /\ send_message_id' = send_message_id + 1
             /\ cpc' = "idle"
    <3>1. send_message_id \in Ids
      BY <2>1, <2>4 DEF Awaited
    <3>2. rs[send_message_id] \in Seq(Bytes) \cup {NoPage}
      BY <2>3, <3>1
    <3> DEFINE answer == [header |-> send_message_id \in hs,
                          page   |-> rs[send_message_id]]
    <3>3. answer \in Answers
      BY <3>2 DEF Answers
    <3>4. answers' = Append(answers, answer) /\ answers \in Seq(Answers)
      BY <1>1, <2>4 DEF TypeOK
    <3> HIDE DEF answer
    <3>5. answers' \in Seq(Answers)
      BY <3>3, <3>4, AppendProperties
    <3>6. responses' \in [Ids -> Seq(Bytes) \cup {NoPage}]
      BY <2>3, <2>4
    <3>7. send_message_id' \in 0 .. BASE * BASE /\ headers' \subseteq Ids
      BY <2>3, <2>4, <3>1 DEF Ids
    <3> QED
      BY <1>0, <1>1, <2>2, <2>4, <3>5, <3>6, <3>7 DEF TypeInv, TypeOK, server
  <2>5. CASE /\ headers' = hs /\ responses' = rs
             /\ UNCHANGED <<answers, send_message_id, cpc>>
    BY <1>0, <1>1, <2>2, <2>3, <2>5 DEF TypeInv, TypeOK, server
  <2> QED
    BY <1>0, <1>5, <1>7, <2>4, <2>5
<1> QED
  BY <1>0, <1>6, <1>7

\* The server's steps.
LEMMA TypeServerHeader == TypeInv /\ ServerHeader => TypeInv'
<1> SUFFICES ASSUME TypeInv, ServerHeader PROVE TypeInv'
  OBVIOUS
<1> USE Constants
<1>1. c2s \in Seq(Bytes) /\ Len(c2s) \in Nat
  BY LenProperties DEF TypeInv, TypeOK
<1>2. CASE /\ Len(c2s) >= 2
           /\ need' = Number(c2s[1], c2s[2]) + 2
           /\ c2s' = SubSeq(c2s, 3, Len(c2s))
           /\ spc' = "body"
  <2>1. \A k \in 3 .. Len(c2s) : c2s[k] \in Bytes
    BY <1>1, ElementOfSeq
  <2>2. c2s' \in Seq(Bytes)
    BY <1>1, <1>2, <2>1, SubSeqProperties
  <2>3. c2s[1] \in Bytes /\ c2s[2] \in Bytes
    BY <1>1, <1>2, ElementOfSeq
  <2>4. need' \in Nat /\ need' >= 2
    <3>1. Number(c2s[1], c2s[2]) \in Nat
      BY <2>3, NumberOfBytes
    <3> QED
      BY <1>2, <3>1
  <2> QED
    BY <1>2, <2>2, <2>4 DEF ServerHeader, TypeInv, TypeOK, client, callback
<1>3. CASE SplitReads /\ Len(c2s) = 1 /\ c2s' = <<>> /\ spc' = "dead" /\ UNCHANGED need
  BY <1>3 DEF ServerHeader, TypeInv, TypeOK, client, callback
<1> QED
  BY <1>2, <1>3 DEF ServerHeader

LEMMA TypeServerRead == TypeInv /\ ServerRead => TypeInv'
<1> SUFFICES ASSUME TypeInv, ServerRead PROVE TypeInv'
  OBVIOUS
<1>1. PICK n \in 1 .. Len(c2s) :
        /\ n <= need - Len(data)
        /\ data' = data \o SubSeq(c2s, 1, n)
        /\ c2s' = SubSeq(c2s, n + 1, Len(c2s))
  BY DEF ServerRead
<1>2. /\ c2s \in Seq(Bytes) /\ Len(c2s) \in Nat
      /\ data \in Seq(Bytes) /\ Len(data) \in Nat /\ need \in Nat
  BY LenProperties DEF TypeInv, TypeOK
<1>3. /\ SubSeq(c2s, 1, n) \in Seq(Bytes) /\ Len(SubSeq(c2s, 1, n)) = n
      /\ SubSeq(c2s, n + 1, Len(c2s)) \in Seq(Bytes)
  <2>1. \A k \in 1 .. Len(c2s) : c2s[k] \in Bytes
    BY <1>2, ElementOfSeq
  <2> QED
    BY <1>2, <2>1, SubSeqProperties
<1>4. /\ data' \in Seq(Bytes) /\ Len(data') = Len(data) + n
  BY <1>1, <1>2, <1>3, ConcatProperties
<1>5. Len(data') <= need
  BY <1>1, <1>2, <1>4
<1> QED
  BY <1>1, <1>3, <1>4, <1>5 DEF ServerRead, TypeInv, TypeOK, client, callback

\* A reply fits its frame.
LEMMA FrameIsString ==
  ASSUME NEW id \in Ids, ServerId = id, NEW msg \in Seq(Bytes), Fits(Len(msg) + 2)
  PROVE  Frame(msg) \in Seq(Bytes)
<1>1. /\ Two(id) \o msg \in Seq(Bytes)
      /\ Len(Two(id) \o msg) = Len(msg) + 2
  BY TwoIsString, ConcatProperties
<1>2. Frame(msg) = mark_len(Two(id) \o msg)
  BY DEF Frame, ReplyId
<1> QED
  BY <1>1, <1>2, MarkIsString

LEMMA DummyFits == DUMMY \in Seq(Bytes) /\ Len(DUMMY) = 2 /\ Fits(Len(DUMMY) + 2)
<1>1. DUMMY \in Seq(Bytes) /\ Len(DUMMY) = 2
  BY Constants DEF DUMMY
<1>2. BASE * BASE > 4
  <2>0. BASE - 3 \in Nat /\ BASE = 3 + (BASE - 3)
    BY Constants
  <2>1. PICK d \in Nat : BASE = 3 + d
    BY <2>0
  <2>2. (3 + d) * (3 + d) = 9 + 6 * d + d * d /\ d * d \in Nat
    OBVIOUS
  <2> QED
    BY <2>1, <2>2
<1> QED
  BY <1>1, <1>2 DEF Fits

LEMMA TypeServerReply == TypeInv /\ ServerReply => TypeInv'
<1> SUFFICES ASSUME TypeInv, ServerReply PROVE TypeInv'
  OBVIOUS
<1> USE Constants
<1>1. data \in Seq(Bytes) /\ Len(data) \in Nat /\ Len(data) >= 2
  BY LenProperties DEF TypeInv, TypeOK, ServerReply
<1>2. ServerId \in Ids
  <2>1. data[1] \in Bytes /\ data[2] \in Bytes
    BY <1>1, ElementOfSeq
  <2> QED
    BY <2>1, NumberOfBytes DEF ServerId
<1>3. Frame(DUMMY) \in Seq(Bytes)
  BY <1>2, DummyFits, FrameIsString
<1>4. ASSUME NEW k \in BodyLens, Fits(k),
             Fits(Len(mark_len(<<JSON>>) \o mark_len(Page(ServerId, k))) + 2)
      PROVE  Frame(mark_len(<<JSON>>) \o mark_len(Page(ServerId, k))) \in Seq(Bytes)
  <2>1. mark_len(<<JSON>>) \o mark_len(Page(ServerId, k)) \in Seq(Bytes)
    BY <1>2, <1>4, TextIsString
  <2> QED
    BY <1>2, <1>4, <2>1, FrameIsString
<1>5. \E reply \in Seq(Bytes) : s2c' = s2c \o reply
  <2>1. CASE s2c' = s2c \o Frame(DUMMY)
    BY <1>3, <2>1
  <2>2. ASSUME NEW k \in BodyLens,
               LET msg == mark_len(<<JSON>>) \o mark_len(Page(ServerId, k))
               IN  s2c' = s2c \o IF Fits(k) /\ Fits(Len(msg) + 2)
                                 THEN Frame(msg) ELSE Frame(DUMMY)
        PROVE  \E reply \in Seq(Bytes) : s2c' = s2c \o reply
    BY <1>3, <1>4, <2>2
  <2> QED
    BY <2>1, <2>2 DEF ServerReply
<1>6. s2c' \in Seq(Bytes)
  BY <1>5, ConcatProperties DEF TypeInv, TypeOK
<1>7. spc' = "header"
  BY DEF ServerReply
<1> QED
  BY <1>6, <1>7 DEF ServerReply, TypeInv, TypeOK, client, callback

\* The line's steps.
LEMMA TypeLine == TypeInv /\ (Arrive \/ Lose) => TypeInv'
<1> SUFFICES ASSUME TypeInv, Arrive \/ Lose PROVE TypeInv'
  OBVIOUS
<1>1. s2c \in Seq(Bytes) /\ s2c # <<>> /\ kbuf \in Seq(Bytes)
  BY DEF TypeInv, TypeOK, Arrive, Lose
<1>2. /\ Head(s2c) \in Bytes /\ Tail(s2c) \in Seq(Bytes)
      /\ Append(kbuf, Head(s2c)) \in Seq(Bytes)
  BY <1>1, HeadTailProperties, AppendProperties
<1>3. lost' \in 0 .. MaxLosses
  BY Constants DEF TypeInv, TypeOK, Arrive, Lose
<1> QED
  BY <1>2, <1>3 DEF Arrive, Lose, TypeInv, TypeOK, client, callback, server

LEMMA TypeStep == TypeInv /\ [Next]_vars => TypeInv'
<1>1. TypeInv /\ UNCHANGED vars => TypeInv'
  BY DEF vars, client, callback, server, TypeInv, TypeOK
<1> QED
  BY <1>1, TypeSendMessage, TypeSendByte, TypePollNothing, TypePollMessage,
     TypeServerHeader, TypeServerRead, TypeServerReply, TypeLine
  DEF Next, Client, Server

\* For every base, all lengths and any number of requests and lost bytes: ids
\* and lengths fit their two bytes, whatever a damaged frame says the client
\* reads and stores only strings, and what it stores belongs to an id.
THEOREM RpcTypes == Spec => []TypeOK
<1>1. TypeInv => TypeOK
  BY DEF TypeInv
<1> QED
  BY TypeInit, TypeStep, <1>1, PTL DEF Spec

-----------------------------------------------------------------------------
(* Strings                                                                 *)

\* Concatenation is associative.
LEMMA Regroup == \A a, b, c \in Seq(Bytes) : (a \o b) \o c = a \o (b \o c)
  BY ConcatAssociative

\* Moving a byte from the head of one string to the end of another.
LEMMA MoveHead ==
  ASSUME NEW S, NEW a \in Seq(S), NEW b \in Seq(S), b # <<>>
  PROVE  Append(a, Head(b)) \o Tail(b) = a \o b
<1>1. Head(b) \in S /\ Tail(b) \in Seq(S) /\ <<Head(b)>> \in Seq(S)
  BY HeadTailProperties
<1>2. <<Head(b)>> \o Tail(b) = b
  <2>1. Len(b) \in Nat /\ Len(b) >= 1
    BY EmptySeq, LenProperties
  <2>2. SubSeq(b, 1, Len(b)) = <<b[1]>> \o SubSeq(b, 2, Len(b))
    BY <2>1, SubSeqRecursiveFirst
  <2>3. SubSeq(b, 1, Len(b)) = b /\ Tail(b) = SubSeq(b, 2, Len(b)) /\ Head(b) = b[1]
    BY SubSeqFull, TailIsSubSeq
  <2> QED
    BY <2>2, <2>3
<1>3. Append(a, Head(b)) = a \o <<Head(b)>>
  BY <1>1, AppendIsConcat
<1>4. (a \o <<Head(b)>>) \o Tail(b) = a \o (<<Head(b)>> \o Tail(b))
  BY <1>1, ConcatAssociative
<1> QED
  BY <1>2, <1>3, <1>4

\* A string is its first n bytes and the rest.
LEMMA CutAt ==
  ASSUME NEW S, NEW a \in Seq(S), NEW n \in 0 .. Len(a)
  PROVE  /\ SubSeq(a, 1, n) \in Seq(S) /\ SubSeq(a, n + 1, Len(a)) \in Seq(S)
         /\ Len(SubSeq(a, 1, n)) = n
         /\ Len(SubSeq(a, n + 1, Len(a))) = Len(a) - n
         /\ \A j \in 1 .. n : SubSeq(a, 1, n)[j] = a[j]
         /\ \A j \in 1 .. Len(a) - n : SubSeq(a, n + 1, Len(a))[j] = a[n + j]
         /\ SubSeq(a, 1, n) \o SubSeq(a, n + 1, Len(a)) = a
<1>1. Len(a) \in Nat /\ \A j \in 1 .. Len(a) : a[j] \in S
  BY LenProperties, ElementOfSeq
<1>2. /\ SubSeq(a, 1, n) \in Seq(S) /\ Len(SubSeq(a, 1, n)) = n
      /\ \A j \in 1 .. n : SubSeq(a, 1, n)[j] = a[j]
  BY <1>1, SubSeqProperties
<1>3. /\ SubSeq(a, n + 1, Len(a)) \in Seq(S)
      /\ Len(SubSeq(a, n + 1, Len(a))) = Len(a) - n
      /\ \A j \in 1 .. Len(a) - n : SubSeq(a, n + 1, Len(a))[j] = a[n + j]
  BY <1>1, SubSeqProperties
<1>4. SubSeq(a, 1, n) \o SubSeq(a, n + 1, Len(a)) = SubSeq(a, 1, Len(a))
  <2>1. 1 \in 1 .. Len(a) + 1 /\ n \in 1 - 1 .. Len(a) /\ Len(a) \in n .. Len(a)
    BY <1>1
  <2> QED
    BY <2>1, ConcatAdjacentSubSeq
<1>5. SubSeq(a, 1, Len(a)) = a
  BY SubSeqFull
<1> QED
  BY <1>2, <1>3, <1>4, <1>5

\* Two strings that are equal are equal part by part.
LEMMA PartsEqual ==
  ASSUME NEW S, NEW a \in Seq(S), NEW b \in Seq(S), NEW c \in Seq(S),
         NEW d \in Seq(S), Len(a) = Len(c), a \o b = c \o d
  PROVE  a = c /\ b = d
<1>1. Len(a) \in Nat /\ Len(b) \in Nat /\ Len(c) \in Nat
  BY LenProperties
<1>2. \A j \in 1 .. Len(a) : a[j] = c[j]
  <2> TAKE j \in 1 .. Len(a)
  <2>1. (a \o b)[j] = a[j] /\ (c \o d)[j] = c[j]
    BY <1>1, LenProperties, ConcatProperties
  <2> QED
    BY <2>1
<1>3. a = c
  BY <1>2, SeqEqual
<1>4. Len(b) = Len(d)
  <2>1. Len(a \o b) = Len(a) + Len(b) /\ Len(c \o d) = Len(c) + Len(d)
    BY ConcatProperties
  <2> QED
    BY <1>1, <2>1, LenProperties
<1>5. \A j \in 1 .. Len(b) : b[j] = d[j]
  <2> TAKE j \in 1 .. Len(b)
  <2> DEFINE k == Len(a) + j
  <2>1. k \in 1 .. Len(a) + Len(b) /\ ~(k <= Len(a)) /\ k - Len(a) = j
    BY <1>1
  <2> HIDE DEF k
  <2>2. (a \o b)[k] = b[j] /\ (c \o d)[k] = d[j]
    BY <1>1, <1>4, <2>1, ConcatProperties
  <2> QED
    BY <2>2
<1>6. b = d
  BY <1>4, <1>5, SeqEqual
<1> QED
  BY <1>3, <1>6

\* The two bytes at the head of a string.
LEMMA HeadBytes ==
  ASSUME NEW n \in Ids, NEW msg \in Seq(Bytes)
  PROVE  /\ Two(n) \o msg \in Seq(Bytes) /\ Len(Two(n) \o msg) = Len(msg) + 2
         /\ Number((Two(n) \o msg)[1], (Two(n) \o msg)[2]) = n
         /\ SubSeq(Two(n) \o msg, 3, Len(msg) + 2) = msg
<1> DEFINE two == Two(n)
<1>1. two \in Seq(Bytes) /\ Len(two) = 2 /\ Number(two[1], two[2]) = n
  BY TwoIsString
<1> HIDE DEF two
<1>2. Len(msg) \in Nat
  BY LenProperties
<1>3. /\ two \o msg \in Seq(Bytes) /\ Len(two \o msg) = Len(msg) + 2
      /\ (two \o msg)[1] = two[1] /\ (two \o msg)[2] = two[2]
  <2>1. /\ two \o msg \in Seq(Bytes) /\ Len(two \o msg) = Len(two) + Len(msg)
        /\ \A j \in 1 .. Len(two) + Len(msg) :
             (two \o msg)[j] = IF j <= Len(two) THEN two[j] ELSE msg[j - Len(two)]
    BY <1>1, ConcatProperties
  <2>2. 1 \in 1 .. Len(two) + Len(msg) /\ 2 \in 1 .. Len(two) + Len(msg)
    BY <1>1, <1>2
  <2>3. (two \o msg)[1] = two[1] /\ (two \o msg)[2] = two[2]
    BY <1>1, <2>1, <2>2
  <2> QED
    BY <1>1, <1>2, <2>1, <2>3
<1>4. /\ SubSeq(two \o msg, 1, 2) \in Seq(Bytes)
      /\ SubSeq(two \o msg, 3, Len(msg) + 2) \in Seq(Bytes)
      /\ Len(SubSeq(two \o msg, 1, 2)) = 2
      /\ SubSeq(two \o msg, 1, 2) \o SubSeq(two \o msg, 3, Len(msg) + 2) = two \o msg
  <2> DEFINE all == two \o msg
  <2>1. all \in Seq(Bytes) /\ Len(all) = Len(msg) + 2 /\ 2 \in 0 .. Len(all)
    BY <1>2, <1>3
  <2> HIDE DEF all
  <2>2. /\ SubSeq(all, 1, 2) \in Seq(Bytes)
        /\ SubSeq(all, 2 + 1, Len(all)) \in Seq(Bytes)
        /\ Len(SubSeq(all, 1, 2)) = 2
        /\ SubSeq(all, 1, 2) \o SubSeq(all, 2 + 1, Len(all)) = all
    BY <2>1, CutAt
  <2>3. 2 + 1 = 3
    OBVIOUS
  <2> QED
    BY <2>1, <2>2, <2>3 DEF all
<1>5. SubSeq(two \o msg, 3, Len(msg) + 2) = msg
  BY <1>1, <1>4, PartsEqual
<1> QED
  BY <1>1, <1>3, <1>5 DEF two

-----------------------------------------------------------------------------
(* One request and its reply, on a line that has lost nothing              *)

\* What follows the length in the frame of a request with text of length n.
Request(n) == Two(send_message_id) \o Run(JSON, n)

\* A text that the server sends back for a request.
IsText(id, msg) ==
  /\ msg \in Seq(Bytes) /\ Fits(Len(msg) + 2)
  /\ \/ msg = DUMMY
     \/ \E k \in BodyLens :
          Fits(k) /\ msg = mark_len(<<JSON>>) \o mark_len(Page(id, k))

\* Nothing of a reply is on its way.
Quiet == serin = <<>> /\ kbuf = <<>> /\ s2c = <<>>

\* Where the bytes of a request, and then of its reply, can be.
Asking(n)  == spc = "header" /\ Quiet /\ c2s \o tosend = Two(n) \o Request(n)
Reading(n) == /\ spc = "body" /\ Quiet /\ need = n + 2
              /\ data \o (c2s \o tosend) = Request(n)
Replying   == /\ spc = "header" /\ c2s = <<>> /\ tosend = <<>>
              /\ \E msg \in Seq(Bytes) :
                   /\ IsText(send_message_id, msg)
                   /\ serin \o (kbuf \o s2c) = mark_len(Two(send_message_id) \o msg)
Dead       == spc = "dead" /\ Quiet

Exchange ==
  /\ headers = {} /\ responses = [n \in Ids |-> NoPage]
  /\ cpc = "idle" => spc = "header" /\ Quiet /\ c2s = <<>> /\ tosend = <<>>
  /\ cpc \in {"sending", "waiting"} =>
       /\ send_message_id \in Ids
       /\ \/ Replying \/ Dead
          \/ \E n \in RequestLens : Fits(n) /\ (Asking(n) \/ Reading(n))
  /\ cpc = "waiting" => tosend = <<>>

\* Each answer belongs to one request, in order.
Counted ==
  /\ cpc = "idle" => sent = Len(answers)
  /\ cpc \in {"sending", "waiting"} => sent = Len(answers) + 1
  /\ cpc # "panic" => send_message_id = Len(answers) + 1

ExchangeInv == lost = 0 => Exchange

\* A buffer that holds a complete message when only one reply is on its way
\* holds exactly that reply.
LEMMA CompleteIsAll ==
  ASSUME NEW id \in Ids, NEW m \in Seq(Bytes), Fits(Len(m) + 2),
         NEW buf \in Seq(Bytes), NEW rest \in Seq(Bytes),
         buf \o rest = mark_len(Two(id) \o m), Complete(buf)
  PROVE  /\ rest = <<>> /\ Number(buf[1], buf[2]) + 2 = Len(m) + 4
         /\ Sub(buf, 3, Len(m) + 4) = Two(id) \o m
         /\ Sub(buf, Len(m) + 4 + 1, Len(buf)) = <<>>
<1> DEFINE body == Two(id) \o m
           L    == Len(m) + 2
<1>1. body \in Seq(Bytes) /\ Len(body) = L
  BY HeadBytes
<1>2. L \in Ids /\ L \in Nat
  <2>1. Len(m) + 2 \in Nat
    BY LenProperties
  <2> QED
    BY <2>1, Constants
<1>3. mark_len(body) = Two(L) \o body
  BY <1>1 DEF mark_len
<1> HIDE DEF body, L
<1> DEFINE all == Two(L) \o body
<1>4. /\ all \in Seq(Bytes) /\ Len(all) = L + 2 /\ Number(all[1], all[2]) = L
      /\ SubSeq(all, 3, L + 2) = body
  BY <1>1, <1>2, HeadBytes
<1>5. buf \o rest = all
  BY <1>3 DEF body
<1> HIDE DEF all
<1>6. Len(buf) \in Nat /\ Len(rest) \in Nat /\ Len(buf) > 2
  BY LenProperties DEF Complete
<1>7. buf[1] = all[1] /\ buf[2] = all[2]
  <2>1. \A j \in 1 .. Len(buf) + Len(rest) :
          (buf \o rest)[j] = IF j <= Len(buf) THEN buf[j] ELSE rest[j - Len(buf)]
    BY ConcatProperties
  <2>2. 1 \in 1 .. Len(buf) + Len(rest) /\ 2 \in 1 .. Len(buf) + Len(rest)
    BY <1>6
  <2> QED
    BY <1>5, <1>6, <2>1, <2>2
<1>8. Len(buf) + Len(rest) = L + 2
  BY <1>4, <1>5, ConcatProperties
<1>9. Len(buf) >= L + 2
  BY <1>4, <1>7 DEF Complete
<1>10. rest = <<>>
  <2>1. Len(rest) = 0
    BY <1>2, <1>6, <1>8, <1>9
  <2> QED
    BY <2>1, EmptySeq
<1>11. buf = all
  BY <1>5, <1>10, ConcatEmptySeq
<1>12. Sub(buf, 3, L + 2) = body
  <2>1. 3 \in Nat \ {0} /\ L + 2 \in Nat /\ L + 2 <= Len(all)
    BY <1>2, <1>4
  <2>2. Sub(all, 3, L + 2) = SubSeq(all, 3, L + 2)
    BY <1>4, <2>1, SubIsString
  <2> QED
    BY <1>4, <1>11, <2>2
<1>13. Sub(buf, L + 2 + 1, Len(buf)) = <<>>
  <2>1. L + 2 + 1 \in Nat \ {0} /\ Len(buf) = L + 2
    BY <1>2, <1>4, <1>11
  <2>2. Sub(buf, L + 2 + 1, Len(buf)) \in Seq(Bytes)
    BY <1>6, <2>1, SubIsString
  <2>3. Len(Sub(buf, L + 2 + 1, Len(buf))) = 0
    <3>1. ~(L + 2 + 1 <= Len(buf))
      BY <1>2, <2>1
    <3> QED
      BY <1>6, <2>1, <3>1, SubIsString
  <2> QED
    BY <2>2, <2>3, EmptySeq
<1>14. L + 2 = Len(m) + 4
  BY LenProperties DEF L
<1> QED
  BY <1>4, <1>7, <1>10, <1>12, <1>13, <1>14 DEF body

\* The line starts empty.
LEMMA ExchangeInit == Init => ExchangeInv /\ Counted
  BY DEF Init, ExchangeInv, Exchange, Quiet, Counted

\* The strings of a state.
LEMMA Strings ==
  ASSUME TypeInv
  PROVE  /\ tosend \in Seq(Bytes) /\ serin \in Seq(Bytes) /\ data \in Seq(Bytes)
         /\ c2s \in Seq(Bytes) /\ s2c \in Seq(Bytes) /\ kbuf \in Seq(Bytes)
         /\ Len(data) \in Nat /\ Len(c2s) \in Nat /\ Len(tosend) \in Nat
         /\ need \in Nat /\ lost \in Nat
  BY LenProperties DEF TypeInv, TypeOK

\* What follows the length is an id and a text.
LEMMA RequestIsString ==
  ASSUME NEW n \in RequestLens, Fits(n), send_message_id \in Ids
  PROVE  /\ n \in Ids /\ Request(n) \in Seq(Bytes) /\ Len(Request(n)) = n + 2
         /\ Number(Request(n)[1], Request(n)[2]) = send_message_id
<1>1. n \in Nat /\ n \in Ids /\ JSON \in Bytes
  BY Constants
<1>2. Run(JSON, n) \in Seq(Bytes) /\ Len(Run(JSON, n)) = n
  BY <1>1, RunIsString
<1> QED
  BY <1>1, <1>2, HeadBytes DEF Request

\* A request starts on an empty line.
LEMMA ExchangeSendMessage ==
  ASSUME TypeInv, Exchange, SendMessage PROVE Exchange'
<1>1. cpc = "idle" /\ spc = "header" /\ Quiet /\ c2s = <<>> /\ tosend = <<>>
  BY DEF SendMessage, Exchange
<1>2. /\ UNCHANGED <<send_message_id, headers, responses, spc, need, data, c2s>>
      /\ UNCHANGED <<serin, s2c, kbuf>>
  BY DEF SendMessage, server
<1>3. PICK n \in RequestLens :
        IF Fits(n) /\ Fits(send_message_id)
        THEN /\ tosend' = Two(n) \o Two(send_message_id) \o Run(JSON, n)
             /\ cpc' = "sending"
        ELSE cpc' = "panic"
  BY DEF SendMessage
<1>4. Quiet'
  BY <1>1, <1>2 DEF Quiet
<1>5. CASE Fits(n) /\ Fits(send_message_id)
  <2>1. n \in Ids /\ n \in Nat /\ send_message_id \in Ids
    BY <1>5, Constants DEF TypeInv, TypeOK
  <2>2. Asking(n)'
    <3> DEFINE first == Two(n)  second == Two(send_message_id)  text == Run(JSON, n)
    <3>1. first \in Seq(Bytes) /\ second \in Seq(Bytes) /\ text \in Seq(Bytes)
      BY <2>1, TwoIsString, RunIsString, Constants
    <3>2. tosend' = first \o second \o text
      BY <1>3, <1>5
    <3>3. Request(n)' = second \o text
      BY <1>2 DEF Request
    <3>4. Two(n)' = first
      BY DEF Two
    <3> HIDE DEF first, second, text
    <3>5. tosend' = first \o (second \o text) /\ tosend' \in Seq(Bytes)
      BY <3>1, <3>2, ConcatAssociative, ConcatProperties
    <3>6. c2s' \o tosend' = tosend'
      BY <1>1, <1>2, <3>5, ConcatEmptySeq
    <3> QED
      BY <1>1, <1>2, <1>4, <3>3, <3>4, <3>5, <3>6 DEF Asking
  <2> QED
    BY <1>2, <1>3, <1>5, <2>1, <2>2 DEF Exchange
<1>6. CASE ~(Fits(n) /\ Fits(send_message_id))
  BY <1>2, <1>3, <1>6 DEF Exchange
<1> QED
  BY <1>5, <1>6

\* A byte goes from the client to the line.
LEMMA ExchangeSendByte ==
  ASSUME TypeInv, Exchange, SendByte PROVE Exchange'
<1>1. /\ UNCHANGED <<send_message_id, headers, responses, spc, need, data>>
      /\ UNCHANGED <<serin, s2c, kbuf>>
      /\ c2s' = Append(c2s, Head(tosend)) /\ tosend' = Tail(tosend)
      /\ cpc = "sending" /\ cpc' \in {"sending", "waiting"} /\ tosend # <<>>
  BY DEF SendByte, server, TypeInv
<1>2. c2s' \o tosend' = c2s \o tosend
  BY <1>1, Strings, MoveHead
<1>3. cpc' = "waiting" => tosend' = <<>>
  <2>1. tosend' \in Seq(Bytes) /\ Len(tosend') = Len(tosend) - 1
    BY <1>1, Strings, HeadTailProperties
  <2> QED
    BY <2>1, EmptySeq DEF SendByte
<1>4. /\ send_message_id \in Ids
      /\ Dead \/ \E n \in RequestLens : Fits(n) /\ (Asking(n) \/ Reading(n))
  BY <1>1 DEF Exchange, Replying
<1>5. Quiet => Quiet'
  BY <1>1 DEF Quiet
<1>6. Dead => Dead'
  BY <1>1, <1>5 DEF Dead
<1>7. ASSUME NEW n \in RequestLens, Asking(n) \/ Reading(n)
      PROVE  Asking(n)' \/ Reading(n)'
  <2>1. Request(n)' = Request(n)
    BY <1>1 DEF Request
  <2> QED
    BY <1>1, <1>2, <1>5, <1>7, <2>1 DEF Asking, Reading, Two
<1>8. CASE \E n \in RequestLens : Fits(n) /\ (Asking(n) \/ Reading(n))
  BY <1>1, <1>3, <1>4, <1>7, <1>8 DEF Exchange
<1>9. CASE Dead
  BY <1>1, <1>3, <1>4, <1>6, <1>9 DEF Exchange
<1> QED
  BY <1>4, <1>8, <1>9

\* A poll that finds no whole message moves bytes along.
LEMMA ExchangePollNothing ==
  ASSUME TypeInv, Exchange, PollNothing PROVE Exchange'
<1>1. /\ UNCHANGED <<cpc, send_message_id, headers, responses, spc, need, data, c2s>>
      /\ UNCHANGED <<tosend, s2c>>
      /\ serin' = serin \o kbuf /\ kbuf' = <<>> /\ cpc = "waiting"
  BY DEF PollNothing, server
<1>2. serin' \o (kbuf' \o s2c') = serin \o (kbuf \o s2c)
  <2>1. serin \in Seq(Bytes) /\ kbuf \in Seq(Bytes) /\ s2c \in Seq(Bytes)
    BY Strings
  <2>2. (serin \o kbuf) \o s2c = serin \o (kbuf \o s2c) /\ <<>> \o s2c = s2c
    BY <2>1, ConcatAssociative, ConcatEmptySeq
  <2> QED
    BY <1>1, <2>2
<1>3. Quiet => Quiet'
  BY <1>1, Strings, ConcatEmptySeq DEF Quiet
<1>4. Replying => Replying'
  BY <1>1, <1>2 DEF Replying, IsText, Two, mark_len, Page
<1>5. Dead => Dead'
  BY <1>1, <1>3 DEF Dead
<1>6. \A n \in RequestLens : Asking(n) \/ Reading(n) => Asking(n)' \/ Reading(n)'
  BY <1>1, <1>3 DEF Asking, Reading, Request, Two
<1> QED
  BY <1>1, <1>4, <1>5, <1>6 DEF Exchange

\* A byte arrives in the kernel.
LEMMA ExchangeArrive ==
  ASSUME TypeInv, Exchange, Arrive PROVE Exchange'
<1>1. /\ UNCHANGED <<cpc, send_message_id, headers, responses, spc, need, data, c2s>>
      /\ UNCHANGED <<tosend, serin>>
      /\ kbuf' = Append(kbuf, Head(s2c)) /\ s2c' = Tail(s2c) /\ s2c # <<>>
  BY DEF Arrive, server, client
<1>2. serin' \o (kbuf' \o s2c') = serin \o (kbuf \o s2c)
  BY <1>1, Strings, MoveHead
<1>3. ~Quiet
  BY <1>1 DEF Quiet
<1>4. Replying => Replying'
  BY <1>1, <1>2 DEF Replying, IsText, Two, mark_len, Page
<1> QED
  BY <1>1, <1>3, <1>4 DEF Exchange, Dead, Asking, Reading

\* The server takes the length of the request, and only when there is one.
LEMMA ExchangeServerHeader ==
  ASSUME TypeInv, Exchange, ServerHeader PROVE Exchange'
<1>1. /\ UNCHANGED <<cpc, send_message_id, headers, responses, tosend, serin, s2c, kbuf>>
      /\ spc = "header" /\ data' = <<>>
  BY DEF ServerHeader, client
<1>2. Quiet => Quiet'
  BY <1>1 DEF Quiet
<1>3. c2s # <<>>
  BY EmptySeq DEF ServerHeader
<1>4. cpc # "idle" /\ ~Replying /\ ~Dead
  BY <1>1, <1>3 DEF Exchange, Replying, Dead
<1>5. CASE spc' = "dead"
  <2>1. cpc \in {"sending", "waiting"} => Quiet
    BY <1>4 DEF Exchange, Asking, Reading
  <2> QED
    BY <1>1, <1>2, <1>4, <1>5, <2>1 DEF Exchange, Dead
<1>6. CASE /\ Len(c2s) >= 2
           /\ need' = Number(c2s[1], c2s[2]) + 2
           /\ c2s' = SubSeq(c2s, 3, Len(c2s))
           /\ spc' = "body"
  <2>1. ASSUME NEW n \in RequestLens, Fits(n), Asking(n), send_message_id \in Ids
        PROVE  Reading(n)'
    <3> DEFINE front == SubSeq(c2s, 1, 2)  back == SubSeq(c2s, 3, Len(c2s))
    <3>1. /\ front \in Seq(Bytes) /\ back \in Seq(Bytes) /\ Len(front) = 2
          /\ front[1] = c2s[1] /\ front[2] = c2s[2] /\ front \o back = c2s
      <4>1. c2s \in Seq(Bytes) /\ 2 \in 0 .. Len(c2s)
        BY <1>6, Strings
      <4>2. /\ SubSeq(c2s, 1, 2) \in Seq(Bytes)
            /\ SubSeq(c2s, 2 + 1, Len(c2s)) \in Seq(Bytes)
            /\ Len(SubSeq(c2s, 1, 2)) = 2
            /\ \A j \in 1 .. 2 : SubSeq(c2s, 1, 2)[j] = c2s[j]
            /\ SubSeq(c2s, 1, 2) \o SubSeq(c2s, 2 + 1, Len(c2s)) = c2s
        BY <4>1, CutAt
      <4>3. 2 + 1 = 3 /\ 1 \in 1 .. 2 /\ 2 \in 1 .. 2
        OBVIOUS
      <4> QED
        BY <4>2, <4>3
    <3> HIDE DEF front, back
    <3>2. n \in Ids /\ Request(n) \in Seq(Bytes)
      BY <2>1, RequestIsString
    <3>3. /\ Two(n) \in Seq(Bytes) /\ Len(Two(n)) = 2
          /\ Number(Two(n)[1], Two(n)[2]) = n
      BY <3>2, TwoIsString
    <3>4. tosend \in Seq(Bytes)
      BY Strings
    <3>5. back \o tosend \in Seq(Bytes)
      BY <3>1, <3>4, ConcatProperties
    <3>6. front \o (back \o tosend) = Two(n) \o Request(n)
      <4>1. (front \o back) \o tosend = front \o (back \o tosend)
        BY <3>1, <3>4, Regroup
      <4> QED
        BY <2>1, <3>1, <4>1 DEF Asking
    <3>7. front = Two(n) /\ back \o tosend = Request(n)
      BY <3>1, <3>2, <3>3, <3>5, <3>6, PartsEqual
    <3>8. need' = n + 2
      BY <1>6, <3>1, <3>3, <3>7
    <3>9. data' \o (c2s' \o tosend') = Request(n)
      <4>1. <<>> \o (back \o tosend) = back \o tosend
        BY <3>5, ConcatEmptySeq
      <4> QED
        BY <1>1, <1>6, <3>7, <4>1 DEF back
    <3>10. Request(n)' = Request(n)
      BY <1>1 DEF Request
    <3> QED
      BY <1>2, <1>6, <2>1, <3>8, <3>9, <3>10 DEF Reading, Asking
  <2>2. \A n \in RequestLens : ~Reading(n)
    BY <1>1 DEF Reading
  <2> QED
    BY <1>1, <1>4, <1>6, <2>1, <2>2 DEF Exchange
<1> QED
  BY <1>5, <1>6 DEF ServerHeader

\* The server reads on.
LEMMA ExchangeServerRead ==
  ASSUME TypeInv, Exchange, ServerRead PROVE Exchange'
<1>1. /\ UNCHANGED <<cpc, send_message_id, headers, responses, tosend, serin, s2c, kbuf>>
      /\ UNCHANGED <<spc, need>> /\ spc = "body"
  BY DEF ServerRead, client
<1>2. PICK n \in 1 .. Len(c2s) :
        /\ data' = data \o SubSeq(c2s, 1, n)
        /\ c2s' = SubSeq(c2s, n + 1, Len(c2s))
  BY DEF ServerRead
<1>3. data' \o (c2s' \o tosend') = data \o (c2s \o tosend)
  <2> DEFINE front == SubSeq(c2s, 1, n)  back == SubSeq(c2s, n + 1, Len(c2s))
  <2>1. /\ data \in Seq(Bytes) /\ c2s \in Seq(Bytes) /\ tosend \in Seq(Bytes)
        /\ n \in 0 .. Len(c2s)
    BY Strings
  <2>2. front \in Seq(Bytes) /\ back \in Seq(Bytes) /\ front \o back = c2s
    BY <2>1, CutAt
  <2>3. data' = data \o front /\ c2s' = back /\ tosend' = tosend
    BY <1>1, <1>2
  <2> HIDE DEF front, back
  <2>4. /\ front \in Seq(Bytes) /\ back \in Seq(Bytes)
        /\ tosend \in Seq(Bytes) /\ data \in Seq(Bytes)
    BY <2>1, <2>2
  <2>5. (front \o back) \o tosend = front \o (back \o tosend)
    BY ONLY <2>4, Regroup
  <2>6. back \o tosend \in Seq(Bytes)
    BY <2>4, ConcatProperties
  <2>7. (data \o front) \o (back \o tosend) = data \o (front \o (back \o tosend))
    BY ONLY <2>4, <2>6, Regroup
  <2> QED
    BY <2>2, <2>3, <2>5, <2>7
<1>4. Quiet => Quiet'
  BY <1>1 DEF Quiet
<1>5. \A n1 \in RequestLens : Reading(n1) => Reading(n1)'
  BY <1>1, <1>3, <1>4 DEF Reading, Request, Two
<1> QED
  BY <1>1, <1>5 DEF Exchange, Replying, Dead, Asking

\* The server has the whole request when it replies, and replies with its id.
LEMMA ExchangeServerReply ==
  ASSUME TypeInv, Exchange, ServerReply PROVE Exchange'
<1>1. /\ UNCHANGED <<cpc, send_message_id, headers, responses, tosend, serin, kbuf>>
      /\ UNCHANGED <<need, data, c2s>>
      /\ spc = "body" /\ spc' = "header" /\ Len(data) = need
  BY DEF ServerReply, client
<1>2. ASSUME NEW n \in RequestLens, Fits(n), Reading(n), send_message_id \in Ids
      PROVE  Replying'
  <2>1. Request(n) \in Seq(Bytes) /\ Len(Request(n)) = n + 2 /\ n \in Nat
        /\ Number(Request(n)[1], Request(n)[2]) = send_message_id
    BY <1>2, RequestIsString, Constants
  <2>2. data \in Seq(Bytes) /\ c2s \in Seq(Bytes) /\ tosend \in Seq(Bytes)
    BY Strings
  <2>3. c2s \o tosend \in Seq(Bytes)
    BY <2>2, ConcatProperties
  <2>4. data \o (c2s \o tosend) = Request(n) /\ Len(data) = Len(Request(n))
    BY <1>1, <1>2, <2>1 DEF Reading
  <2>5. Request(n) \o <<>> = Request(n) /\ <<>> \in Seq(Bytes)
    BY <2>1, ConcatEmptySeq, EmptySeq
  <2>6. data = Request(n) /\ c2s \o tosend = <<>>
    BY <2>1, <2>2, <2>3, <2>4, <2>5, PartsEqual
  <2>7. c2s = <<>> /\ tosend = <<>>
    BY <2>2, <2>6, ConcatEqualIffEmpty
  <2>8. ServerId = send_message_id
    BY <2>1, <2>6 DEF ServerId
  <2>9. \A m : Frame(m) = mark_len(Two(send_message_id) \o m)
    BY <2>8 DEF Frame, ReplyId
  <2>10. \E m \in Seq(Bytes) : IsText(send_message_id, m) /\ s2c' = s2c \o Frame(m)
    <3>1. IsText(send_message_id, DUMMY) /\ DUMMY \in Seq(Bytes)
      BY DummyFits DEF IsText
    <3>2. CASE s2c' = s2c \o Frame(DUMMY)
      BY <3>1, <3>2
    <3>3. ASSUME NEW k \in BodyLens, Fits(k),
                 Fits(Len(mark_len(<<JSON>>) \o mark_len(Page(ServerId, k))) + 2),
                 s2c' = s2c \o Frame(mark_len(<<JSON>>) \o mark_len(Page(ServerId, k)))
          PROVE  \E m \in Seq(Bytes) : IsText(send_message_id, m) /\ s2c' = s2c \o Frame(m)
      <4> DEFINE m == mark_len(<<JSON>>) \o mark_len(Page(send_message_id, k))
      <4>1. m \in Seq(Bytes)
        BY <1>2, <3>3, TextIsString
      <4>2. IsText(send_message_id, m)
        BY <2>8, <3>3, <4>1 DEF IsText
      <4>3. s2c' = s2c \o Frame(m)
        BY <2>8, <3>3
      <4> HIDE DEF m
      <4> QED
        BY <4>1, <4>2, <4>3
    <3>4. \/ s2c' = s2c \o Frame(DUMMY)
          \/ \E k \in BodyLens :
               /\ Fits(k)
               /\ Fits(Len(mark_len(<<JSON>>) \o mark_len(Page(ServerId, k))) + 2)
               /\ s2c' = s2c \o Frame(mark_len(<<JSON>>) \o mark_len(Page(ServerId, k)))
      BY DEF ServerReply
    <3> QED
      BY <3>2, <3>3, <3>4
  <2>11. PICK m \in Seq(Bytes) : IsText(send_message_id, m) /\ s2c' = s2c \o Frame(m)
    BY <2>10
  <2>12. serin = <<>> /\ kbuf = <<>> /\ s2c = <<>>
    BY <1>2 DEF Reading, Quiet
  <2>13. serin' \o (kbuf' \o s2c') = Frame(m)
    <3>1. Two(send_message_id) \o m \in Seq(Bytes)
          /\ Len(Two(send_message_id) \o m) = Len(m) + 2
      BY <1>2, HeadBytes
    <3>2. Frame(m) \in Seq(Bytes)
      BY <2>9, <2>11, <3>1, MarkIsString DEF IsText
    <3>3. <<>> \o Frame(m) = Frame(m)
      BY <3>2, ConcatEmptySeq
    <3> QED
      BY <1>1, <2>11, <2>12, <3>3
  <2>14. IsText(send_message_id, m)'
    BY <1>1, <2>11 DEF IsText, mark_len, Two, Page
  <2> QED
    BY <1>1, <2>7, <2>9, <2>11, <2>13, <2>14 DEF Replying, mark_len, Two
<1> QED
  BY <1>1, <1>2 DEF Exchange, Replying, Dead, Asking

\* What the callback is given for the reply with text m to request id.
AnswerTo(id, m) ==
  [header |-> id \in HeadersAfter(Two(id) \o m, id),
   page   |-> ResponsesAfter(Two(id) \o m, id)[id]]

\* The message that a poll finds is the reply that is awaited, and nothing is
\* left of it afterwards.
LEMMA ExchangePollMessage ==
  ASSUME TypeInv, Exchange, PollMessage
  PROVE  /\ Exchange' /\ cpc' = "idle" /\ cpc = "waiting" /\ UNCHANGED sent
         /\ send_message_id' = send_message_id + 1
         /\ \E m \in Seq(Bytes) :
              /\ IsText(send_message_id, m)
              /\ answers' = Append(answers, AnswerTo(send_message_id, m))
<1> DEFINE buf  == serin \o kbuf
           stop == Number(buf[1], buf[2]) + 2
           msg  == Sub(buf, 3, stop)
           id   == Number(msg[1], msg[2])
           hs   == HeadersAfter(msg, id)
           rs   == ResponsesAfter(msg, id)
<1>0. /\ cpc = "waiting" /\ Complete(buf) /\ kbuf' = <<>>
      /\ \/ Len(msg) < 2
         \/ /\ Len(msg) >= 2
            /\ serin' = Sub(buf, stop + 1, Len(buf))
            /\ IF Awaited(id)
               THEN /\ answers' = Append(answers,
                         [header |-> send_message_id \in hs,
                          page   |-> rs[send_message_id]])
                    /\ headers' = hs \ {send_message_id}
                    /\ responses' = [rs EXCEPT ![send_message_id] = NoPage]
                    /\ send_message_id' = send_message_id + 1
                    /\ cpc' = "idle"
               ELSE /\ headers' = hs /\ responses' = rs
                    /\ UNCHANGED <<answers, send_message_id, cpc>>
      /\ UNCHANGED <<tosend, sent, spc, need, data, c2s, s2c, lost>>
  BY DEF PollMessage, server
<1> HIDE DEF buf, stop, msg, id, hs, rs
<1>1. serin \in Seq(Bytes) /\ kbuf \in Seq(Bytes) /\ s2c \in Seq(Bytes)
  BY Strings
<1>2. buf \in Seq(Bytes)
  BY <1>1, ConcatProperties DEF buf
<1>3. ~Quiet
  <2> SUFFICES ASSUME Quiet PROVE FALSE
    OBVIOUS
  <2>1. buf = <<>>
    BY EmptySeq, ConcatEmptySeq DEF Quiet, buf
  <2> QED
    BY <1>0, <2>1, EmptySeq DEF Complete
<1>4. Replying /\ send_message_id \in Ids /\ headers = {}
      /\ responses = [n \in Ids |-> NoPage]
  BY <1>0, <1>3 DEF Exchange, Dead, Asking, Reading
<1>5. PICK m \in Seq(Bytes) :
        /\ IsText(send_message_id, m)
        /\ serin \o (kbuf \o s2c) = mark_len(Two(send_message_id) \o m)
  BY <1>4 DEF Replying
<1>6. buf \o s2c = mark_len(Two(send_message_id) \o m)
  <2>1. (serin \o kbuf) \o s2c = serin \o (kbuf \o s2c)
    BY ONLY <1>1, Regroup
  <2> QED
    BY <1>5, <2>1 DEF buf
<1>7. /\ s2c = <<>> /\ Number(buf[1], buf[2]) + 2 = Len(m) + 4
      /\ Sub(buf, 3, Len(m) + 4) = Two(send_message_id) \o m
      /\ Sub(buf, Len(m) + 4 + 1, Len(buf)) = <<>>
  <2>1. Fits(Len(m) + 2) /\ send_message_id \in Ids /\ m \in Seq(Bytes)
    BY <1>4, <1>5 DEF IsText
  <2>2. /\ buf \in Seq(Bytes) /\ s2c \in Seq(Bytes) /\ Complete(buf)
        /\ buf \o s2c = mark_len(Two(send_message_id) \o m)
    BY <1>0, <1>1, <1>2, <1>6
  <2>3. PICK k : k = send_message_id
    OBVIOUS
  <2>4. PICK w : w = s2c
    OBVIOUS
  <2>5. /\ k \in Ids /\ m \in Seq(Bytes) /\ Fits(Len(m) + 2)
        /\ buf \in Seq(Bytes) /\ w \in Seq(Bytes) /\ Complete(buf)
        /\ buf \o w = mark_len(Two(k) \o m)
    BY ONLY <2>1, <2>2, <2>3, <2>4
  <2>6. w = <<>>
    BY ONLY <2>5, CompleteIsAll
  <2>7. Number(buf[1], buf[2]) + 2 = Len(m) + 4
    BY ONLY <2>5, CompleteIsAll
  <2>8. Sub(buf, 3, Len(m) + 4) = Two(k) \o m
    BY ONLY <2>5, CompleteIsAll
  <2>9. Sub(buf, Len(m) + 4 + 1, Len(buf)) = <<>>
    BY ONLY <2>5, CompleteIsAll
  <2> QED
    BY ONLY <2>3, <2>4, <2>6, <2>7, <2>8, <2>9
<1>8. /\ Len(Two(send_message_id) \o m) = Len(m) + 2
      /\ Number((Two(send_message_id) \o m)[1],
                (Two(send_message_id) \o m)[2]) = send_message_id
  BY <1>4, HeadBytes
<1>9. msg = Two(send_message_id) \o m /\ id = send_message_id /\ Awaited(id)
  BY <1>7, <1>8 DEF stop, msg, id, Awaited
<1>10. ~(Len(msg) < 2)
  BY <1>8, <1>9, LenProperties
<1>11. /\ serin' = Sub(buf, stop + 1, Len(buf))
       /\ answers' = Append(answers, [header |-> send_message_id \in hs,
                                      page   |-> rs[send_message_id]])
       /\ headers' = hs \ {send_message_id}
       /\ responses' = [rs EXCEPT ![send_message_id] = NoPage]
       /\ send_message_id' = send_message_id + 1
       /\ cpc' = "idle"
  BY <1>0, <1>9, <1>10
<1>12. serin' = <<>>
  BY <1>7, <1>11 DEF stop
<1>13. headers' = {}
  <2>1. hs \subseteq {send_message_id}
    BY <1>4, <1>9 DEF hs, HeadersAfter
  <2> QED
    BY <1>11, <2>1
<1>14. responses' = [n \in Ids |-> NoPage]
  <2>1. \E page : rs = [responses EXCEPT ![send_message_id] = page]
    <3>1. responses = [responses EXCEPT ![send_message_id] = NoPage]
      BY <1>4
    <3> QED
      BY <1>9, <3>1 DEF rs, ResponsesAfter
  <2>2. PICK page : rs = [responses EXCEPT ![send_message_id] = page]
    BY <2>1
  <2> QED
    BY <1>4, <1>11, <2>2
<1>15. spc = "header" /\ c2s = <<>> /\ tosend = <<>>
  BY <1>4 DEF Replying
<1>16. Exchange'
  BY <1>0, <1>7, <1>11, <1>12, <1>13, <1>14, <1>15 DEF Exchange, Quiet
<1>17. answers' = Append(answers, AnswerTo(send_message_id, m))
  BY <1>9, <1>11 DEF AnswerTo, hs, rs
<1> QED
  BY <1>0, <1>5, <1>11, <1>16, <1>17

\* Every step keeps to the course of one request and its reply.
LEMMA ExchangeStep == TypeInv /\ ExchangeInv /\ [Next]_vars => ExchangeInv'
<1> SUFFICES ASSUME TypeInv, ExchangeInv, [Next]_vars, lost' = 0 PROVE Exchange'
  BY DEF ExchangeInv
<1>1. CASE Lose
  <2>1. lost' = lost + 1 /\ lost \in Nat
    BY <1>1, Strings DEF Lose
  <2> QED
    BY <2>1
<1>2. CASE UNCHANGED vars
  <2>1. lost = 0
    BY <1>2 DEF vars
  <2>2. Exchange
    BY <2>1 DEF ExchangeInv
  <2> QED
    BY <1>2, <2>2 DEF vars, client, callback, server, Exchange, Replying, Dead,
       Asking, Reading, Quiet, Request, IsText, Two, mark_len, Page
<1>3. CASE SendMessage \/ SendByte \/ PollNothing \/ PollMessage \/ ServerHeader
           \/ ServerRead \/ ServerReply \/ Arrive
  <2>1. lost = 0
    BY <1>3 DEF SendMessage, SendByte, PollNothing, PollMessage, ServerHeader,
                ServerRead, ServerReply, Arrive
  <2>2. Exchange
    BY <2>1 DEF ExchangeInv
  <2> QED
    BY <1>3, <2>2, ExchangeSendMessage, ExchangeSendByte, ExchangePollNothing,
       ExchangePollMessage, ExchangeServerHeader, ExchangeServerRead,
       ExchangeServerReply, ExchangeArrive
<1> QED
  BY <1>1, <1>2, <1>3 DEF Next, Client, Server

LEMMA ExchangeInvariant == Spec => [](TypeInv /\ ExchangeInv)
  BY TypeInit, TypeStep, ExchangeInit, ExchangeStep, PTL DEF Spec

\* For every base, all lengths and any number of requests: on a line that loses
\* nothing no request starts with part of a message in the client's buffers.
THEOREM RpcFreshStart == Spec => []FreshStart
<1>1. TypeInv /\ ExchangeInv => FreshStart
  BY DEF TypeInv, ExchangeInv, Exchange, FreshStart, Replying, Dead, Asking,
         Reading, Quiet
<1> QED
  BY ExchangeInvariant, <1>1, PTL

-----------------------------------------------------------------------------
(* The promise of send_message                                             *)

\* The dummy message is read as a segment that is too long, so the callback
\* gets nothing.
LEMMA DummyIsNothing ==
  ASSUME NEW id \in Ids, headers = {}, responses = [n \in Ids |-> NoPage]
  PROVE  AnswerTo(id, DUMMY) = Nothing
<1> DEFINE msg  == Two(id) \o DUMMY
           text == Sub(msg, 3, Len(msg))
<1>1. DUMMY \in Seq(Bytes) /\ Len(DUMMY) = 2
  BY DummyFits
<1>2. text = DUMMY
  <2>1. msg \in Seq(Bytes) /\ Len(msg) = Len(DUMMY) + 2
        /\ SubSeq(msg, 3, Len(DUMMY) + 2) = DUMMY
    BY <1>1, HeadBytes
  <2> HIDE DEF msg
  <2>2. Len(msg) \in 0 .. Len(msg)
    BY <1>1, <2>1
  <2>3. Sub(msg, 3, Len(msg)) = SubSeq(msg, 3, Len(msg))
    BY <2>1, <2>2, SubWithin
  <2> QED
    BY <2>1, <2>3
<1> HIDE DEF msg, text
<1>3. After(DUMMY, 1) = 3 + Number(JSON, JSON) /\ Number(JSON, JSON) \in Nat
  <2>1. Number(JSON, JSON) \in Nat
    BY NumberOfBytes, Constants
  <2>2. DUMMY[1] = JSON /\ DUMMY[1 + 1] = JSON
    BY DEF DUMMY
  <2> QED
    BY <2>1, <2>2 DEF After
<1>4. Segment(DUMMY, 1) = <<>>
  <2>1. Segment(DUMMY, 1) = Sub(DUMMY, 3, After(DUMMY, 1) - 1)
    BY DEF Segment
  <2>2. 3 \in Nat \ {0} /\ After(DUMMY, 1) - 1 \in Nat /\ ~(3 <= Len(DUMMY))
    BY <1>1, <1>3
  <2>3. /\ Sub(DUMMY, 3, After(DUMMY, 1) - 1) \in Seq(Bytes)
        /\ Len(Sub(DUMMY, 3, After(DUMMY, 1) - 1)) = 0
    BY <1>1, <2>2, SubIsString
  <2> QED
    BY <2>1, <2>3, EmptySeq
<1>5. ~(After(DUMMY, 1) <= Len(DUMMY))
  BY <1>1, <1>3
<1>6. id \notin HeadersAfter(msg, id)
  BY <1>2, <1>4 DEF HeadersAfter, Decodes, text
<1>7. ResponsesAfter(msg, id)[id] = NoPage
  BY <1>2, <1>5 DEF ResponsesAfter, text
<1>8. (id \in HeadersAfter(msg, id)) = FALSE
  BY <1>6
<1> QED
  BY <1>7, <1>8 DEF AnswerTo, Nothing, msg

\* A header and a page are read as what they are.
LEMMA PageIsRead ==
  ASSUME NEW id \in Ids, NEW k \in BodyLens, Fits(k),
         responses = [n \in Ids |-> NoPage]
  PROVE  AnswerTo(id, mark_len(<<JSON>>) \o mark_len(Page(id, k)))
           = [header |-> TRUE, page |-> Page(id, k)]
<1> DEFINE A    == mark_len(<<JSON>>)
           page == Page(id, k)
           B    == mark_len(page)
           m    == A \o B
           msg  == Two(id) \o m
           text == Sub(msg, 3, Len(msg))
<1>1. k \in Nat /\ k \in Ids /\ 1 \in Ids /\ JSON \in Bytes
  BY Constants
<1>2. page \in Seq(Bytes) /\ Len(page) = k
  BY PageIsString
<1>3. /\ A \in Seq(Bytes) /\ Len(A) = 3 /\ B \in Seq(Bytes) /\ Len(B) = k + 2
      /\ m \in Seq(Bytes)
  BY TextIsString
<1>4. Number(A[1], A[2]) = 1 /\ A[3] = JSON
  <2> DEFINE one == <<JSON>>  two == Two(1)
  <2>1. one \in Seq(Bytes) /\ Len(one) = 1 /\ one[1] = JSON
    BY <1>1
  <2>2. A = two \o one
    BY DEF mark_len
  <2>3. two \in Seq(Bytes) /\ Len(two) = 2
    BY <1>1, TwoIsString
  <2> HIDE DEF A, one
  <2>4. Number(A[1], A[2]) = 1
    BY <1>1, <2>1, <2>2, HeadBytes
  <2> HIDE DEF two
  <2>5. \A j \in 1 .. Len(two) + Len(one) :
          (two \o one)[j] = IF j <= Len(two) THEN two[j] ELSE one[j - Len(two)]
    BY <2>1, <2>3, ConcatProperties
  <2>6. 3 \in 1 .. Len(two) + Len(one) /\ ~(3 <= Len(two)) /\ 3 - Len(two) = 1
    BY <2>1, <2>3
  <2>7. A[3] = one[1]
    BY <2>2, <2>5, <2>6
  <2> QED
    BY <2>1, <2>4, <2>7
<1>5. Number(B[1], B[2]) = k /\ SubSeq(B, 3, k + 2) = page
  <2>1. B = Two(k) \o page
    BY <1>2 DEF mark_len
  <2> HIDE DEF page, B
  <2> QED
    BY <1>1, <1>2, <2>1, HeadBytes
<1> HIDE DEF A, B, page
<1>6. /\ Len(m) = k + 5 /\ m[1] = A[1] /\ m[2] = A[2] /\ m[3] = A[3]
      /\ m[4] = B[1] /\ m[5] = B[2]
      /\ \A j \in 1 .. k + 2 : m[3 + j] = B[j]
  <2>1. /\ Len(m) = Len(A) + Len(B)
        /\ \A j \in 1 .. Len(A) + Len(B) :
             m[j] = IF j <= Len(A) THEN A[j] ELSE B[j - Len(A)]
    BY <1>3, ConcatProperties
  <2>2. \A j \in 1 .. k + 5 : m[j] = IF j <= 3 THEN A[j] ELSE B[j - 3]
    BY <1>1, <1>3, <2>1
  <2> HIDE DEF m
  <2>3. \A j \in 1 .. k + 2 : m[3 + j] = B[j]
    <3> TAKE j \in 1 .. k + 2
    <3>1. 3 + j \in 1 .. k + 5 /\ ~(3 + j <= 3) /\ (3 + j) - 3 = j
      BY <1>1
    <3> QED
      BY <2>2, <3>1
  <2>4. /\ m[1] = A[1] /\ m[2] = A[2] /\ m[3] = A[3]
    BY <1>1, <2>2
  <2>5. m[3 + 1] = B[1] /\ m[3 + 2] = B[2]
    BY <1>1, <2>3
  <2>6. 3 + 1 = 4 /\ 3 + 2 = 5
    OBVIOUS
  <2> QED
    BY <1>1, <1>3, <2>1, <2>3, <2>4, <2>5, <2>6
<1>7. text = m
  <2> HIDE DEF m
  <2>1. msg \in Seq(Bytes) /\ Len(msg) = Len(m) + 2
        /\ SubSeq(msg, 3, Len(m) + 2) = m
    BY <1>3, HeadBytes
  <2> HIDE DEF msg
  <2>2. Len(msg) \in 0 .. Len(msg)
    BY <2>1, LenProperties
  <2>3. Sub(msg, 3, Len(msg)) = SubSeq(msg, 3, Len(msg))
    BY <2>1, <2>2, SubWithin
  <2> QED
    BY <2>1, <2>3
<1> HIDE DEF m, msg, text
<1>8. After(m, 1) = 4
  BY <1>4, <1>6 DEF After
<1>9. After(m, 4) = k + 6
  BY <1>1, <1>5, <1>6 DEF After
<1>10. Readable(m)
  <2>1. {1, 4} \in SUBSET (1 .. Len(m) - 1)
    BY <1>1, <1>6
  <2>2. \A j \in {1, 4} : After(m, j) \in {1, 4} \/ After(m, j) > Len(m)
    BY <1>1, <1>6, <1>8, <1>9
  <2>3. m # <<>>
    BY <1>1, <1>6, EmptySeq
  <2> QED
    BY <2>1, <2>2, <2>3 DEF Readable, Whole
<1>11. Decodes(Segment(m, 1))
  <2>1. Segment(m, 1) = Sub(m, 3, 3)
    BY <1>8 DEF Segment
  <2>2. Sub(m, 3, 3) = SubSeq(m, 3, 3)
    <3>1. 3 \in 0 .. Len(m)
      BY <1>1, <1>6
    <3> QED
      BY <1>3, <3>1, SubWithin
  <2>3. \A j \in 3 .. 3 : m[j] \in Bytes
    BY <1>1, <1>4, <1>6
  <2>4. /\ Len(SubSeq(m, 3, 3)) = 1 /\ \A j \in 1 .. 1 : SubSeq(m, 3, 3)[j] = m[3 + j - 1]
    BY <2>3, SubSeqProperties
  <2>5. \A j \in 1 .. 1 : SubSeq(m, 3, 3)[j] = JSON
    BY <1>4, <1>6, <2>4
  <2>6. SubSeq(m, 3, 3) # <<>>
    <3>1. Len(<<>>) = 0
      BY EmptySeq
    <3>2. Len(SubSeq(m, 3, 3)) # Len(<<>>)
      BY <2>4, <3>1
    <3> QED
      BY ONLY <3>2
  <2> QED
    BY <2>1, <2>2, <2>4, <2>5, <2>6 DEF Decodes
<1>12. Segment(m, 4) = page
  <2>1. Segment(m, 4) = Sub(m, 6, k + 5)
    BY <1>1, <1>9 DEF Segment
  <2>2. Sub(m, 6, k + 5) = SubSeq(m, 6, k + 5)
    <3>1. k + 5 \in 0 .. Len(m)
      BY <1>1, <1>6
    <3> QED
      BY <1>3, <3>1, SubWithin
  <2>3. \A j \in 6 .. k + 5 : m[j] \in Bytes
    BY <1>1, <1>3, <1>6, ElementOfSeq
  <2>4. /\ SubSeq(m, 6, k + 5) \in Seq(Bytes) /\ Len(SubSeq(m, 6, k + 5)) = k
        /\ \A j \in 1 .. k : SubSeq(m, 6, k + 5)[j] = m[6 + j - 1]
    BY <1>1, <2>3, SubSeqProperties
  <2>5. \A j \in 3 .. k + 2 : B[j] \in Bytes
    BY <1>1, <1>3, ElementOfSeq
  <2>6. \A j \in 1 .. k : SubSeq(B, 3, k + 2)[j] = B[3 + j - 1]
    BY <1>1, <2>5, SubSeqProperties
  <2>7. \A j \in 1 .. k : SubSeq(m, 6, k + 5)[j] = page[j]
    <3> TAKE j \in 1 .. k
    <3>1. SubSeq(m, 6, k + 5)[j] = m[6 + j - 1] /\ page[j] = B[3 + j - 1]
      BY <1>5, <2>4, <2>6
    <3>2. 6 + j - 1 = 3 + (j + 2) /\ 3 + j - 1 = j + 2 /\ j + 2 \in 1 .. k + 2
      BY <1>1
    <3>3. m[3 + (j + 2)] = B[j + 2]
      BY <1>6, <3>2
    <3> QED
      BY <3>1, <3>2, <3>3
  <2>8. SubSeq(m, 6, k + 5) = page
    BY <1>2, <2>4, <2>7, SeqEqual
  <2> QED
    BY <2>1, <2>2, <2>8
<1>13. id \in HeadersAfter(msg, id)
  BY <1>7, <1>10, <1>11 DEF HeadersAfter, text
<1>14. ResponsesAfter(msg, id)[id] = page
  <2>1. After(m, 1) <= Len(m)
    BY <1>1, <1>6, <1>8
  <2>2. ResponsesAfter(msg, id) = [responses EXCEPT ![id] = page]
    BY <1>7, <1>8, <1>10, <1>12, <2>1 DEF ResponsesAfter, text
  <2> QED
    BY <2>2
<1> QED
  BY <1>13, <1>14 DEF AnswerTo, msg, m, A, B, page

\* What a callback is given is what RpcSpec allows.
LEMMA AnswerIsAllowed ==
  ASSUME NEW id \in Ids, NEW m \in Seq(Bytes), IsText(id, m),
         headers = {}, responses = [n \in Ids |-> NoPage]
  PROVE  AnswerTo(id, m) \in Replies(id) \cup {Nothing}
<1>1. CASE m = DUMMY
  BY <1>1, DummyIsNothing
<1>2. ASSUME NEW k \in BodyLens, Fits(k),
             m = mark_len(<<JSON>>) \o mark_len(Page(id, k))
      PROVE  AnswerTo(id, m) \in Replies(id)
  BY <1>2, PageIsRead DEF Replies
<1> QED
  BY <1>1, <1>2 DEF IsText

\* A step of the client or the line makes a request, gives an answer, or
\* neither, and keeps count, however many bytes have been lost.
LEMMA CountedStep ==
  ASSUME TypeInv, Counted, [Next]_vars
  PROVE  /\ Counted'
         /\ \/ SendMessage /\ Promise!Ask
            \/ /\ PollMessage /\ cpc = "waiting" /\ UNCHANGED sent
               /\ \E a \in Answers : answers' = Append(answers, a)
            \/ UNCHANGED <<sent, answers>>
<1>1. CASE SendMessage
  <2>1. /\ cpc = "idle" /\ UNCHANGED <<answers, send_message_id>>
        /\ \/ cpc' = "sending" /\ sent' = sent + 1
           \/ cpc' = "panic" /\ UNCHANGED sent
    BY <1>1 DEF SendMessage
  <2> QED
    BY <1>1, <2>1 DEF Counted, Promise!Ask
<1>2. CASE PollMessage
  <2>1. cpc = "waiting" /\ UNCHANGED sent /\ answers' \in Seq(Answers)
        /\ answers \in Seq(Answers)
    BY <1>2, TypePollMessage DEF PollMessage, TypeInv, TypeOK
  <2>2. \/ cpc' = "panic" /\ UNCHANGED answers
        \/ UNCHANGED <<answers, send_message_id, cpc>>
        \/ /\ cpc' = "idle" /\ send_message_id' = send_message_id + 1
           /\ \E a : answers' = Append(answers, a)
    BY <1>2 DEF PollMessage
  <2>3. ASSUME NEW a, answers' = Append(answers, a)
        PROVE  a \in Answers /\ Len(answers') = Len(answers) + 1
    <3>1. Len(answers) \in Nat
      BY <2>1, LenProperties
    <3>2. /\ Len(Append(answers, a)) = Len(answers) + 1
          /\ Append(answers, a)[Len(answers) + 1] = a
      BY <2>1
    <3>3. Len(answers) + 1 \in 1 .. Len(answers')
      BY <2>3, <3>1, <3>2
    <3> QED
      BY <2>1, <2>3, <3>2, <3>3, ElementOfSeq
  <2> QED
    BY <1>2, <2>1, <2>2, <2>3 DEF Counted
<1>3. CASE SendByte \/ PollNothing
  BY <1>3 DEF SendByte, PollNothing, callback, Counted
<1>4. CASE ServerHeader \/ ServerRead \/ ServerReply \/ Arrive \/ Lose
           \/ UNCHANGED vars
  BY <1>4 DEF ServerHeader, ServerRead, ServerReply, Arrive, Lose, vars, client,
              callback, Counted
<1> QED
  BY <1>1, <1>2, <1>3, <1>4 DEF Next, Client, Server

\* The promise without its word about what an answer says.
AnyAnswer(n) == Answers
Calls == INSTANCE RpcSpec WITH asked <- sent, Replies <- AnyAnswer

\* For every base, all lengths and any number of requests, and however many
\* bytes are lost: requests are made one at a time, and the callback of each
\* runs at most once, before the next request.
THEOREM RpcCallbackOnce == Spec => Calls!Spec
<1>1. Init => Calls!Init
  BY DEF Init, Calls!Init
<1>2. TypeInv /\ Counted /\ [Next]_vars =>
        Counted' /\ [Calls!Ask \/ Calls!Answer]_<<sent, answers>>
  <2> SUFFICES ASSUME TypeInv, Counted, [Next]_vars
               PROVE  /\ Counted'
                      /\ Calls!Ask \/ Calls!Answer \/ UNCHANGED <<sent, answers>>
    OBVIOUS
  <2>1. CASE Promise!Ask
    BY <2>1, CountedStep DEF Promise!Ask, Calls!Ask
  <2>2. CASE /\ cpc = "waiting" /\ UNCHANGED sent
             /\ \E a \in Answers : answers' = Append(answers, a)
    BY <2>2, CountedStep DEF Counted, Calls!Answer, AnyAnswer
  <2> QED
    BY <2>1, <2>2, CountedStep
<1> QED
  BY <1>1, <1>2, TypeInit, TypeStep, ExchangeInit, PTL DEF Spec, Calls!Spec

\* For every base, all lengths and any number of requests: on a line that loses
\* nothing, os.lua and server.py implement RpcSpec: the callback of each request
\* is given a whole page of that very request, or nothing.
THEOREM RpcPromise == Spec /\ [](lost = 0) => ImplementsPromise
<1>1. Init => Promise!Init
  BY DEF Init, Promise!Init
<1>2. ASSUME TypeInv, ExchangeInv, Counted, lost = 0, [Next]_vars
      PROVE  [Promise!Ask \/ Promise!Answer]_<<sent, answers>>
  <2>1. CASE PollMessage
    <3>1. Exchange /\ headers = {} /\ responses = [n \in Ids |-> NoPage]
      BY <1>2 DEF ExchangeInv, Exchange
    <3>2. PICK m \in Seq(Bytes) :
            /\ IsText(send_message_id, m)
            /\ answers' = Append(answers, AnswerTo(send_message_id, m))
      BY <1>2, <2>1, <3>1, ExchangePollMessage
    <3>3. cpc = "waiting" /\ UNCHANGED sent
      BY <2>1 DEF PollMessage
    <3>4. sent = Len(answers) + 1 /\ send_message_id = sent /\ send_message_id \in Ids
      BY <1>2, <3>1, <3>3 DEF Counted, Exchange
    <3>5. AnswerTo(send_message_id, m) \in Replies(sent) \cup {Nothing}
      BY <3>1, <3>2, <3>4, AnswerIsAllowed
    <3> QED
      BY <3>2, <3>3, <3>4, <3>5 DEF Promise!Answer
  <2>2. CASE ~PollMessage
    BY <1>2, <2>2, CountedStep
  <2> QED
    BY <2>1, <2>2
<1>3. TypeInv /\ Counted /\ [Next]_vars => Counted'
  BY CountedStep
<1> QED
  BY <1>1, <1>2, <1>3, TypeInit, TypeStep, ExchangeInit, ExchangeStep, PTL
  DEF Spec, ImplementsPromise, Promise!Spec
=============================================================================

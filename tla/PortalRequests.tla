---------------------------- MODULE PortalRequests ----------------------------
(***************************************************************************)
(* What the portal answers: the form that portal.html posts and            *)
(* CaptivePortalHttp.cpp decodes, the list of networks that it builds from *)
(* WifiScanService.cpp's, and the DNS answer of CaptivePortalDns.cpp, with *)
(* the arithmetic of their buffers.  The handlers keep nothing from one    *)
(* request to the next, so a behaviour is one request.  A field's name is  *)
(* one symbol, and a character of a network's name is the number of        *)
(* characters its escape takes.                                            *)
(***************************************************************************)
EXTENDS Integers, Sequences, FiniteSets, SequencesExt

CONSTANTS
    Symbols,            \* the characters that are typed
    MaxName,            \* bound: so many in a name
    MaxPass,            \* bound: so many in a password
    kMaxPostBodySize,
    SsidSize,           \* sizeof(ssid), 33 in the code
    PasswordSize,       \* sizeof(password), 65 in the code
    QueryLengths,       \* lengths of DNS packets, the header's twelve bytes included
    QuestionCounts      \* what their headers announce

ASSUME RequestAssumption ==
    /\ {MaxName, MaxPass, kMaxPostBodySize} \subseteq Nat
    /\ {SsidSize, PasswordSize} \subseteq Nat \ {0}
    /\ \A length \in QueryLengths : length \in Nat /\ 12 <= length /\ length <= 512
    /\ QuestionCounts \subseteq Nat

VARIABLES
    request,    \* what is being handled: "none", "post", "scan", "dns" or "done"
    typed,      \* the form's fields as they were typed
    body,       \* the body of the post
    whole,      \* it has been received whole
    event,      \* the credentials handed to the sink, or none
    answer,     \* the post's answer, or "none"
    shown,      \* what the page made of it
    scan,       \* the list under construction
    dns         \* the DNS answer under construction

postVars == <<typed, body, whole, event, answer, shown>>
vars == <<request, postVars, scan, dns>>

none == [ssid |-> <<>>, password |-> <<>>]

------------------------------------------------------------------------------
\* The page encodes whatever could be taken for a part of the form.
Escapes == {<<" ", "2", "0">>, <<"%", "2", "5">>, <<"&", "2", "6">>, <<"+", "2", "B">>,
            <<"=", "3", "D">>}

IsEscaped(c) == \E e \in Escapes : e[1] = c

EncodeURIComponent(text) ==
    FlattenSeq([i \in DOMAIN text |->
        IF IsEscaped(text[i])
        THEN LET e == CHOOSE x \in Escapes : x[1] = text[i] IN <<"%", e[2], e[3]>>
        ELSE <<text[i]>>])

FormOf(name, password) ==
    <<"ssid", "=">> \o EncodeURIComponent(name)
    \o <<"&", "password", "=">> \o EncodeURIComponent(password)

\* The escape that starts at position i, if one does.
EscapesAt(text, i) ==
    {e \in Escapes : i + 2 <= Len(text) /\ text[i] = "%" /\ text[i + 1] = e[2] /\ text[i + 2] = e[3]}

\* Mutant: the two digits are read again as text.
UrlDecodeKeepsDigits(text, size) ==
    LET decoded[i \in 1..(Len(text) + 1)] ==
          IF i > Len(text) THEN <<>>
          ELSE <<IF text[i] = "+" THEN " "
                 ELSE IF EscapesAt(text, i) # {} THEN (CHOOSE e \in EscapesAt(text, i) : TRUE)[1]
                 ELSE text[i]>> \o decoded[i + 1]
    IN SubSeq(decoded[1], 1, IF Len(decoded[1]) < size THEN Len(decoded[1]) ELSE size - 1)

\* UrlDecode: what does not fit is dropped.
UrlDecode(text, size) ==
    LET decoded[i \in 1..(Len(text) + 1)] ==
          IF i > Len(text) THEN <<>>
          ELSE IF EscapesAt(text, i) # {}
               THEN <<(CHOOSE e \in EscapesAt(text, i) : TRUE)[1]>> \o decoded[i + 3]
          ELSE <<IF text[i] = "+" THEN " " ELSE text[i]>> \o decoded[i + 1]
    IN SubSeq(decoded[1], 1, IF Len(decoded[1]) < size THEN Len(decoded[1]) ELSE size - 1)

\* FindFormField: where the first field of that name begins its value.
FieldStarts(text, name) ==
    {i + 2 : i \in {j \in 1..(Len(text) - 1) :
        (j = 1 \/ text[j - 1] = "&") /\ text[j] = name /\ text[j + 1] = "="}}

FindFormField(text, name, size) ==
    LET first == CHOOSE i \in FieldStarts(text, name) :
                     \A j \in FieldStarts(text, name) : i <= j
        ends  == {i \in first..Len(text) : text[i] = "&"} \cup {Len(text) + 1}
        end   == CHOOSE i \in ends : \A j \in ends : i <= j
    IN UrlDecode(SubSeq(text, first, end - 1), size)

------------------------------------------------------------------------------
Submit ==
    /\ request = "none"
    /\ \E name \in BoundedSeq(Symbols, MaxName) \ {<<>>}, password \in BoundedSeq(Symbols, MaxPass) :
          /\ typed' = [ssid |-> name, password |-> password]
          /\ body' = FormOf(name, password)
    /\ request' = "post"
    /\ event' = none
    /\ answer' = "none"
    /\ whole' = FALSE
    /\ shown' = "none"
    /\ UNCHANGED <<scan, dns>>

\* Mutant: an empty name is not looked at.
AcceptsEmptyName(text, delivered) ==
    LET ssid == FindFormField(text, "ssid", SsidSize)
        password == IF FieldStarts(text, "password") = {} THEN <<>>
                    ELSE FindFormField(text, "password", PasswordSize)
    IN IF FieldStarts(text, "ssid") = {} THEN [answer |-> "Missing SSID", event |-> none]
       ELSE IF ~delivered THEN [answer |-> "Internal error", event |-> none]
       ELSE [answer |-> "ok", event |-> [ssid |-> ssid, password |-> password]]

\* HandlePostConnect, from what was received and what the sink returns.
ParsePost(text, delivered) ==
    LET ssid == FindFormField(text, "ssid", SsidSize)
        password == IF FieldStarts(text, "password") = {} THEN <<>>
                    ELSE FindFormField(text, "password", PasswordSize)
    IN IF FieldStarts(text, "ssid") = {} THEN [answer |-> "Missing SSID", event |-> none]
       ELSE IF ssid = <<>> THEN [answer |-> "SSID must not be empty", event |-> none]
       ELSE IF ~delivered THEN [answer |-> "Internal error", event |-> none]
       ELSE [answer |-> "ok", event |-> [ssid |-> ssid, password |-> password]]

\* httpd_req_recv may fail, and it may return less than the whole body.
HandlePostConnect ==
    /\ request = "post"
    /\ answer = "none"
    /\ \/ /\ Len(body) > kMaxPostBodySize
          /\ answer' = "Invalid request body"
          /\ UNCHANGED <<whole, event>>
       \/ /\ Len(body) <= kMaxPostBodySize
          /\ answer' = "Failed to read body"
          /\ UNCHANGED <<whole, event>>
       \/ /\ Len(body) <= kMaxPostBodySize
          /\ \E received \in 1..Len(body), delivered \in BOOLEAN :
                LET result == ParsePost(SubSeq(body, 1, received), delivered) IN
                /\ whole' = (received = Len(body))
                /\ answer' = result.answer
                /\ event' = result.event
    /\ UNCHANGED <<request, typed, body, shown, scan, dns>>

\* The answer has a status and a message; the page looks for a success.
AnswerFields == {"status", "message"}

PageReadsAnswer ==
    /\ request = "post"
    /\ answer # "none"
    /\ shown' = IF "success" \in AnswerFields /\ answer = "ok" THEN "accepted" ELSE "refused"
    /\ request' = "done"
    /\ UNCHANGED <<typed, body, whole, event, answer, scan, dns>>

------------------------------------------------------------------------------
\* The list of networks.
kMaxScanResults == 20
kJsonBufSize    == 2048
Reserve         == 100

\* Names of at most 32 characters that need no escape, a backslash or a \u escape,
\* and the digits of the three numbers beside them.
Names  == {<<>>} \cup {[i \in 1..32 |-> width] : width \in {1, 2, 6}}
Digits == {4, 6, 9}

\* JsonEscapeString: it stops when the longest escape might not fit.
JsonEscapeString(name, size) ==
    LET di[n \in 0..Len(name)] ==
          IF n = 0 THEN 0
          ELSE LET here == di[n - 1] IN IF here < size - 6 THEN here + name[n] ELSE here
    IN di[Len(name)]

\* The object's length: what snprintf would write.
ObjectLengths == {33 + JsonEscapeString(name, Reserve) + digits : name \in Names, digits \in Digits}

NoScan == [i |-> 0, count |-> 0, pos |-> 0, dropped |-> 0]

\* StartScan and GetResults: a failure gives no networks.
ScanCounts == 0..kMaxScanResults

HandleGetScan ==
    /\ request = "none"
    /\ request' = "scan"
    /\ \E count \in ScanCounts : scan' = [NoScan EXCEPT !.count = count, !.pos = 1]
    /\ UNCHANGED <<postVars, dns>>

Continues == scan.i < scan.count /\ scan.pos < kJsonBufSize - Reserve

\* Mutant: the last byte is taken too.
ScanObjectFillsBuffer ==
    /\ request = "scan" /\ Continues
    /\ \E written \in ObjectLengths :
          LET pos == scan.pos + (IF scan.i > 0 THEN 1 ELSE 0) IN
          scan' = IF pos + written <= kJsonBufSize
                  THEN [scan EXCEPT !.i = @ + 1, !.pos = pos + written]
                  ELSE [scan EXCEPT !.i = scan.count, !.pos = pos, !.dropped = written]
    /\ UNCHANGED <<request, postVars, dns>>

\* The comma goes first; an object that does not fit ends the list after it.
ScanObject ==
    /\ request = "scan" /\ Continues
    /\ \E written \in ObjectLengths :
          LET pos == scan.pos + (IF scan.i > 0 THEN 1 ELSE 0) IN
          scan' = IF pos + written < kJsonBufSize
                  THEN [scan EXCEPT !.i = @ + 1, !.pos = pos + written]
                  ELSE [scan EXCEPT !.i = scan.count, !.pos = pos, !.dropped = written]
    /\ UNCHANGED <<request, postVars, dns>>

ScanEnds ==
    /\ request = "scan" /\ ~Continues
    /\ scan' = [scan EXCEPT !.pos = @ + 1]
    /\ request' = "done"
    /\ UNCHANGED <<postVars, dns>>

------------------------------------------------------------------------------
\* The DNS answer.
kMaxDnsPacketSize == 512
kDnsHeaderSize    == 12
AnswerSize        == 16
Labels            == {1, 63, 255}

NoQuery == [length |-> 0, qdcount |-> 0, q |-> 0, questionEnd |-> 0, offset |-> 0,
            answers |-> 0]

DnsQuery ==
    /\ request = "none"
    /\ request' = "dns"
    /\ \E length \in QueryLengths, qdcount \in QuestionCounts :
          dns' = [NoQuery EXCEPT !.length = length, !.qdcount = qdcount,
                                 !.questionEnd = kDnsHeaderSize]
    /\ UNCHANGED <<postVars, scan>>

\* The walk moves on, or the query is dropped.
WalksTo(end, q) ==
    /\ IF end > dns.length
       THEN request' = "done" /\ dns' = NoQuery
       ELSE dns' = [dns EXCEPT !.questionEnd = end, !.q = q] /\ UNCHANGED request
    /\ UNCHANGED <<postVars, scan>>

WalksQuestions == request = "dns" /\ dns.q < dns.qdcount

DnsLabel ==
    /\ WalksQuestions
    /\ dns.questionEnd < dns.length
    /\ \E label \in Labels : WalksTo(dns.questionEnd + 1 + label, dns.q)

\* Mutant: the type and the class are not looked for.
NameEndsUnchecked ==
    /\ WalksQuestions
    /\ dns.questionEnd < dns.length
    /\ dns' = [dns EXCEPT !.questionEnd = @ + 5, !.q = @ + 1]
    /\ UNCHANGED <<request, postVars, scan>>

\* The name's end, the type and the class.
DnsNameEnds ==
    /\ WalksQuestions
    /\ dns.questionEnd < dns.length
    /\ WalksTo(dns.questionEnd + 5, dns.q + 1)

DnsNameHasNoEnd ==
    /\ WalksQuestions
    /\ dns.questionEnd >= dns.length
    /\ WalksTo(dns.length + 1, dns.q)

\* The questions are copied; as many answers follow as fit.
DnsAnswers ==
    /\ request = "dns" /\ dns.q = dns.qdcount
    /\ LET room    == (kMaxDnsPacketSize - dns.questionEnd) \div AnswerSize
           answers == IF dns.qdcount <= room THEN dns.qdcount ELSE room
       IN dns' = [dns EXCEPT !.answers = answers, !.offset = dns.questionEnd + AnswerSize * answers]
    /\ request' = "done"
    /\ UNCHANGED <<postVars, scan>>

------------------------------------------------------------------------------
RequestInit ==
    /\ request = "none"
    /\ typed = none
    /\ body = <<>>
    /\ whole = FALSE
    /\ event = none
    /\ answer = "none"
    /\ shown = "none"
    /\ scan = NoScan
    /\ dns = NoQuery

Next == Submit \/ HandlePostConnect \/ PageReadsAnswer \/ HandleGetScan \/ ScanObject
        \/ ScanEnds \/ DnsQuery \/ DnsLabel \/ DnsNameEnds \/ DnsNameHasNoEnd \/ DnsAnswers

RequestSpec == RequestInit /\ [][Next]_vars

------------------------------------------------------------------------------
Cut(text, size) == SubSeq(text, 1, IF Len(text) < size THEN Len(text) ELSE size - 1)

\* CaptivePortalHttp.cpp:192-219: what is handed to the sink, from a whole or a cut
\* body, has a name, and name and password fit the event.
EventIsUsable ==
    answer = "ok" => event.ssid # <<>> /\ Len(event.ssid) < SsidSize
                     /\ Len(event.password) < PasswordSize

\* CaptivePortalHttp.cpp:197-221 with portal.html:180: a form received whole hands the
\* sink what was typed, whatever characters that has, up to the sizes of the event.
PostedIsReceived ==
    answer = "ok" /\ whole => event = [ssid     |-> Cut(typed.ssid, SsidSize),
                                       password |-> Cut(typed.password, PasswordSize)]

\* CaptivePortalHttp.cpp:139-166: what is sent stays inside the buffer, the bracket
\* included (a list that fills it leaves its terminator no room), and only an object
\* at least as long as the bytes held back can leave a comma at the end.
ScanAnswerFits ==
    request # "scan" => scan.pos <= kJsonBufSize /\ (scan.dropped = 0 \/ scan.dropped >= Reserve)

\* CaptivePortalDns.cpp:185-248: an answer copies no more than the query has, stays
\* inside its buffer, and leaves out an answer only when there is no room for it.
DnsAnswerFits ==
    request # "dns" =>
        /\ dns.questionEnd <= dns.length
        /\ dns.offset <= kMaxDnsPacketSize
        /\ dns.answers < dns.qdcount => dns.offset + AnswerSize > kMaxDnsPacketSize

\* portal.html:186-189: credentials that were accepted are shown as accepted.
AcceptedIsShown == shown = "refused" => answer # "ok"
==============================================================================

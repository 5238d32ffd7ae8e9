------------------------------ MODULE Visitor -------------------------------
(***************************************************************************)
(* One browser and the id that the service tracks it by: what              *)
(* ProcessRequest (src/CgiService.cpp) reads of the query and of           *)
(* HTTP_COOKIE, the id that Params::cookie_id makes of it, and the cookie  *)
(* that the answer to an XHR sets. The parsing of the query is UrlParser.  *)
(***************************************************************************)
EXTENDS UrlParser, Cookie, Base64

CONSTANTS
    Visits,          \* [url, jar, visits]: a browser's query, its first cookies and how often it comes
    CookieName,      \* cookie_name_ of the configuration
    MaxTime

Semicolon == 59
Space     == 32
Digit     == 48..57
Invalid   == 255      \* a byte that makes the text no UTF-8

\* What a browser keeps as a cookie: a ';' ends the name and the value.
CookieText == Seq(0..255 \ {Semicolon})
Cookies    == [name : CookieText, value : CookieText]

ASSUME VisitorAssumption ==
    /\ CookieName \in Seq(0..255) \ {<<>>}
    /\ MaxTime \in 0..9
    /\ \A v \in Visits : v.url \in Seq(0..255) /\ v.visits \in Nat /\ v.jar \in Seq(Cookies)

VARIABLES
    jar,             \* the browser's cookies of this site, in the order it sends them
    at,              \* "idle", "parse" while a request is served
    sent,            \* the jar that the request was sent with
    cookie_value,
    now,             \* time(NULL): one digit
    visits,          \* how often the browser still comes
    id               \* cookie_id_ of the last answer, and whether the browser got it

visitor == <<jar, at, sent, cookie_value, now, visits, id>>
allVars == <<vars, visitor>>

\* boost::split: one part more than there are separators.
Split(s, c) ==
    FoldLeft(LAMBDA parts, b : IF b = c THEN Append(parts, <<>>)
                               ELSE [parts EXCEPT ![Len(parts)] = Append(@, b)], <<<<>>>>, s)
\* find: where the text occurs, if anywhere.
Occurs(text, s) == \E i \in 0..(Len(s) - Len(text)) : SubSeq(s, i + 1, i + Len(text)) = text

\* What a browser sends: name=value, with "; " between them.
HTTP_COOKIE(cookies) ==
    FlattenSeq([i \in DOMAIN cookies |->
        (IF i = 1 THEN <<>> ELSE <<Semicolon, Space>>) \o cookies[i].name \o <<Equals>> \o cookies[i].value])

\* A slip of CookieIn: only a part that begins with the name is looked at.
CookieIn_Prefix(value, part) ==
    LET name_value == Split(part, Equals) IN
    IF IsPrefix(CookieName, part) /\ Len(name_value) = 2 THEN name_value[2] ELSE value

\* One turn of the loop over the parts: the name may be anywhere in the part.
CookieIn(value, part) ==
    LET name_value == Split(part, Equals) IN
    IF Occurs(CookieName, part) /\ Len(name_value) = 2 THEN name_value[2] ELSE value
ReadCookie(header) == FoldLeft(CookieIn, <<>>, Split(header, Semicolon))

\* Params::cookie_id: the digits of the cookie, or the time.
CookieId(value) ==
    IF value = <<>> THEN <<48 + now>>
    ELSE FoldLeft(LAMBDA digits, b : IF b \in Digit THEN Append(digits, b) ELSE digits, <<>>, value)

VisitorInit ==
    /\ \E v \in Visits : url_ = v.url /\ jar = v.jar /\ visits = v.visits
    /\ Init
    /\ at = "idle" /\ sent = <<>> /\ cookie_value = <<>> /\ now = 0
    /\ id = [text |-> <<>>, got |-> FALSE]

\* Time passes.
Clock == now' \in now..(IF now < MaxTime THEN now + 1 ELSE now)

\* The request arrives: the cookie is looked for and parsing starts.
Request ==
    /\ at = "idle" /\ visits > 0
    /\ at' = "parse" /\ sent' = jar /\ visits' = visits - 1
    /\ cookie_value' = ReadCookie(HTTP_COOKIE(jar))
    /\ pos' = FindFirst(Query, 0) /\ params_' = <<>> /\ done' = FALSE
    /\ Clock
    /\ UNCHANGED <<url_, jar, id>>

ParseQuery == at = "parse" /\ Next /\ UNCHANGED visitor

\* The browser stores a cookie in the place of the one of that name.
Stored(cookies, header) ==
    LET new == [name |-> header.name, value |-> header.value] IN
    IF \E i \in DOMAIN cookies : cookies[i].name = new.name
    THEN [i \in DOMAIN cookies |-> IF cookies[i].name = new.name THEN new ELSE cookies[i]]
    ELSE Append(cookies, new)

\* The answer sets the cookie; the browser may not get it, and the site's scripts
\* may have changed the jar since the request.
Answer ==
    LET text   == CookieId(cookie_value)
        cookie == NewCookie(CookieName, text, Credentials(<<>>, <<>>, <<48 + now>>))
    IN
    /\ at = "parse" /\ done /\ Invalid \notin ToSet(cookie_value)
    /\ \E got \in BOOLEAN :
          /\ id' = [text |-> text, got |-> got]
          /\ jar' = IF got THEN Stored(jar, HeaderOf(cookie)) ELSE jar
    /\ at' = "idle"
    /\ UNCHANGED <<vars, sent, cookie_value, now, visits>>

\* cookie_id throws and the answer is an error without a cookie.
AnswerError ==
    /\ at = "parse" /\ done /\ Invalid \in ToSet(cookie_value)
    /\ at' = "idle"
    /\ UNCHANGED <<vars, jar, sent, cookie_value, now, visits, id>>

\* The browser drops a cookie, also while a request is under way.
Forget ==
    /\ visits > 0
    /\ \E i \in DOMAIN jar : jar' = SubSeq(jar, 1, i - 1) \o SubSeq(jar, i + 1, Len(jar))
    /\ UNCHANGED <<vars, at, sent, cookie_value, now, visits, id>>

VisitorNext == Request \/ ParseQuery \/ Answer \/ AnswerError \/ Forget

VisitorSpec ==
    /\ VisitorInit /\ [][VisitorNext]_allVars
    /\ WF_allVars(ParseQuery) /\ WF_allVars(Answer) /\ WF_allVars(AnswerError)

-----------------------------------------------------------------------------
(* Properties.                                                             *)

\* The cookies of the jar that was sent in whose text the name occurs, and those
\* with an id.
Names(i)     == Occurs(CookieName, sent[i].name \o <<Equals>> \o sent[i].value)
CarriesId(i) == sent[i].name = CookieName /\ sent[i].value # <<>>
                /\ ToSet(sent[i].value) \subseteq Digit

\* A name that a cookie can have; the configuration is not checked for it.
IsToken(name) == ToSet(name) \cap {Semicolon, Equals, Space} = {}

\* The service answers each browser with the id it came with: when the jar sent
\* holds the cookie with an id, at any place, and the name occurs in none of the
\* other cookies, the answer sets the same id again, however the time has moved.
\* A cookie without a digit makes an empty id, but not twice: what the browser
\* then sends makes cookie_id take the time, unless another cookie is read for it.
SameVisitor ==
    [][ id' # id /\ IsToken(CookieName) =>
          /\ \A i \in DOMAIN sent :
                CarriesId(i) /\ (\A j \in DOMAIN sent \ {i} : ~Names(j))
                    => id'.text = sent[i].value
          /\ id'.text = <<>> => \E i \in DOMAIN sent :
                Names(i) /\ sent[i].value # <<>> /\ ToSet(sent[i].value) \cap Digit = {} ]_allVars

\* What is made for queries comes through them: percent_decode undoes percent
\* encoding byte for byte, and leaves base64 alone, so text that is encoded, sent
\* as a value and decoded is the text.
QueryCarries ==
    /\ PercentDecode(Encode(url_)) = url_
    /\ base64_decode(PercentDecode(base64_encode(url_))) = url_

\* Every request is answered, whatever its query and its cookies: parse comes to
\* an end although npos, which is where it starts without a '?', keeps its loop going.
RequestAnswered == at = "parse" ~> at = "idle"
=============================================================================

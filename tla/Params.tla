------------------------------- MODULE Params -------------------------------
(***************************************************************************)
(* Params (src/Params.cpp, include/Params.h) and the conversions of the     *)
(* JSON library as this repository ships it (include/json.h): which parts  *)
(* of a request survive parsing, and which conversion throws.  There is no *)
(* state: a Params object lives for one ProcessRequest call.               *)
(*                                                                         *)
(* A request is abstracted to what the control flow of ProcessRequest,     *)
(* Params and Core can tell apart.  A JSON value is its type; booleans     *)
(* keep their value because the code branches on it.                       *)
(***************************************************************************)
EXTENDS Naturals, Sequences

JsonValue == {"null", "true", "false", "number", "string", "array", "object"}

IsBoolean(v) == v \in {"true", "false"}

\* get<std::string>(): this copy of json.h turns null into "" and a boolean
\* into "true"/"false" instead of throwing.
GetString(v) == v = "string" \/ v = "null" \/ IsBoolean(v)

\* get<long>(): long is number_integer_t, and a null reads as 0.
GetLong(v) == v = "number" \/ v = "null"

\* get<long long>(): not one of the library's own integer types, so the
\* generic overload is chosen: booleans convert and null throws.
GetLongLong(v) == v = "number" \/ IsBoolean(v)

\* get<bool>(), also the implicit conversion in if(!it["retargeting"]).
GetBool(v) == IsBoolean(v)

-----------------------------------------------------------------------------
\* One element of "items".  text stands for every member read as a string,
\* number for "id" and "campaign_id".
Offer == [kind : JsonValue, text : JsonValue, number : JsonValue,
          campaign_social : JsonValue, retargeting : JsonValue]

\* A request: the CGI variables ProcessRequest looks at, then the body.
\*   addr, script   REMOTE_ADDR and SCRIPT_NAME are set
\*   xhr            HTTP_X_REQUESTED_WITH is "xmlhttprequest" in any case
\*   show           QUERY_STRING has show=status
\*   cookie         the tracking cookie: absent, text, or not valid UTF-8
\*   length         CONTENT_LENGTH is missing or zero, fits in STDIN_MAX, or
\*                  is larger (a negative one is larger: it is cast to
\*                  unsigned), so that the body is cut short
\*   json           what the body is; items, params its two members
\*   informer_id_int, text, test   members of "params"
Input == [addr : BOOLEAN, script : BOOLEAN, xhr : BOOLEAN, show : BOOLEAN,
          cookie : {"absent", "text", "invalid"},
          length : {"none", "fits", "exceeds"},
          json : JsonValue \cup {"malformed"},
          items : JsonValue, offers : Seq(Offer),
          params : JsonValue, informer_id_int : JsonValue,
          text : JsonValue, test : JsonValue]

\* json(): a body that is missing, cut at STDIN_MAX or malformed leaves json_
\* null; the parse error is caught and logged.
Json(in) == IF in.length = "fits" /\ in.json # "malformed" THEN in.json ELSE "null"

\* parse(): offers_, or null (iterated as the empty sequence).  operator[] on
\* anything but an object or null throws, and the catch leaves offers_ null.
Offers(in) == IF Json(in) = "object" /\ in.items = "array" THEN in.offers ELSE <<>>

\* parse(): a member of params_, null when there is no such object.
Param(in, v) == IF Json(in) = "object" /\ in.params = "object" THEN v ELSE "null"

\* cookie_id(): boost::u32regex_replace throws on a cookie that is not UTF-8.
CookieThrows(in) == in.cookie = "invalid"

\* parse() assigns test_mode only from a boolean; the constructor leaves it
\* uninitialized, so without one isTestMode() reads an indeterminate value.
TestModes(in) ==
    LET t == Param(in, in.test)
    IN  IF IsBoolean(t) THEN {t = "true"} ELSE BOOLEAN

-----------------------------------------------------------------------------
\* The conversions ProcessSaveResults makes before its loop.
ParamsConvert(in) ==
    /\ GetString(Param(in, in.text))
    /\ GetLongLong(Param(in, in.informer_id_int))

\* The conversions in the loop that build one document: it["..."] needs an
\* object (a null one becomes an object without members, whose missing
\* campaign_social then throws).
Builds(o) ==
    /\ o.kind = "object"
    /\ GetString(o.text) /\ GetLong(o.number)
    /\ GetBool(o.campaign_social)
    /\ GetString(o.retargeting)

\* The conversion after documents.push_back: if(!it["retargeting"]).
Counts(o) == GetBool(o.retargeting)

\* The whole batch reaches insert_many.
Convertible(in) ==
    /\ ParamsConvert(in)
    /\ \A k \in DOMAIN Offers(in) : Builds(Offers(in)[k]) /\ Counts(Offers(in)[k])
=============================================================================

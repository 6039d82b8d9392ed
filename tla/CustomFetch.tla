---------------------------- MODULE CustomFetch ----------------------------
(***************************************************************************)
(* customFetch, the one function every generated request goes through: the *)
(* headers it sends, and what it makes of the response.  Text is a class:  *)
(* "" and "blank" hold nothing but space, "object" is JSON that begins     *)
(* like an object or an array, "scalar" is other JSON, "broken" begins     *)
(* like an object and is no JSON, "plain" is neither.  The transport, the  *)
(* Response objects and the runtimes they live in are external.            *)
(***************************************************************************)
EXTENDS Integers, FiniteSets

None == "none"
Text == {"", "blank", "object", "scalar", "broken", "plain"}
JsonText == {"object", "scalar"}

(***************************************************************************)
(* The request.  Headers map lower-case names to values; the module's      *)
(* configuration is the base URL, the token getter's answer and the key.   *)
(***************************************************************************)
setApiKey(config, key) == [config EXCEPT !.apiKey = IF key = "" THEN None ELSE key]
setBaseUrl(config, url) == [config EXCEPT !.baseUrl = IF url = "" THEN None ELSE url]
setAuthTokenGetter(config, getter) == [config EXCEPT !.token = getter]

(* Only a path relative to the host is given the base. *)
applyBaseUrl(config, url) ==
    [url EXCEPT !.host = IF @ = None THEN config.baseUrl ELSE @]

resolveMethod(request) == IF request.method = None THEN "GET" ELSE request.method

(* The later source wins. *)
mergeHeaders(earlier, later) ==
    [name \in DOMAIN earlier \cup DOMAIN later |->
        IF name \in DOMAIN later THEN later[name] ELSE earlier[name]]

looksLikeJson(text) == text \in {"object", "broken"}

(* A header is added where the caller set none. *)
Added(headers, name, value) == mergeHeaders([n \in {name} |-> value], headers)
AddedIf(condition, headers, name, value) ==
    IF condition THEN Added(headers, name, value) ELSE headers

RequestHeaders(config, request) ==
    LET typed == AddedIf(looksLikeJson(request.body), request.headers,
                         "content-type", "application/json")
        accepting == AddedIf(request.responseType = "json", typed, "accept", "json")
        bearing == AddedIf(config.token # None, accepting, "authorization", config.token)
    IN  AddedIf(config.apiKey # None, bearing, "x-api-key", config.apiKey)

(* A GET or HEAD with a body is refused before anything is sent. *)
IsSendable(request) ==
    ~(request.body # None /\ resolveMethod(request) \in {"GET", "HEAD"})

(***************************************************************************)
(* The response: its status, media type, the content-length "0", the body  *)
(* property, and the text behind it.                                       *)
(***************************************************************************)
NO_BODY_STATUS == {204, 205, 304}
IsOk(response) == response.status \in 200..299

(* A slip the comment on hasNoBody warns of: == null for === null. *)
MutanthasNoBody(response, method) ==
    \/ method = "HEAD" \/ response.status \in NO_BODY_STATUS
    \/ response.emptyLength
    \/ response.body \in {"null", "undefined"}

hasNoBody(response, method) ==
    \/ method = "HEAD" \/ response.status \in NO_BODY_STATUS
    \/ response.emptyLength
    \/ response.body = "null"

isJsonMediaType(media) == media = "json"
isTextMediaType(media) == media = "text"

(* What the caller gets: data, or one of the three errors. *)
Nothing == [as |-> "null", text |-> ""]
Parsed(text) == [as |-> "parsed", text |-> text]
Raw(text) == [as |-> "text", text |-> text]
Blob(text) == [as |-> "blob", text |-> text]
Data(value) == [kind |-> "data", status |-> 0, data |-> value]
ApiError(response, value) ==
    [kind |-> "ApiError", status |-> response.status, data |-> value]
ResponseParseError(response) ==
    [kind |-> "ResponseParseError", status |-> response.status, data |-> Nothing]
TypeError == [kind |-> "TypeError", status |-> 0, data |-> Nothing]

IsBlank(text) == text \in {"", "blank"}

(* JSON.parse of the text without its byte order mark. *)
stripBom(response) == [response EXCEPT !.bom = FALSE]
IsJson(response) == response.text \in JsonText /\ ~response.bom

parseJsonBody(response) ==
    IF IsBlank(response.text) THEN Data(Nothing)
    ELSE IF IsJson(stripBom(response)) THEN Data(Parsed(response.text))
    ELSE ResponseParseError(response)


parseErrorBody(response, method) ==
    LET untyped == response.media = None \/ isJsonMediaType(response.media)
                      \/ isTextMediaType(response.media)
        tried == isJsonMediaType(response.media) \/ looksLikeJson(response.text)
    IN  IF hasNoBody(response, method) THEN Nothing
        ELSE IF ~untyped
        THEN IF response.blob THEN Blob(response.text) ELSE Raw(response.text)
        ELSE IF IsBlank(response.text) THEN Nothing
        ELSE IF tried /\ IsJson(stripBom(response)) THEN Parsed(response.text)
        ELSE Raw(response.text)

inferResponseType(response) ==
    IF isJsonMediaType(response.media) THEN "json"
    ELSE IF isTextMediaType(response.media) \/ response.media = None THEN "text"
    ELSE "blob"

parseSuccessBody(response, responseType, method) ==
    LET type == IF responseType = "auto" THEN inferResponseType(response) ELSE responseType
    IN  CASE hasNoBody(response, method) -> Data(Nothing)
          [] ~hasNoBody(response, method) /\ type = "json" -> parseJsonBody(response)
          [] ~hasNoBody(response, method) /\ type = "text" ->
                Data(IF response.text = "" THEN Nothing ELSE Raw(response.text))
          [] OTHER -> IF response.blob THEN Data(Blob(response.text)) ELSE TypeError

(* What customFetch returns or throws once the response has come. *)
customFetch(response, responseType, method) ==
    IF IsOk(response) THEN parseSuccessBody(response, responseType, method)
    ELSE ApiError(response, parseErrorBody(response, method))

(***************************************************************************)
(* The message of an ApiError, as the fields of the body it is made of.    *)
(***************************************************************************)
MutantbuildErrorMessage(fields) ==
    IF "detail" \in fields THEN fields \cap {"title", "detail"}
    ELSE IF "message" \in fields THEN {"message"}
    ELSE fields \cap {"title"}

buildErrorMessage(fields) ==
    IF "detail" \in fields THEN fields \cap {"title", "detail"}
    ELSE IF "message" \in fields THEN {"message"}
    ELSE IF "error_description" \in fields THEN {"error_description"}
    ELSE IF "error" \in fields THEN {"error"}
    ELSE fields \cap {"title"}

(* The same response in React Native, which implements no stream. *)
InReactNative(response) == [response EXCEPT !.body = "undefined"]
=============================================================================

--------------------------- MODULE Serialization ----------------------------
(***************************************************************************)
(* serialization.cpp and serialization.h: the messages the library writes, *)
(* as the tokens rapidjson's writer gets, and the helpers that copy        *)
(* strings, print numbers and hand out memory.                             *)
(*                                                                         *)
(* A C string is its length, Null a null pointer.  A token is what it is   *)
(* and how many characters it takes at most, quotes included.              *)
(***************************************************************************)
EXTENDS Integers, Sequences, SequencesExt, Functions

CONSTANTS
    Presences,          \* the DiscordRichPresence structs looked at
    Ids,                \* application and user ids, events
    Escape,             \* characters one character of a string may take in JSON
    MaxMessageSize,     \* of QueuedMessage::buffer
    Width,              \* bits of an int
    Sizes,              \* sizes of buffers and of what goes into them
    MaxBlocks           \* bound on the requests one allocator gets

Null == -1

\* char[len] of the documentation, or no text.
TextOf(len) == {Null} \cup 0 .. len
DiscordButton == [label : TextOf(32), url : TextOf(256)]
DiscordRichPresence ==
    [type : Int, status_display_type : Int, instance : Int,
     state : TextOf(128), stateUrl : TextOf(256), details : TextOf(128), detailsUrl : TextOf(256),
     startTimestamp : Int, endTimestamp : Int,
     largeImageKey : TextOf(256), largeImageText : TextOf(128), largeImageUrl : TextOf(256),
     smallImageKey : TextOf(256), smallImageText : TextOf(128), smallImageUrl : TextOf(256),
     partyId : TextOf(128), partySize : Int, partyMax : Int, partyPrivacy : Int,
     matchSecret : TextOf(128), joinSecret : TextOf(128), spectateSecret : TextOf(128),
     buttons : [1 .. 2 -> DiscordButton]]

\* Keys of the messages, and values that are always the same.
Names ==
    {"nonce", "-2147483647", "cmd", "args", "evt", "pid", "v", "client_id", "user_id",
     "SET_ACTIVITY", "SUBSCRIBE", "UNSUBSCRIBE", "ACTIVITY_JOIN_REQUEST",
     "SEND_ACTIVITY_JOIN_INVITE", "CLOSE_ACTIVITY_JOIN_REQUEST",
     "activity", "type", "status_display_type", "state", "state_url", "details", "details_url",
     "timestamps", "start", "end", "assets", "large_image", "large_text", "large_url",
     "small_image", "small_text", "small_url", "party", "id", "size", "privacy",
     "buttons", "label", "url", "secrets", "match", "join", "spectate", "instance"}

\* The texts have the documented lengths, an id fits RpcConnection::appId, and the
\* buffer has room for a message in which every character takes the most it may.
ASSUME PresencesAssumption == Presences \subseteq DiscordRichPresence
ASSUME IdsAssumption == Ids \subseteq 0 .. 63
ASSUME NamesAssumption == \A k \in Names : Len(k) \in 0 .. 27
ASSUME RoomAssumption ==
    /\ Escape \in Nat
    /\ MaxMessageSize \in Nat
    /\ 2752 * Escape + 1300 <= MaxMessageSize
ASSUME WidthAssumption == 2 ^ (Width - 1) \in Nat
ASSUME SizesAssumption == Sizes \subseteq Nat

Token(what, size) == <<[is |-> what, size |-> size]>>
Key(k) == Token("key", Len(k) + 2)
String(s) == Token(IF s = Null THEN "crash" ELSE "value", Escape * s + 2)
Name(s) == Token("value", Len(s) + 2)
Number(n) == Token("value", 20)
Bool(b) == Token("value", 5)

WriteObject(tokens) == Token("StartObject", 1) \o tokens \o Token("EndObject", 1)
WriteArray(tokens) == Token("StartArray", 1) \o tokens \o Token("EndArray", 1)

\* Text that is there: value && value[0].
Given(s) == s > 0

\* Parts of a message that are only there under a condition.
When(condition, tokens) == IF condition THEN tokens ELSE <<>>

\* Mutant of WriteOptionalString: the key is written in any case.
WriteOptionalStringKeyed(k, s) == Key(k) \o When(Given(s), String(s))
WriteOptionalString(k, s) == When(Given(s), Key(k) \o String(s))

JsonWriteNonce == Key("nonce") \o Name("-2147483647")

-----------------------------------------------------------------------------
Timestamps(p) ==
    When(p.startTimestamp # 0 \/ p.endTimestamp # 0,
        Key("timestamps") \o WriteObject(
            When(p.startTimestamp # 0, Key("start") \o Number(p.startTimestamp))
                \o When(p.endTimestamp # 0, Key("end") \o Number(p.endTimestamp))))

\* Mutant of HasAssets: an empty text counts, as in presence->largeImageKey alone.
HasAssetsEmpty(p) ==
    \E s \in {p.largeImageKey, p.largeImageText, p.smallImageKey, p.smallImageText} : s # Null
HasAssets(p) ==
    \E s \in {p.largeImageKey, p.largeImageText, p.smallImageKey, p.smallImageText} : Given(s)

Assets(p) ==
    When(HasAssets(p),
        Key("assets") \o WriteObject(
            WriteOptionalString("large_image", p.largeImageKey)
                \o WriteOptionalString("large_text", p.largeImageText)
                \o WriteOptionalString("large_url", p.largeImageUrl)
                \o WriteOptionalString("small_image", p.smallImageKey)
                \o WriteOptionalString("small_text", p.smallImageText)
                \o WriteOptionalString("small_url", p.smallImageUrl)))

Party(p) ==
    When(Given(p.partyId) \/ p.partySize # 0 \/ p.partyMax # 0 \/ p.partyPrivacy # 0,
        Key("party") \o WriteObject(
            WriteOptionalString("id", p.partyId)
                \o When(p.partySize # 0 /\ p.partyMax # 0,
                        Key("size") \o WriteArray(Number(p.partySize) \o Number(p.partyMax)))
                \o When(p.partyPrivacy # 0, Key("privacy") \o Number(p.partyPrivacy))))

Button(b) ==
    When(Given(b.label),
        WriteObject(Key("label") \o String(b.label) \o Key("url") \o String(b.url)))

HasSecrets(p) == \E s \in {p.matchSecret, p.joinSecret, p.spectateSecret} : Given(s)

\* The first label decides between buttons and secrets.
ButtonsOrSecrets(p) ==
    IF p.buttons[1].label # Null
      THEN Key("buttons") \o WriteArray(Button(p.buttons[1]) \o Button(p.buttons[2]))
      ELSE When(HasSecrets(p),
               Key("secrets") \o WriteObject(
                   WriteOptionalString("match", p.matchSecret)
                       \o WriteOptionalString("join", p.joinSecret)
                       \o WriteOptionalString("spectate", p.spectateSecret)))

Activity(p) ==
    Key("activity") \o WriteObject(
        Key("type") \o Number(p.type)
            \o Key("status_display_type") \o Number(p.status_display_type)
            \o WriteOptionalString("state", p.state)
            \o WriteOptionalString("state_url", p.stateUrl)
            \o WriteOptionalString("details", p.details)
            \o WriteOptionalString("details_url", p.detailsUrl)
            \o Timestamps(p) \o Assets(p) \o Party(p) \o ButtonsOrSecrets(p)
            \o Key("instance") \o Bool(p.instance))

\* The activity, or nothing for a null pointer, which clears it.
JsonWriteRichPresenceObj(activity) ==
    WriteObject(
        JsonWriteNonce
            \o Key("cmd") \o Name("SET_ACTIVITY")
            \o Key("args") \o WriteObject(Key("pid") \o Number(0) \o activity))

JsonWriteHandshakeObj(applicationId) ==
    WriteObject(Key("v") \o Number(1) \o Key("client_id") \o String(applicationId))

JsonWriteSubscribeCommand(evtName) ==
    WriteObject(JsonWriteNonce \o Key("cmd") \o Name("SUBSCRIBE")
                    \o Key("evt") \o Name(evtName))

JsonWriteUnsubscribeCommand(evtName) ==
    WriteObject(JsonWriteNonce \o Key("cmd") \o Name("UNSUBSCRIBE")
                    \o Key("evt") \o Name(evtName))

JsonWriteJoinReply(userId, yes) ==
    WriteObject(
        Key("cmd") \o Name(IF yes THEN "SEND_ACTIVITY_JOIN_INVITE"
                           ELSE "CLOSE_ACTIVITY_JOIN_REQUEST")
            \o Key("args") \o WriteObject(Key("user_id") \o String(userId))
            \o JsonWriteNonce)

-----------------------------------------------------------------------------
(***************************************************************************)
(* What rapidjson makes of the tokens: JSON, as far as a stack of open     *)
(* objects and arrays tells it, its size with colons and commas, and how   *)
(* many of its objects and arrays are empty.                               *)
(***************************************************************************)
Blank == [stack |-> <<>>, after |-> "nothing", size |-> 0, hollow |-> 0]

\* The innermost object or array that is open.
Top(text) == IF text.stack = <<>> THEN "none" ELSE Last(text.stack)

Fits(text, token) ==
    CASE token.is = "key" -> Top(text) = "StartObject" /\ text.after \in {"StartObject", "item"}
      [] token.is \in {"value", "StartObject", "StartArray"} ->
             \/ text.after = "key"
             \/ Top(text) = "StartArray" /\ text.after \in {"StartArray", "item"}
             \/ text.after = "nothing" /\ token.is = "StartObject"
      [] token.is = "EndObject" -> Top(text) = "StartObject" /\ text.after # "key"
      [] token.is = "EndArray" -> Top(text) = "StartArray"
      [] token.is = "crash" -> FALSE

Colon(token) == IF token.is = "key" THEN 1 ELSE 0
Comma(text, token) ==
    IF text.after = "item" /\ token.is \notin {"EndObject", "EndArray"} THEN 1 ELSE 0

Put(text, token) ==
    [stack |->
        CASE token.is \in {"StartObject", "StartArray"} -> Append(text.stack, token.is)
          [] token.is \in {"EndObject", "EndArray"} /\ Fits(text, token) -> Front(text.stack)
          [] OTHER -> text.stack,
     after |->
        IF ~Fits(text, token) THEN "nonsense"
        ELSE IF token.is \in {"key", "StartObject", "StartArray"} THEN token.is ELSE "item",
     size |-> text.size + token.size + Colon(token) + Comma(text, token),
     hollow |->
        IF token.is \in {"EndObject", "EndArray"} /\ text.after # "item" THEN text.hollow + 1
        ELSE text.hollow]

\* What becomes of a text to which the tokens are put, one after the other.
Puts(text, tokens) ==
    LET after[n \in 0 .. Len(tokens)] == IF n = 0 THEN text ELSE Put(after[n - 1], tokens[n])
    IN  after[Len(tokens)]

Text(tokens) == Puts(Blank, tokens)

IsJson(tokens) == Text(tokens).stack = <<>> /\ Text(tokens).after = "item"

-----------------------------------------------------------------------------
(***************************************************************************)
(* NumberToString, for the int of a nonce.                                 *)
(***************************************************************************)
\* temp: the digits of a positive number, the last one first.
Digits[n \in 0 .. 2 ^ (Width - 1)] == IF n = 0 THEN <<>> ELSE <<n % 10>> \o Digits[n \div 10]

\* Mutant of Ordered: the digits stay as they were found.
OrderedNot(temp) == temp
Ordered(temp) == Reverse(temp)

NumberToString(n) ==
    [minus |-> n < 0,
     digits |-> IF n = 0 THEN <<0>> ELSE Ordered(Digits[IF n < 0 THEN -n ELSE n])]

Value(s) ==
    LET places == Len(s.digits)
        value[i \in 0 .. places] == IF i = 0 THEN 0 ELSE 10 * value[i - 1] + s.digits[i]
    IN  IF s.minus THEN -value[places] ELSE value[places]

(***************************************************************************)
(* StringCopy into a buffer of len bytes: how many characters of src it    *)
(* copies, after which it writes a 0.                                      *)
(***************************************************************************)
\* Mutant of Goes: copied <= Len.
GoesOneFurther(copied, src, len) == copied <= src /\ copied <= len
\* *src && copied < Len
Goes(copied, src, len) == copied <= src /\ copied < len

StringCopy(len, src) ==
    CHOOSE n \in 0 .. src : ~Goes(n + 1, src, len) /\ \A i \in 1 .. n : Goes(i, src, len)

(***************************************************************************)
(* LinearAllocator: what is handed out of its buffer.  A block is what     *)
(* Malloc returned for one request, Null for nullptr, and its size.        *)
(***************************************************************************)
Allocator(size) == [buffer |-> 0, end |-> size, blocks |-> <<>>]

\* Mutant of Taken: buffer_ stays behind end_ after a request that failed.
TakenAnyway(buffer, size, end) == buffer + size
Taken(buffer, size, end) == IF buffer + size > end THEN buffer ELSE buffer + size

Malloc(heap, size) ==
    [buffer |-> Taken(heap.buffer, size, heap.end),
     end |-> heap.end,
     blocks |-> Append(heap.blocks,
                       [at |-> IF heap.buffer + size > heap.end THEN Null ELSE heap.buffer,
                        size |-> size])]

-----------------------------------------------------------------------------
(***************************************************************************)
(* One call after the other, each a function of its arguments; and one     *)
(* request after the other to an allocator.                                *)
(***************************************************************************)
VARIABLES
    call,       \* what is called, with what
    heap        \* the allocator that is in use, when one is

NoCall == [of |-> "nothing"]

\* A button with a label has a url: String(nullptr) crashes.
Urls(p) == \A i \in DOMAIN p.buttons : Given(p.buttons[i].label) => p.buttons[i].url # Null

Calls ==
    [of : {"presence"}, presence : {p \in Presences : Urls(p)}]
        \cup [of : {"clear", "SUBSCRIBE", "UNSUBSCRIBE"}]
        \cup [of : {"handshake", "yes", "no"}, id : Ids]
        \cup [of : {"number"}, n : -(2 ^ (Width - 1)) .. 2 ^ (Width - 1) - 1]
        \cup [of : {"copy"}, len : Sizes \ {0}, src : Sizes]
        \cup [of : {"allocator"}, size : Sizes]

Begin(c) ==
    /\ call = NoCall
    /\ call' = c
    /\ heap' = IF c.of = "allocator" THEN Allocator(c.size) ELSE heap

Allocate(size) ==
    /\ call.of = "allocator"
    /\ Len(heap.blocks) < MaxBlocks
    /\ heap' = Malloc(heap, size)
    /\ UNCHANGED call

Return ==
    /\ call # NoCall
    /\ call' = NoCall
    /\ heap' = Allocator(0)

CallInit == call = NoCall /\ heap = Allocator(0)
CallNext == (\E c \in Calls : Begin(c)) \/ (\E size \in Sizes : Allocate(size)) \/ Return
CallSpec == CallInit /\ [][CallNext]_<<call, heap>>

Message ==
    CASE call.of = "presence" -> JsonWriteRichPresenceObj(Activity(call.presence))
      [] call.of = "clear" -> JsonWriteRichPresenceObj(<<>>)
      [] call.of = "handshake" -> JsonWriteHandshakeObj(call.id)
      [] call.of \in {"yes", "no"} -> JsonWriteJoinReply(call.id, call.of = "yes")
      [] call.of = "SUBSCRIBE" -> JsonWriteSubscribeCommand("ACTIVITY_JOIN_REQUEST")
      [] call.of = "UNSUBSCRIBE" -> JsonWriteUnsubscribeCommand("ACTIVITY_JOIN_REQUEST")
      [] OTHER -> <<>>

\* Every message is one JSON object, and as long as no text exceeds the documented
\* limits it fits the buffer, which cuts off without a word (serialization.cpp:
\* 83-275, serialization.h:119-134).
MessagesAreWhole ==
    Message # <<>> => IsJson(Message) /\ Text(Message).size <= MaxMessageSize

\* The condition under which a part is written agrees with the conditions of what
\* is in it: no part is empty, but for a party with a size and no maximum (or the
\* reverse) and buttons the first of which has an empty label (serialization.cpp:
\* 120-184).
PartsAreNotEmpty ==
    call.of = "presence" =>
        LET p == call.presence
        IN  \/ Text(Message).hollow = 0
            \/ (p.partySize # 0) # (p.partyMax # 0)
            \/ p.buttons[1].label = 0

\* A number reads back as what it was, the most negative one excepted, which has
\* no positive counterpart (serialization.cpp:5-28).
NumbersReadBack ==
    call.of = "number" /\ call.n # -(2 ^ (Width - 1)) => Value(NumberToString(call.n)) = call.n

\* A copy is as long as it can be with its 0 still in the buffer
\* (serialization.h:24-37).
CopiesFit ==
    call.of = "copy" =>
        LET n == StringCopy(call.len, call.src)
        IN  n < call.len /\ (n = call.src \/ n = call.len - 1)

\* Blocks lie one behind the other in the buffer, without a gap, and one is
\* refused only when it does not fit behind the last (serialization.h:71-80).
Behind(blocks, i, e) ==
    LET given == {j \in 1 .. i - 1 : blocks[j].at # Null}
    IN  /\ \A j \in given : blocks[j].at + blocks[j].size <= e
        /\ e = 0 \/ \E j \in given : blocks[j].at + blocks[j].size = e

BlocksFit ==
    \A i \in DOMAIN heap.blocks :
        LET block == heap.blocks[i]
        IN  \E e \in 0 .. heap.end :
                /\ Behind(heap.blocks, i, e)
                /\ block.at = IF e + block.size > heap.end THEN Null ELSE e
=============================================================================

---------------------------- MODULE EventFormat -----------------------------
(***************************************************************************)
(* What makes an event acceptable, written twice in the repository: by the *)
(* JavaScript peers (core/src/event.js) and by the Rust peer (store.rs).   *)
(* An event is the JSON text a peer sends, as a function from its members  *)
(* to forms: the classes of values some check of either side tells apart.  *)
(* The members of the media entry, where media is "one", are beside it.    *)
(***************************************************************************)
EXTENDS FiniteSets

CONSTANT Gaps   \* the forms this instance adds, a subset of Loose below

Header == {"author", "seq", "prev", "ts", "kind", "sealed"}
Entry == {"blob", "mime", "alt", "w"}

\* CONTENT_FIELDS: the members of each kind's content.
Content == [
    profile |-> {"name", "bio", "avatar"},
    post    |-> {"text", "media", "tags", "boardTag"},
    reply   |-> {"root", "parent", "text", "media"},
    like    |-> {"target", "value"},
    repost  |-> {"target"},     delete  |-> {"target"},
    follow  |-> {"person"},     unfollow |-> {"person"},
    block   |-> {"person"},     unblock  |-> {"person"},
    thread  |-> {"board", "title", "text", "media"}]

Kinds == DOMAIN Content
AllMembers == Header \cup Entry \cup {"stray"} \cup UNION {Content[k] : k \in Kinds}

(***************************************************************************)
(* Forms.  "wide" fits when UTF-16 units are counted but not bytes;        *)
(* "astral" fits when code points are counted but not UTF-16 units.        *)
(* Loose forms: "null" where ?? supplies a default, "bom" is text of       *)
(* U+FEFF and "nel" of U+0085 only, "lone" has an unpaired surrogate,      *)
(* "integral" is a number written 1.0, "unsaid" a prev that is left out.   *)
(***************************************************************************)
Loose == {"null", "bom", "nel", "lone", "integral", "unsaid"}

Texts == {"absent", "number", "empty", "blank", "words", "wide", "astral", "long"}
LooseTexts == Gaps \cap {"bom", "nel", "lone"}
Ids == {"absent", "null", "good", "otherPrefix", "short"}
Whole == Gaps \cap {"integral"}

Forms(m) ==
    CASE m \in {"name", "text", "mime"} -> Texts \cup LooseTexts \cup (Gaps \cap {"null"})
      [] m \in {"bio", "alt", "board", "title", "boardTag"} -> Texts \cup LooseTexts \cup {"null"}
      [] m \in {"avatar", "root", "parent", "target", "person", "blob", "author"} -> Ids
      [] m = "w" -> {"absent", "null", "natural", "negative", "fraction", "huge", "words"} \cup Whole
      [] m = "value" -> {"absent", "null", "up", "down", "zero", "words"} \cup Whole
      [] m = "media" -> {"absent", "null", "none", "one", "nine", "words", "notEntries"}
      [] m = "tags" -> {"absent", "null", "none", "one", "thirteen", "long", "number"}
      [] m = "stray" -> {"absent", "content", "entry", "event"}
      [] m = "seq" -> {"zero", "first", "later", "fraction", "huge", "words"} \cup Whole
      [] m = "prev" -> {"null", "good", "otherPrefix"} \cup (Gaps \cap {"unsaid"})
      [] m = "ts" -> {"now", "negative", "future", "fraction", "huge"} \cup Whole
      [] m = "kind" -> {"unknown"}
      [] m = "sealed" -> {"good", "forged", "wrongId", "absent"}

\* A well-formed event of kind k, whose optional members are absent.
Plain(k) == [m \in AllMembers |->
    CASE m = "kind" -> k
      [] m = "seq" -> "first" [] m = "prev" -> "null" [] m = "ts" -> "now"
      [] m \in {"author", "sealed", "blob"} -> "good"
      [] m \in Content[k] /\ m \in {"root", "parent", "target", "person"} -> "good"
      [] m \in Content[k] /\ m \in {"text", "board", "title"} -> "words"
      [] m = "value" /\ k = "like" -> "up"
      [] OTHER -> "absent"]

Said(e) == IF e.media = "one" THEN AllMembers ELSE AllMembers \ Entry

\* Every event that differs from a plain one in at most two members.
Offered == UNION {
    LET Free == Header \cup {"stray"} \cup Content[k]
                \cup (IF "media" \in Content[k] THEN Entry ELSE {})
        One == UNION {{[Plain(k) EXCEPT ![m] = v] : v \in Forms(m)} : m \in Free}
    IN  UNION {UNION {{[e EXCEPT ![m] = v] : v \in Forms(m)} : m \in Free} : e \in One}
    : k \in Kinds}
----------------------------------------------------------------------------
(* The JavaScript side. *)

\* str(v, max): v.length counts UTF-16 units.
JsStr(v) == v \in {"empty", "blank", "words", "wide", "bom", "nel", "lone"}

\* v ?? '': what is absent or null counts as the empty text.
Defaulted(v) == IF v \in {"absent", "null"} THEN "empty" ELSE v

\* String#trim takes U+FEFF for space and not U+0085.
JsBlank(v) == v \in {"empty", "blank", "bom"}

JsOptional(v) == v = "absent" \/ JsStr(v)

\* validateMedia
JsMedia(e) ==
    \/ e.media \in {"absent", "none"}
    \/ /\ e.media = "one" /\ e.stray # "entry" /\ e.blob = "good"
       /\ JsStr(Defaulted(e.mime)) /\ JsOptional(e.alt)
       /\ e.w \in {"absent", "natural", "integral", "huge"}

JsHasMedia(e) == e.media \in {"one", "nine", "notEntries"}

\* validateContent, once unknownKey has found no stray member
JsContent(e) ==
    \/ /\ e.kind = "profile" /\ JsStr(Defaulted(e.name))
       /\ JsOptional(e.bio) /\ e.avatar \in {"absent", "good"}
    \/ /\ e.kind = "post" /\ JsStr(Defaulted(e.text))
       /\ ~JsBlank(Defaulted(e.text)) \/ JsHasMedia(e)
       /\ JsOptional(e.boardTag) /\ JsMedia(e) /\ e.tags \in {"absent", "none", "one"}
    \/ /\ e.kind = "reply" /\ e.root = "good" /\ e.parent = "good"
       /\ JsStr(Defaulted(e.text)) /\ JsMedia(e)
       /\ ~JsBlank(Defaulted(e.text)) \/ JsHasMedia(e)
    \/ /\ e.kind = "like" /\ e.target = "good"
       /\ e.value \in {"up", "down", "integral"}
    \/ e.kind \in {"repost", "delete"} /\ e.target = "good"
    \/ e.kind \in {"follow", "unfollow", "block", "unblock"} /\ e.person = "good"
    \/ /\ e.kind = "thread"
       /\ \A m \in {"board", "title"} : JsStr(Defaulted(e[m])) /\ ~JsBlank(Defaulted(e[m]))
       /\ JsStr(Defaulted(e.text)) /\ JsMedia(e)

ValidateShape(e) ==
    /\ e.author = "good"
    /\ \/ e.seq \in {"first", "integral"} /\ e.prev = "null"
       \/ e.seq \in {"later", "huge"} /\ e.prev = "good"
    /\ e.ts \in {"now", "future", "huge", "integral"}
    /\ e.kind \in Kinds /\ e.stray # "content"
    /\ JsContent(e)

\* canonical() throws for an integer past MAX_SAFE_INTEGER.
Encodable(e) ==
    "huge" \notin {e[m] : m \in Said(e)}

\* verifyEvent.  What is stapled on outside the content is dropped by sanitize.
JsKeeps(e) ==
    ValidateShape(e) /\ Encodable(e) /\ e.sealed = "good" /\ e.ts # "future"
----------------------------------------------------------------------------
(* The Rust side. *)

\* serde: seq is a u64, ts an i64, prev an Option, and a string has no lone surrogate.
RustParses(e) ==
    /\ e.seq \in {"zero", "first", "later", "huge"}
    /\ e.ts \in {"now", "negative", "future", "huge"}
    /\ e.author \notin {"absent", "null"} /\ e.sealed # "absent"
    /\ "lone" \notin {e[m] : m \in Said(e)}

\* check_str of a member that is there: utf16_len(s) <= max
RustStr(v) == v \in {"empty", "blank", "words", "wide", "bom", "nel"}

CheckStr(v) == v = "absent" \/ RustStr(v)

\* str::trim takes U+0085 for space and not U+FEFF.
RustBlank(v) == v \in {"absent", "empty", "blank", "nel"}

\* check_media: Map::get finds a member that is null.
RustMedia(e) ==
    \/ e.media \in {"absent", "none"}
    \/ /\ e.media = "one" /\ e.stray # "entry" /\ e.blob = "good"
       /\ CheckStr(e.mime) /\ CheckStr(e.alt)
       /\ e.w \in {"absent", "natural", "huge"}

\* validate_content
RustContent(e) ==
    \/ /\ e.kind = "profile" /\ CheckStr(e.name) /\ CheckStr(e.bio)
       /\ e.avatar \in {"absent", "good"}
    \/ /\ e.kind = "post" /\ CheckStr(e.text) /\ RustMedia(e)
       /\ ~RustBlank(e.text) \/ e.media = "one"
       /\ CheckStr(e.boardTag) /\ e.tags \in {"absent", "none", "one"}
    \/ /\ e.kind = "reply" /\ e.root = "good" /\ e.parent = "good"
       /\ CheckStr(e.text) /\ RustMedia(e)
       /\ ~RustBlank(e.text) \/ e.media = "one"
    \/ e.kind = "like" /\ e.target = "good" /\ e.value \in {"up", "down"}
    \/ e.kind \in {"repost", "delete"} /\ e.target = "good"
    \/ e.kind \in {"follow", "unfollow", "block", "unblock"} /\ e.person = "good"
    \/ /\ e.kind = "thread"
       /\ \A m \in {"board", "title"} : RustStr(e[m]) /\ ~RustBlank(e[m])
       /\ CheckStr(e.text) /\ RustMedia(e)

\* Event::validate_shape
RustShape(e) ==
    /\ e.author = "good"
    /\ \/ e.seq = "first" /\ e.prev \in {"null", "unsaid"}
       \/ e.seq \in {"later", "huge"} /\ e.prev = "good"
    /\ e.ts = "now"
    /\ e.kind \in Kinds /\ e.stray # "content"
    /\ RustContent(e)

\* Event::verify
RustKeeps(e) == RustParses(e) /\ RustShape(e) /\ Encodable(e) /\ e.sealed = "good"
----------------------------------------------------------------------------
VARIABLE event      \* the event both sides are offered

Init == event \in Offered
Next == UNCHANGED event
Spec == Init /\ [][Next]_event

(***************************************************************************)
(* Validation in the Rust peer "deliberately mirrors packages/core/src/    *)
(* event.js" (store.rs:6-10), a number written 1.0 included (codec.rs:39-  *)
(* 44, docs/PROTOCOL.md:60-63): both sides keep the event or neither does, *)
(* or its author's log stops replicating between them for good.            *)
(***************************************************************************)
MirrorsEventJs == JsKeeps(event) <=> RustKeeps(event)
=============================================================================

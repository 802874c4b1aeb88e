------------------------------ MODULE UrlParse ------------------------------
(***************************************************************************)
(* The URL parsing of the replica-group resolver (src/unnamed/part_000):   *)
(* get_filename, used by upload and the two older delete handlers through  *)
(* get_file_info, and the index arithmetic of prepare_session, used by     *)
(* get, download-info and the proxy.cpp delete.  Both compute positions   *)
(* with std::string::find, whose "not found" is npos = SIZE_MAX, and add   *)
(* or subtract on size_t, which wraps.  A URL is a sequence of characters  *)
(* of a small alphabet; positions are 0-based as in the code, and size_t   *)
(* is SizeBits wide (every URL of the model is far shorter than 2^SizeBits *)
(* so the wrap of npos + 1 to 0 is the same as on 64 bits).                *)
(*                                                                         *)
(* The URL is the only state: a behaviour is one parse.  It is built from *)
(* the parts of the grammar of spec 4.3 and 6, which is the reference the  *)
(* code's results are checked against.                                     *)
(***************************************************************************)
EXTENDS Integers, Sequences

CONSTANTS SizeBits,     \* width of size_t in the model
          Default,      \* the namespace "default"
          NoGroup,      \* boost::lexical_cast<int> threw: no groups are set
          OutOfRange,   \* std::string::substr threw std::out_of_range
          Tokens,       \* verb, namespace and query tokens: no '/', '-', '?'
          GroupTokens,  \* group tokens of read URLs (may hold '-')
          Files         \* file names: no '?', may hold '/' and '-'

Npos == 2^SizeBits - 1

(* size_t arithmetic. *)
SizeAdd(a, b) == (a + b) % 2^SizeBits
SizeSub(a, b) == (a - b) % 2^SizeBits

(* std::string::find(c, pos): the first index >= pos holding c, or npos. *)
Find(s, c, pos) ==
    LET hits == {i \in pos..(Len(s) - 1) : s[i + 1] = c}
    IN  IF hits = {} THEN Npos ELSE CHOOSE i \in hits : \A j \in hits : i <= j

(* std::string::substr(pos, n): throws when pos > size, else at most n     *)
(* characters from pos.                                                   *)
Substr(s, pos, n) ==
    IF pos > Len(s) THEN OutOfRange
    ELSE SubSeq(s, pos + 1, IF n < Len(s) - pos THEN pos + n ELSE Len(s))

(* boost::lexical_cast<int>: an optional sign then one or more digits,    *)
(* the whole string; the alphabet's only digit is "1".                    *)
LexicalCastInt(t) ==
    LET sign   == IF t # <<>> /\ t[1] \in {"-", "+"} THEN 1 ELSE 0
        digits == SubSeq(t, sign + 1, Len(t))
        val    == LET F[i \in 0..Len(digits)] ==
                          IF i = 0 THEN 0 ELSE 10 * F[i - 1] + 1
                  IN  F[Len(digits)]
    IN  IF digits = <<>> \/ \E i \in DOMAIN digits : digits[i] # "1" THEN NoGroup
        ELSE IF t[1] = "-" THEN -val ELSE val

(* get_filename: the key is what follows the second '/' up to '?', the    *)
(* namespace what follows the first '-' of the URL up to that '/'.         *)
GetFilenameFromZero(s) ==
    LET begin == SizeAdd(Find(s, "/", 0), 1)
        end   == Find(s, "?", begin)
        nsEnd == SizeSub(begin, 1)
        dash  == Find(s, "-", 0)
        nsBeg == SizeAdd(dash, 1)
    IN  [filename |-> Substr(s, begin, SizeSub(end, begin)),
         ns |-> IF dash = Npos THEN Default
                ELSE IF nsBeg < nsEnd THEN Substr(s, nsBeg, SizeSub(nsEnd, nsBeg))
                ELSE <<>>]
GetFilename(s) ==
    LET begin == SizeAdd(Find(s, "/", 1), 1)
        end   == Find(s, "?", begin)
        nsEnd == SizeSub(begin, 1)
        dash  == Find(s, "-", 0)
        nsBeg == SizeAdd(dash, 1)
    IN  [filename |-> Substr(s, begin, SizeSub(end, begin)),
         ns |-> IF dash = Npos THEN Default
                ELSE IF nsBeg < nsEnd THEN Substr(s, nsBeg, SizeSub(nsEnd, nsBeg))
                ELSE <<>>]

(* prepare_session: the group token lies between the second and third '/' *)
(* and the key runs from the third '/' to '?'; a token that is not an int *)
(* leaves the session without groups.                                     *)
PrepareSessionNoSkip(s) ==
    LET bg == SizeAdd(Find(s, "/", 1), 1)
        eg == Find(s, "/", bg)
        bf == eg
        ef == Find(s, "?", bf)
    IN  [group |-> LexicalCastInt(Substr(s, bg, SizeSub(eg, bg))),
         key   |-> Substr(s, bf, SizeSub(ef, bf))]
PrepareSession(s) ==
    LET bg == SizeAdd(Find(s, "/", 1), 1)
        eg == Find(s, "/", bg)
        bf == SizeAdd(eg, 1)
        ef == Find(s, "?", bf)
    IN  [group |-> LexicalCastInt(Substr(s, bg, SizeSub(eg, bg))),
         key   |-> Substr(s, bf, SizeSub(ef, bf))]

(***************************************************************************)
(* The URLs parsed, by the grammar of the routes.                          *)
(***************************************************************************)
Opt(sep, t) == IF t = <<>> THEN <<>> ELSE <<sep>> \o t

(* /<verb>[-<namespace>]/<file>[?<query>]   (upload, delete) *)
UploadUrl(p) == <<"/">> \o p.verb \o Opt("-", p.ns) \o <<"/">> \o p.file
                \o Opt("?", p.query)
(* /<verb>/<group>/<file>[?<query>]          (get, download-info) *)
ReadUrl(p) == <<"/">> \o p.verb \o <<"/">> \o p.group \o <<"/">> \o p.file
              \o Opt("?", p.query)
(* /<verb>/<group>: a read URL without the file segment *)
ShortReadUrl(p) == <<"/">> \o p.verb \o <<"/">> \o p.group
(* /<verb>[-<namespace>]: an upload URL without the file segment *)
ShortUploadUrl(p) == <<"/">> \o p.verb \o Opt("-", p.ns)

Forms == {"upload", "read", "short_read", "short_upload"}

VARIABLE url   \* [form, verb, ns, group, file, query]

Url == CASE url.form = "upload" -> UploadUrl(url)
         [] url.form = "read"   -> ReadUrl(url)
         [] url.form = "short_read" -> ShortReadUrl(url)
         [] OTHER               -> ShortUploadUrl(url)

Init == url \in [form: Forms, verb: Tokens, ns: Tokens \cup {<<>>},
                 group: GroupTokens, file: Files, query: Tokens \cup {<<>>}]
Next == UNCHANGED url
Spec == Init /\ [][Next]_url

(* Besides the types: no substr of get_filename or prepare_session throws  *)
(* std::out_of_range, on any URL: every start position is a find() result *)
(* plus one, which lies within the URL or wraps from npos to 0 (on         *)
(* /<verb>/<group> prepare_session's eg is npos and bf = eg + 1 is 0).     *)
TypeOK ==
    /\ Url \in Seq({"/", "-", "?", "a", "1", "+"}) /\ Len(Url) < Npos
    /\ GetFilename(Url).filename # OutOfRange
    /\ GetFilename(Url).ns # OutOfRange
    /\ PrepareSession(Url).key # OutOfRange

NoDash(t) == \A i \in DOMAIN t : t[i] # "-"

(* get_filename on an upload or delete URL whose file and query hold no  *)
(* '-' yields the file as key and the namespace token, or "default" when  *)
(* the verb carries none, as spec 4.4 resolves them from the path; the    *)
(* npos arithmetic of the missing '?' and '-' is part of it.              *)
GetFilenameFollowsGrammar ==
    url.form = "upload" /\ NoDash(url.file) /\ NoDash(url.query)
      => GetFilename(Url) = [filename |-> url.file,
                             ns |-> IF url.ns = <<>> THEN Default ELSE url.ns]

(* The namespace comes from the verb segment only: an upload URL without *)
(* a namespace token resolves to "default", as get_filename's own branch *)
(* for a URL without '-' intends, whatever the file name holds.           *)
NamespaceFromVerbOnly ==
    url.form = "upload" /\ url.ns = <<>> => GetFilename(Url).ns = Default

(* prepare_session on a read URL yields the group token's integer and the *)
(* file as key (spec 4.3), whatever '/' or '-' the file holds.            *)
PrepareSessionFollowsGrammar ==
    url.form = "read"
      => PrepareSession(Url) = [group |-> LexicalCastInt(url.group),
                                key |-> url.file]
=============================================================================

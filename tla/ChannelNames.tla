---------------------------- MODULE ChannelNames ----------------------------
(***************************************************************************)
(* What the server makes of the name of a channel, to find it in a guide   *)
(* (services/xmltv.rs) or among the logos (services/logo_catalog.rs).      *)
(*                                                                         *)
(* A name is the sequence of its words and marks, in small letters without *)
(* accents: <<"fr", "-", "tf1", "+", "1", "hd">>. The dot, the plus and    *)
(* the ampersand touch their neighbours, the other marks stand between     *)
(* spaces, the brackets around a country; "*" is any decoration. The keys, *)
(* which the code glues, stay sequences of words. No name, or none left,   *)
(* is the empty sequence.                                                  *)
(***************************************************************************)
EXTENDS Naturals, Sequences

CONSTANTS TwoLetters, ThreeLetters      \* the words that have as many, and no digit

Marks     == {".", "-", ":", "|", "+", "&", "*", "[", "]", "(", ")"}
IsWord(w) == w \notin Marks
\* The words of a name that are none of these.
Without(s, words) ==
    LET upTo[n \in 0 .. Len(s)] ==
            IF n = 0 THEN <<>>
            ELSE IF s[n] \in words THEN upTo[n - 1] ELSE Append(upTo[n - 1], s[n])
    IN  upTo[Len(s)]
WordsOf(raw) == Without(raw, Marks)
Last(s)   == s[Len(s)]
ButLast(s) == SubSeq(s, 1, Len(s) - 1)
From(s, n) == SubSeq(s, n, Len(s))

(***************************************************************************)
(* Keys of a guide.                                                        *)
(***************************************************************************)
CountryCodes == {"fr", "be", "ch", "lu", "mc", "ca", "uk", "us", "es", "it", "de", "pt", "nl"}
LooseNoise   == {"channel", "tv", "hd", "fhd", "uhd", "sd", "4k", "hevc"}
Quality      == {"fhd", "uhd", "hd", "sd", "hq", "lq", "4k", "8k", "hevc", "h265", "h264",
                 "1080p", "1080", "720p", "720", "50fps", "60fps", "backup", "raw", "vip",
                 "multi"}

normalize_key(raw) == WordsOf(raw)

\* Apart from the others: « dans leur propre espace de noms ».
loose_index_key(key) == IF key = <<>> THEN <<>> ELSE <<"~">> \o key
loose_key(raw) ==
    LET ws    == WordsOf(raw)
        named == IF Len(ws) > 1 /\ Last(ws) \in CountryCodes THEN ButLast(ws) ELSE ws
    IN  Without(named, LooseNoise)

\* "FR -", "FR:", "|FR|", "|FR| -", "[FR]": where the prefix ends, 0 without any.
Opens(raw)   == raw # <<>> /\ raw[1] \in {"|", "[", "("}
Has(raw, i, marks) == i <= Len(raw) /\ raw[i] \in marks
PrefixEnd(raw) ==
    LET i     == IF Opens(raw) THEN 2 ELSE 1
        shut  == Has(raw, i + 1, {"|", "]", ")"})
        split == {"-", ":", "|"}
    IN  IF ~Has(raw, i, TwoLetters \cup ThreeLetters) THEN 0
        ELSE IF shut /\ Has(raw, i + 2, split) THEN i + 2
        ELSE IF Has(raw, i + 1, split) \/ (shut /\ Opens(raw)) THEN i + 1 ELSE 0
PrefixOf(raw) == IF Opens(raw) THEN raw[2] ELSE raw[1]

\* The words of quality that end the name go, one after the other.
WithoutQuality(s) ==
    LET kept == {i \in DOMAIN s : \/ s[i] \notin Quality
                                  \/ i > 1 /\ s[i - 1] \in {".", "+", "&"}}
    IN  IF kept = {} THEN <<>>
        ELSE SubSeq(s, 1, CHOOSE i \in kept : \A j \in kept : j <= i)

\* « F3 ALPES » is France 3.
Abbreviated(w) == CASE w = "f2" -> "2" [] w = "f3" -> "3" [] w = "f4" -> "4"
                    [] w = "f5" -> "5" [] OTHER -> ""
WithFrance(s) ==
    IF s = <<>> THEN s
    ELSE IF Abbreviated(s[1]) # "" THEN <<"france", Abbreviated(s[1])>> \o Tail(s)
    ELSE IF Len(s) > 1 /\ s[1] = "f" /\ s[2] \in {"2", "3", "4", "5"}
         THEN <<"france">> \o Tail(s) ELSE s

clean_channel_name(raw) ==
    WithFrance(WithoutQuality(Without(From(raw, PrefixEnd(raw) + 1), {":", "|", "*", "[", "]"})))

name_keys(name) ==
    LET base    == normalize_key(clean_channel_name(name))
        country == IF PrefixEnd(name) = 0 THEN "fr" ELSE PrefixOf(name)
    IN  <<normalize_key(name)>>
            \o IF base = <<>> THEN <<>> ELSE <<base, Append(base, country)>>

\* "+1", and not "+10".
IsPlusOne(raw, i) == i \in 1 .. Len(raw) - 1 /\ raw[i] = "+" /\ raw[i + 1] = "1"
HasPlusOne(raw)   == \E i \in DOMAIN raw : IsPlusOne(raw, i)
replace_plus_one(raw) ==
    LET upTo[n \in 0 .. Len(raw)] ==
            IF n = 0 THEN <<>>
            ELSE IF IsPlusOne(raw, n) \/ IsPlusOne(raw, n - 1) THEN upTo[n - 1]
            ELSE Append(upTo[n - 1], raw[n])
    IN  upTo[Len(raw)]

(***************************************************************************)
(* Keys of a logo.                                                         *)
(***************************************************************************)
Noise == {"fhd", "uhd", "hd", "sd", "4k", "8k", "hdr", "hevc", "h264", "h265", "1080p",
          "720p", "50fps", "fps", "raw", "backup", "vip", "multi", "vf", "vo", "vostfr"}
Folders == [fr |-> "france", be |-> "belgium", ch |-> "switzerland",
            uk |-> "united-kingdom", gb |-> "united-kingdom", us |-> "united-states",
            ca |-> "canada", de |-> "germany", es |-> "spain", it |-> "italy",
            pt |-> "portugal", nl |-> "netherlands"]

\* Two letters after marks at most, then a space or a mark.
FirstWord(name) ==
    LET ws == {i \in DOMAIN name : IsWord(name[i])}
    IN  IF ws = {} THEN 0 ELSE CHOOSE i \in ws : \A j \in ws : i <= j
CountryEnd(name) ==
    LET i == FirstWord(name)
    IN  IF i # 0 /\ i < Len(name) /\ name[i] \in TwoLetters /\ name[i + 1] \notin {".", "+", "&", "]", ")"}
        THEN i ELSE 0
country_folder_for(name) ==
    LET i == CountryEnd(name)
    IN  IF i # 0 /\ name[i] \in DOMAIN Folders THEN Folders[name[i]] ELSE "france"

tokens(name) ==
    LET i    == CountryEnd(name)
        rest == IF i # 0 /\ name[i] \in DOMAIN Folders THEN From(name, i + 1) ELSE name
        said == [j \in DOMAIN rest |-> CASE rest[j] = "+" -> "plus" [] rest[j] = "&" -> "and"
                                         [] OTHER -> rest[j]]
    IN  Without(said, Marks \cup Noise)

\* The country at the end of a file name goes: rmc-sport-2-fr.png is rmc-sport-2.
key_from_file_name(file) ==
    IF Len(file) > 1 /\ Last(file) \in TwoLetters THEN ButLast(file) ELSE file
=============================================================================

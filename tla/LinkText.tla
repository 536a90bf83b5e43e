------------------------------- MODULE LinkText -------------------------------
(***************************************************************************)
(* LinkFormatParser.c, character by character: the loop of parseLinkFormat *)
(* over the semicolons of a payload, what it takes apart with strchr and   *)
(* by length, and the same functions on a Uri-Query.  LinkFormat says what *)
(* the rest of the broker relies on; MatchesGrammar ties the two together. *)
(* A text is a sequence of characters and has no NUL.                      *)
(***************************************************************************)
EXTENDS LinkFormat, FiniteSets, SequencesExt

CONSTANTS
    Frames,     \* how the texts begin and end
    Alphabet,   \* the characters that stand in between
    MaxLength,  \* how many of those at most
    Parent,     \* uri of the resource that the POST addresses
    CtMax,      \* 65535 in the code
    IntMod      \* 2^32 in the code: the numbers of an int, modulo which atoi works

(* Two letters for names, two for the parent.                              *)
Letters == {"c", "t", "p", "s"}
Digits == {"0", "1", "9"}
Value == [d \in Digits |-> CASE d = "0" -> 0 [] d = "1" -> 1 [] d = "9" -> 9]
Word == Letters \cup Digits \cup {"-"}        \* isalnum, or '-'
Quote == "q"
Semicolon == ";"
Comma == ","

ASSUME LinkTextAssumption ==
    /\ Cts = 0 .. CtMax
    /\ Frames \subseteq [head : Seq(STRING), end : Seq(STRING)]
    /\ Alphabet \subseteq STRING /\ Parent \in Seq(STRING)
    /\ MaxLength \in Nat /\ CtMax \in Nat /\ IntMod \in Nat \ {0}

Framed(f, text) == f.head \o text \o f.end
Texts == {Framed(f, text) :
              f \in Frames, text \in UNION {[1 .. n -> Alphabet] : n \in 0 .. MaxLength}}

VARIABLES
    str,        \* the payload
    at,         \* where parseLinkFormat is
    last_counter, counter,      \* the two semicolons; 0 is the start of the text
    resource,   \* new_resource: whether it is made, uri and link_attr
    status,     \* what parseLinkFormat returns
    early       \* a byte was written in front of a buffer
vars == <<str, at, last_counter, counter, resource, status, early>>

-------------------------------------------------------------------------------
(* strchr from the i-th character on; 0 is NULL.                           *)
StrChr(s, c, i) ==
    LET found == {j \in i .. Len(s) : s[j] = c}
    IN  IF found = {} THEN 0 ELSE CHOOSE j \in found : \A k \in found : j <= k

OptionValidation(s) ==
    IF Len(s) < 3 \/ s[1] = "=" \/ s[Len(s)] = "=" THEN 0
    ELSE Cardinality({i \in DOMAIN s : s[i] = "="})

RestrictedTo(s, chars) == \A i \in DOMAIN s : s[i] \in chars

(* A variant of ParseOption that looks at the name only.                   *)
ParseOptionAnyValue(s) ==
    LET eq == StrChr(s, "=", 1)
        raw == SubSeq(s, eq + 1, Len(s))
        opened == IF raw[1] = Quote THEN Tail(raw) ELSE raw
    IN  IF OptionValidation(s) # 1 THEN [ok |-> FALSE, early |-> FALSE]
        ELSE [ok |-> RestrictedTo(SubSeq(s, 1, eq - 1), Word), early |-> FALSE,
              name |-> SubSeq(s, 1, eq - 1), value |-> opened]

(* parseOption: a leading quote is skipped, a last one is overwritten by   *)
(* the end of the string.  If the only character after the equals sign is  *)
(* a quote, it is skipped and data[-1] is overwritten.                     *)
ParseOption(s) ==
    LET eq == StrChr(s, "=", 1)
        raw == SubSeq(s, eq + 1, Len(s))
        opened == IF raw[1] = Quote THEN Tail(raw) ELSE raw
        closes == raw[Len(raw)] = Quote
        type == SubSeq(s, 1, eq - 1)
        data == IF closes /\ opened # <<>> THEN Front(opened) ELSE opened
    IN  IF OptionValidation(s) # 1 THEN [ok |-> FALSE, early |-> FALSE]
        ELSE IF ~ RestrictedTo(type, Word) THEN [ok |-> FALSE, early |-> FALSE]
        ELSE [ok |-> RestrictedTo(data, Word), early |-> closes /\ opened = <<>>,
              name |-> type, value |-> data]

(* A variant of CalPathSize that lets a path end in a slash.               *)
CalPathSizeSlash(s) ==
    IF Len(s) > 2 /\ s[1] = "<" /\ s[2] # "/" /\ s[Len(s)] = ">" THEN Len(s) - 2 ELSE 0

CalPathSize(s) ==
    IF /\ Len(s) > 2 /\ s[1] = "<" /\ s[2] # "/"
       /\ s[Len(s) - 1] # "/" /\ s[Len(s)] = ">"
    THEN Len(s) - 2
    ELSE 0

ParsePath(s) == CalPathSize(s) > 0 /\ RestrictedTo(SubSeq(s, 2, Len(s) - 1), Word \cup {"/"})

-------------------------------------------------------------------------------
NoResource == [is |-> "null", uri |-> <<>>, link_attr |-> <<>>]

Init ==
    /\ str \in Texts
    /\ at = "check"
    /\ last_counter = 0 /\ counter = 0
    /\ resource = NoResource
    /\ status = 0
    /\ early = FALSE

Return(result) == at' = "returned" /\ status' = result
Counters == <<last_counter, counter>>

(* The error checker, and the first strchr.                                *)
Check ==
    /\ at = "check"
    /\ IF StrChr(str, Comma, 1) # 0 \/ StrChr(str, Semicolon, 1) \in {0, 1}
       THEN Return(0) /\ UNCHANGED counter
       ELSE at' = "element" /\ counter' = StrChr(str, Semicolon, 1) /\ UNCHANGED status
    /\ UNCHANGED <<str, last_counter, resource, early>>

(* pathRegister on what stands in front of the first semicolon.            *)
FirstElement ==
    LET chunk == SubSeq(str, 1, counter - 1)
    IN  /\ at = "element" /\ last_counter = 0
        /\ IF ParsePath(chunk)
           THEN /\ resource' = [is |-> "made", link_attr |-> <<>>,
                                uri |-> Parent \o <<"/">> \o SubSeq(chunk, 2, Len(chunk) - 1)]
                /\ at' = "next" /\ UNCHANGED status
           ELSE Return(0) /\ UNCHANGED resource
        /\ UNCHANGED <<str, Counters, early>>

(* optionRegister, and what parseLinkFormat does when it fails.  The new   *)
(* attribute comes first (coap_add_attr).                                  *)
OptionRegister(chunk) ==
    LET option == ParseOption(chunk)
    IN  /\ resource' = IF option.ok
                       THEN [resource EXCEPT !.link_attr =
                                 <<[name |-> option.name, value |-> option.value]>> \o @]
                       ELSE [resource EXCEPT !.is = "freed"]
        /\ early' = (early \/ option.early)

BetweenElement ==
    LET chunk == SubSeq(str, last_counter + 1, counter - 1)
    IN  /\ at = "element" /\ last_counter # 0
        /\ OptionRegister(chunk)
        /\ IF ParseOption(chunk).ok THEN at' = "next" /\ UNCHANGED status ELSE Return(0)
        /\ UNCHANGED <<str, Counters>>

(* The end of the loop's body: another semicolon, or the last element.     *)
NextElement ==
    LET pch == StrChr(str, Semicolon, counter + 1)
    IN  /\ at = "next" /\ pch # 0
        /\ last_counter' = counter /\ counter' = pch
        /\ at' = "element"
        /\ UNCHANGED <<str, resource, status, early>>

LastElement ==
    LET chunk == SubSeq(str, counter + 1, Len(str))
    IN  /\ at = "next" /\ StrChr(str, Semicolon, counter + 1) = 0
        /\ OptionRegister(chunk)
        /\ Return(IF ParseOption(chunk).ok THEN 1 ELSE 0)
        /\ UNCHANGED <<str, Counters>>

(* The write in front of the buffer may end the process.                   *)
Abort ==
    /\ early /\ at # "aborted"
    /\ at' = "aborted"
    /\ UNCHANGED <<str, Counters, resource, status, early>>

Finished == at \in {"returned", "aborted"} /\ UNCHANGED vars

Next == Check \/ FirstElement \/ BetweenElement \/ NextElement \/ LastElement \/ Abort \/ Finished

Spec == Init /\ [][Next]_vars

-------------------------------------------------------------------------------
(* What the broker does with the resource.                                 *)

(* A variant of FindAttr that finds the attribute that was added first.    *)
FindAttrOldest(name) ==
    LET found == {i \in DOMAIN resource.link_attr : resource.link_attr[i].name = name}
    IN  IF found = {} THEN 0 ELSE CHOOSE i \in found : \A j \in found : i >= j

(* coap_find_attr: the first in the list.                                  *)
FindAttr(name) ==
    LET found == {i \in DOMAIN resource.link_attr : resource.link_attr[i].name = name}
    IN  IF found = {} THEN 0 ELSE CHOOSE i \in found : \A j \in found : i <= j

(* The number that the first n digits make, for each n.                    *)
Decimal(s) ==
    LET number[n \in 0 .. Len(s)] == IF n = 0 THEN 0 ELSE 10 * number[n - 1] + Value[s[n]]
    IN  number[Len(s)]

(* atoi: the low bits of the number as a signed int.                       *)
Atoi(s) ==
    LET low == Decimal(s) % IntMod
    IN  IF 2 * low >= IntMod THEN low - IntMod ELSE low

(* The ct of a new topic, as hnd_post_broker reads it.                     *)
CtOfResource ==
    LET i == FindAttr(<<"c", "t">>)
        value == resource.link_attr[i].value
    IN  IF i = 0 THEN NoCt
        ELSE IF RestrictedTo(value, Digits) /\ Atoi(value) \in 0 .. CtMax THEN Atoi(value)
        ELSE BadCt

(* -1: it cannot be split, and nothing is allocated for its parts.         *)
ParseOptionURIQuery(query) ==
    IF OptionValidation(query) # 1 THEN -1 ELSE IF ParseOption(query).ok THEN 1 ELSE 0

(* hnd_get_broker: whether a query counts as found.                        *)
FoundBy(query) ==
    LET option == ParseOption(query)
    IN  /\ ParseOptionURIQuery(query) = 1
        /\ FindAttr(option.name) # 0
        /\ resource.link_attr[FindAttr(option.name)].value = option.value

(* What an observable resource's link ends in.                             *)
Obs == <<Semicolon, "o", "b", "s">>

(* A variant of CalculateResourceLF that forgets the leading slash.        *)
CalculateResourceLFNoSlash ==
    LET attrs == resource.link_attr
        size[n \in 0 .. Len(attrs)] ==
            IF n = 0 THEN Len(resource.uri) + 2
            ELSE size[n - 1] + Len(attrs[n].name) + Len(attrs[n].value) + 2
    IN  size[Len(attrs)] + Len(Obs)

(* calculateResourceLF, coap_print_link of an observable resource: the     *)
(* size of the uri with the first n attributes, and their text.            *)
CalculateResourceLF ==
    LET attrs == resource.link_attr
        size[n \in 0 .. Len(attrs)] ==
            IF n = 0 THEN Len(resource.uri) + 3
            ELSE size[n - 1] + Len(attrs[n].name) + Len(attrs[n].value) + 2
    IN  size[Len(attrs)] + Len(Obs)
PrintLink ==
    LET attrs == resource.link_attr
        text[n \in 0 .. Len(attrs)] ==
            IF n = 0 THEN <<"<", "/">> \o resource.uri \o <<">">>
            ELSE text[n - 1] \o <<Semicolon>> \o attrs[n].name \o <<"=">> \o attrs[n].value
    IN  text[Len(attrs)] \o Obs

-------------------------------------------------------------------------------
(* The texts between the semicolons, and what each is.                     *)
ChunkTexts(s) ==
    LET ends == {0, Len(s) + 1} \cup {i \in DOMAIN s : s[i] = Semicolon}
        Cut(i) == CHOOSE e \in ends : Cardinality({d \in ends : d < e}) = i
    IN  [i \in 1 .. Cardinality(ends) - 1 |-> SubSeq(s, Cut(i - 1) + 1, Cut(i) - 1)]

IsPath(chunk) ==
    LET w == SubSeq(chunk, 2, Len(chunk) - 1)
    IN  /\ chunk = <<"<">> \o w \o <<">">>
        /\ w # <<>> /\ w[1] # "/" /\ Last(w) # "/"
        /\ RestrictedTo(w, Word \cup {"/"})

(* A name, an equals sign and a word with a quote before it, after it, on  *)
(* both sides, or none; something follows the equals sign.                 *)
Quotes == {<<>>, <<Quote>>}
Spells(chunk, a) ==
    /\ a.name # <<>> /\ RestrictedTo(a.name \o a.value, Word)
    /\ \E open, close \in Quotes :
          /\ chunk = a.name \o <<"=">> \o open \o a.value \o close
          /\ open \o a.value \o close # <<>>
CutAt(chunk, i, j, k) == [name |-> SubSeq(chunk, 1, i - 1), value |-> SubSeq(chunk, j, k)]
Attributes(chunk) ==
    {a \in {CutAt(chunk, i, j, k) : i \in DOMAIN chunk, j \in DOMAIN chunk, k \in DOMAIN chunk} :
        Spells(chunk, a)}

NumberOrBad(value) ==
    IF RestrictedTo(value, Digits) /\ Decimal(value) <= CtMax THEN Decimal(value) ELSE BadCt

ChunkOf(chunk) ==
    IF \E i \in DOMAIN chunk : chunk[i] = Comma THEN [kind |-> "comma", path |-> <<>>, ct |-> NoCt]
    ELSE IF IsPath(chunk)
    THEN [kind |-> "path", path |-> SubSeq(chunk, 2, Len(chunk) - 1), ct |-> NoCt]
    ELSE IF Attributes(chunk) = {} THEN [kind |-> "malformed", path |-> <<>>, ct |-> NoCt]
    ELSE LET a == CHOOSE a \in Attributes(chunk) : TRUE
         IN  IF a.name = <<"c", "t">>
             THEN [kind |-> "ct", path |-> <<>>, ct |-> NumberOrBad(a.value)]
             ELSE [kind |-> "attribute", path |-> <<>>, ct |-> NoCt]

LinkOf(s) == [i \in DOMAIN ChunkTexts(s) |-> ChunkOf(ChunkTexts(s)[i])]

-------------------------------------------------------------------------------
TypeOK ==
    /\ at \in {"check", "element", "next", "returned", "aborted"}
    /\ 0 <= last_counter /\ last_counter <= counter /\ counter <= Len(str)
    /\ resource.is \in {"null", "made", "freed"}
    /\ \A i \in DOMAIN resource.link_attr :
          /\ resource.link_attr[i].name # <<>>
          /\ RestrictedTo(resource.link_attr[i].name \o resource.link_attr[i].value, Word)
    /\ status \in {0, 1} /\ early \in BOOLEAN

(* An int can hold the ct.  atoi wraps larger numbers, which may then be   *)
(* in the range again.                                                     *)
CtFits ==
    LET i == FindAttr(<<"c", "t">>)
        value == resource.link_attr[i].value
    IN  i # 0 /\ RestrictedTo(value, Digits) => Decimal(value) < IntMod \div 2

(* What the loop over semicolons accepts, makes, frees and leaves in the   *)
(* resource is what LinkFormat says of the chunks: the broker's handlers   *)
(* rely on no more than that.                                              *)
MatchesGrammar ==
    LET link == LinkOf(str)
    IN  at = "returned" =>
            /\ resource.is = ParseLinkFormat(link)
            /\ status = (IF ParseLinkFormat(link) = "made" THEN 1 ELSE 0)
            /\ status = 1 =>
                  /\ resource.uri = Parent \o <<"/">> \o link[1].path
                  /\ CtFits => CtOfResource = CtAttribute(link)

(* A topic is found by what it was described with: the text of each        *)
(* attribute, as it stood in the payload of the POST, is a query that      *)
(* finds the topic, unless a later attribute has the same name.            *)
FoundByItsText ==
    LET chunks == ChunkTexts(str)
        Name(i) == SubSeq(chunks[i], 1, StrChr(chunks[i], "=", 1))
    IN  at = "returned" /\ status = 1 =>
            \A i \in 2 .. Len(chunks) :
                (\A j \in i + 1 .. Len(chunks) : Name(j) # Name(i)) => FoundBy(chunks[i])

(* hnd_get_broker prints a link into a buffer of the size that             *)
(* calculateResourceLF has counted: the link fills it, so nothing is cut   *)
(* off and nothing unwritten is sent.                                      *)
LinkFillsBuffer == resource.is = "made" => Len(PrintLink) = CalculateResourceLF
===============================================================================

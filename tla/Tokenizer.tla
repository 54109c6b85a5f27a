------------------------------- MODULE Tokenizer -------------------------------
(***************************************************************************)
(* QwenTokenizer (src/tokenizer.cpp): from_json and then encode of a text, *)
(* one loop iteration a step.  A text is a sequence of bytes; a piece is   *)
(* the sequence of the code points that stand for its bytes, so that what  *)
(* append_utf8 and decode_codepoint do is left out.                        *)
(*                                                                         *)
(* Characters take one byte each.  The regular expression knows their      *)
(* class; of its alternatives the contractions and the line breaks are     *)
(* left out, and of NFC everything but the composition of two characters.  *)
(***************************************************************************)
EXTENDS Integers, Sequences, SequencesExt

CONSTANTS
  Bytes,        \* 256
  Direct,       \* the bytes that are their own code point
  Class,        \* of a byte: "L" (letter or mark), "N", "S" (space), "P" (other)
  Compose,      \* the pairs of bytes NFC composes, to what
  VocabularySize,  \* tokenizer_vocabulary_size
  Jsons,        \* the resources: vocab, added_tokens and merges, as sequences
  Texts

Byte == 0..Bytes - 1
Piece == Seq(Nat)
Entry == [content : Piece, id : Int]

ASSUME TokenizerAssumption ==
  /\ Bytes \in Nat /\ VocabularySize \in Nat /\ Direct \subseteq Byte
  /\ Class \in [Byte -> {"L", "N", "S", "P"}]
  /\ \A pair \in DOMAIN Compose : Compose[pair] \in Byte
ASSUME InputAssumption ==
  /\ Texts \subseteq Seq(Byte)
  /\ \A j \in Jsons : /\ j.vocab \in Seq(Entry) /\ j.added_tokens \in Seq(Entry)
                      /\ j.merges \in Seq(Piece \X Piece)

VARIABLES
  json, text,
  pieces, token_ids, merge_ranks, added_tokens,
  pc,
  cursor,
  special,      \* the added token that ends the segment, or none (<<>>)
  pretokens,    \* of the segment, still to do
  symbols,      \* of the pretoken
  output,
  result        \* "none", "ok" or the kind of error

tokenizerVars == <<pieces, token_ids, merge_ranks, added_tokens>>
vars == <<json, text, tokenizerVars, pc, cursor, special, pretokens, symbols, output, result>>

Init ==
  /\ json \in Jsons /\ text \in Texts
  /\ pieces = <<>> /\ token_ids = <<>> /\ merge_ranks = <<>> /\ added_tokens = <<>>
  /\ pc = "json" /\ cursor = 1 /\ special = <<>> /\ pretokens = <<>> /\ symbols = <<>>
  /\ output = <<>> /\ result = "none"

Goto(label) == pc' = label
Return(kind) == pc' = "returned" /\ result' = kind

------------------------------------------------------------------------------
(* from_json *)

vocab_valid(vocab) ==
  /\ \A n \in DOMAIN vocab : vocab[n].id \in 0..VocabularySize - 1
  /\ \A m, n \in DOMAIN vocab : m # n => vocab[m].id # vocab[n].id

observed(j) == {e.id : e \in Range(j.vocab) \cup Range(j.added_tokens)}

json_valid(j) ==
  /\ vocab_valid(j.vocab)
  /\ \A n \in DOMAIN j.added_tokens : j.added_tokens[n].id \in 0..VocabularySize - 1
  /\ observed(j) = 0..VocabularySize - 1
  /\ \A n \in DOMAIN j.merges : j.merges[n][1] # <<>> /\ j.merges[n][2] # <<>>

(* An added token replaces any entry before it; of the merges and of the   *)
(* vocabulary the first entry for a key counts.                            *)
Pieces(j) ==
  LET entries == j.vocab \o j.added_tokens IN
  [id \in 0..VocabularySize - 1 |->
     entries[Max({n \in DOMAIN entries : entries[n].id = id})].content]
TokenIds(j) ==
  LET places(entries, piece) == {n \in DOMAIN entries : entries[n].content = piece} IN
  [piece \in {e.content : e \in Range(j.vocab) \cup Range(j.added_tokens)} |->
     IF places(j.added_tokens, piece) # {}
     THEN j.added_tokens[Max(places(j.added_tokens, piece))].id
     ELSE j.vocab[Min(places(j.vocab, piece))].id]
MergeRanks(j) ==
  [pair \in Range(j.merges) |-> Min({n \in DOMAIN j.merges : j.merges[n] = pair})]

(* What sort may make of the added tokens: those of one length in any order. *)
longest_first(tokens) ==
  LET places == DOMAIN tokens IN
  {sorted \in {[n \in places |-> tokens[p[n]]] : p \in Bijection(places, places)} :
     \A m, n \in places : m < n => Len(sorted[m].content) >= Len(sorted[n].content)}

from_json ==
  /\ pc = "json"
  /\ IF json_valid(json)
     THEN /\ pieces' = Pieces(json) /\ token_ids' = TokenIds(json)
          /\ merge_ranks' = MergeRanks(json)
          /\ added_tokens' \in longest_first(json.added_tokens)
          /\ Goto("scan") /\ UNCHANGED result
     ELSE Return("corrupt") /\ UNCHANGED tokenizerVars
  /\ UNCHANGED <<json, text, cursor, special, pretokens, symbols, output>>

------------------------------------------------------------------------------
(* The byte-level alphabet *)

(* Fault: the substitutes are counted with the bytes.                      *)
byte_encoder_shifted(byte) == IF byte \in Direct THEN byte ELSE Bytes + byte

byte_encoder(byte) ==
  IF byte \in Direct THEN byte ELSE Bytes + Cardinality((0..byte - 1) \ Direct)

byte_decoder ==
  LET substitute(byte) == Bytes + Cardinality((0..byte - 1) \ Direct)
  IN [point \in Direct \cup {substitute(b) : b \in (0..Bytes - 1) \ Direct} |->
        IF point \in Direct THEN point
        ELSE CHOOSE b \in (0..Bytes - 1) \ Direct : substitute(b) = point]

(* The bytes of some tokens; <<-1>> if a piece has another code point.     *)
decode(tokens) ==
  LET points == FlattenSeq([n \in DOMAIN tokens |-> pieces[tokens[n]]])
  IN IF \A n \in DOMAIN points : points[n] \in DOMAIN byte_decoder
     THEN [n \in DOMAIN points |-> byte_decoder[points[n]]]
     ELSE <<-1>>

------------------------------------------------------------------------------
(* Text before byte pairs *)

Matches(content, position) ==
  /\ position + Len(content) - 1 <= Len(text)
  /\ SubSeq(text, position, position + Len(content) - 1) = content

(* text.find from the cursor on; behind the text if there is none.         *)
Found(content) ==
  Min({n \in cursor..Len(text) : Matches(content, n)} \cup {Len(text) + 1})

(* The first of the added tokens whose first match is not behind others.   *)
FirstSpecial ==
  LET best == {n \in DOMAIN added_tokens :
                 /\ Found(added_tokens[n].content) <= Len(text)
                 /\ \A m \in DOMAIN added_tokens :
                      Found(added_tokens[n].content) <= Found(added_tokens[m].content)}
  IN IF best = {} THEN <<>> ELSE <<added_tokens[Min(best)]>>

normalize_nfc(segment) ==
  LET composed[n \in 0..Len(segment)] ==
        IF n = 0 THEN <<>>
        ELSE LET before == composed[n - 1]  byte == segment[n] IN
             IF before # <<>> /\ <<Last(before), byte>> \in DOMAIN Compose
             THEN Append(Front(before), Compose[<<Last(before), byte>>])
             ELSE Append(before, byte)
  IN composed[Len(segment)]

(* The length of the longest run of a class from a position on.            *)
Run(segment, position, classes) ==
  Max({n \in 0..Len(segment) - position + 1 :
         \A k \in position..position + n - 1 : Class[segment[k]] \in classes})

(* What the regular expression matches at a position.                      *)
MatchLength(segment, position) ==
  LET class == Class[segment[position]]
      letters(p) == Run(segment, p, {"L"})
      others(p) == Run(segment, p, {"P"})
      spaces == Run(segment, position, {"S"})
  IN IF letters(position) > 0 THEN letters(position)
     ELSE IF class \in {"S", "P"} /\ letters(position + 1) > 0 THEN 1 + letters(position + 1)
     ELSE IF class = "N" THEN 1
     ELSE IF others(position) > 0 THEN others(position)
     ELSE IF others(position + 1) > 0 THEN 1 + others(position + 1)
     ELSE IF position + spaces <= Len(segment) /\ spaces > 1 THEN spaces - 1
     ELSE spaces

split_pretokens(segment) ==
  LET split[p \in 1..Len(segment) + 1] ==
        IF p > Len(segment) THEN <<>>
        ELSE <<SubSeq(segment, p, p + MatchLength(segment, p) - 1)>>
               \o split[p + MatchLength(segment, p)]
  IN split[1]

Pretokens(segment) == split_pretokens(normalize_nfc(segment))

(* The next added token, and the segment before it.                        *)
Scan ==
  /\ pc = "scan"
  /\ IF cursor > Len(text) THEN Return("ok") /\ UNCHANGED <<special, pretokens>>
     ELSE /\ special' = FirstSpecial
          /\ pretokens' = Pretokens(SubSeq(text, cursor,
                            IF FirstSpecial = <<>> THEN Len(text)
                            ELSE Found(FirstSpecial[1].content) - 1))
          /\ Goto("segment") /\ UNCHANGED result
  /\ UNCHANGED <<json, text, tokenizerVars, cursor, symbols, output>>

------------------------------------------------------------------------------
(* Byte pairs *)

Pretoken ==
  /\ pc = "segment" /\ pretokens # <<>>
  /\ symbols' = [n \in DOMAIN Head(pretokens) |-> <<byte_encoder(Head(pretokens)[n])>>]
  /\ Goto("merge")
  /\ UNCHANGED <<json, text, tokenizerVars, cursor, special, pretokens, output, result>>

PairAt(s, n) == <<s[n], s[n + 1]>>
RankedPairs(s) == {PairAt(s, n) : n \in 1..Len(s) - 1} \cap DOMAIN merge_ranks
BestPair(s) ==
  CHOOSE pair \in RankedPairs(s) :
    \A other \in RankedPairs(s) : merge_ranks[pair] <= merge_ranks[other]

(* Fault: the occurrences are merged from right to left.                   *)
merge_from_right(s, pair) ==
  LET merged[n \in 0..Len(s)] ==
        IF n = 0 THEN <<>>
        ELSE IF n > 1 /\ PairAt(s, n - 1) = pair
        THEN Append(merged[n - 2], s[n - 1] \o s[n])
        ELSE Append(merged[n - 1], s[n])
  IN merged[Len(s)]

(* All occurrences of a pair, from left to right.                          *)
merge_all(s, pair) ==
  LET merged[n \in 1..Len(s) + 1] ==
        IF n > Len(s) THEN <<>>
        ELSE IF n < Len(s) /\ PairAt(s, n) = pair
        THEN <<s[n] \o s[n + 1]>> \o merged[n + 2]
        ELSE <<s[n]>> \o merged[n + 1]
  IN merged[1]

MergePass ==
  /\ pc = "merge"
  /\ IF Len(symbols) > 1 /\ RankedPairs(symbols) # {}
     THEN symbols' = merge_all(symbols, BestPair(symbols)) /\ UNCHANGED pc
     ELSE Goto("emit") /\ UNCHANGED symbols
  /\ UNCHANGED <<json, text, tokenizerVars, cursor, special, pretokens, output, result>>

Emit ==
  /\ pc = "emit"
  /\ IF Range(symbols) \subseteq DOMAIN token_ids
     THEN /\ output' = output \o [n \in DOMAIN symbols |-> token_ids[symbols[n]]]
          /\ pretokens' = Tail(pretokens)
          /\ Goto("segment") /\ UNCHANGED result
     ELSE Return("corrupt") /\ UNCHANGED <<output, pretokens>>
  /\ UNCHANGED <<json, text, tokenizerVars, cursor, special, symbols>>

(* Fault: go on where the added token begins.                              *)
ResumeAtSpecial ==
  /\ pc = "segment" /\ pretokens = <<>>
  /\ IF special = <<>> THEN Return("ok") /\ UNCHANGED <<output, cursor>>
     ELSE /\ output' = Append(output, special[1].id)
          /\ cursor' = Found(special[1].content)
          /\ Goto("scan") /\ UNCHANGED result
  /\ UNCHANGED <<json, text, tokenizerVars, special, pretokens, symbols>>

SegmentEnds ==
  /\ pc = "segment" /\ pretokens = <<>>
  /\ IF special = <<>> THEN Return("ok") /\ UNCHANGED <<output, cursor>>
     ELSE /\ output' = Append(output, special[1].id)
          /\ cursor' = Found(special[1].content) + Len(special[1].content)
          /\ Goto("scan") /\ UNCHANGED result
  /\ UNCHANGED <<json, text, tokenizerVars, special, pretokens, symbols>>

Next == from_json \/ Scan \/ Pretoken \/ MergePass \/ Emit \/ SegmentEnds

Spec == Init /\ [][Next]_vars

------------------------------------------------------------------------------
(* The reference tokenizer: one merge at a time, the best pair's leftmost  *)
(* occurrence first.                                                       *)
OneMerge(s) ==
  IF RankedPairs(s) = {} THEN s
  ELSE LET n == Min({k \in 1..Len(s) - 1 : PairAt(s, k) = BestPair(s)})
       IN SubSeq(s, 1, n - 1) \o <<s[n] \o s[n + 1]>> \o SubSeq(s, n + 2, Len(s))
Reference(pretoken) ==
  LET after[n \in 0..Len(pretoken)] ==
        IF n = 0 THEN [k \in DOMAIN pretoken |-> <<byte_encoder(pretoken[k])>>]
        ELSE OneMerge(after[n - 1])
  IN after[Len(pretoken)]

(* Added tokens are found where they begin first, and the longest there;   *)
(* the parts of the text: added tokens as records, other segments as such. *)
Parts ==
  LET contents == {t.content : t \in Range(json.added_tokens)}
      starts(p) == {c \in contents : Matches(c, p)}
      longest(p) == CHOOSE c \in starts(p) : \A d \in starts(p) : Len(d) <= Len(c)
      parts[p \in 1..Len(text) + 1] ==
        IF p > Len(text) THEN <<>>
        ELSE LET next == Min({q \in p..Len(text) : starts(q) # {}} \cup {Len(text) + 1})
             IN (IF next = p THEN <<>> ELSE <<[added |-> FALSE, bytes |-> SubSeq(text, p, next - 1)]>>)
                \o (IF next > Len(text) THEN <<>>
                    ELSE <<[added |-> TRUE, bytes |-> longest(next)]>>
                           \o parts[next + Len(longest(next))])
  IN parts[1]

ReferencePart(part) ==
  IF part.added THEN <<token_ids[part.bytes]>>
  ELSE LET pretokens_of == Pretokens(part.bytes)
           symbols_of == FlattenSeq([n \in DOMAIN pretokens_of |-> Reference(pretokens_of[n])])
       IN [n \in DOMAIN symbols_of |-> token_ids[symbols_of[n]]]

(* Merges as training makes them: the parts of a merge are bytes or made   *)
(* by earlier merges, and no piece is made by two.                         *)
Trained ==
  LET made(n) == json.merges[n][1] \o json.merges[n][2]
      known(n) == {made(m) : m \in 1..n - 1}
  IN \A n \in DOMAIN json.merges :
       /\ made(n) \notin known(n)
       /\ \A part \in {json.merges[n][1], json.merges[n][2]} :
            Len(part) = 1 \/ part \in known(n)

(* What from_json does not test: no two tokens have one id, no two added   *)
(* tokens one content, and added tokens are of direct bytes.               *)
Consistent ==
  LET added == Range(json.added_tokens) IN
  /\ \A e, f \in Range(json.vocab) \cup added : e.id = f.id => e.content = f.content
  /\ \A e, f \in added : e.content = f.content => e.id = f.id
  /\ \A e \in added : e.content # <<>> /\ Range(e.content) \subseteq Direct

(* With merges as training makes them, an encoded text has the tokens of   *)
(* the reference, which merges one occurrence at a time, and the added     *)
(* tokens are found leftmost and longest.  (tokenizer.cpp:277-355)         *)
EncodesAsReference ==
  (result = "ok" /\ Trained /\ Consistent) =>
    output = FlattenSeq([n \in DOMAIN Parts |-> ReferencePart(Parts[n])])

(* An encoded text decodes to itself, composed between the added tokens;   *)
(* and with every byte and every merged piece in the vocabulary nothing    *)
(* that was loaded is refused.  (tokenizer.cpp:250-355)                    *)
DecodeInverts ==
  LET composed(part) == IF part.added THEN part.bytes ELSE normalize_nfc(part.bytes)
      complete == /\ \A point \in DOMAIN byte_decoder : <<point>> \in DOMAIN token_ids
                  /\ \A pair \in DOMAIN merge_ranks : pair[1] \o pair[2] \in DOMAIN token_ids
  IN /\ (result = "ok" /\ Consistent) =>
          decode(output) = FlattenSeq([n \in DOMAIN Parts |-> composed(Parts[n])])
     /\ (result = "corrupt" /\ json_valid(json)) => ~complete

(* What encode has before it, the most significant first.                  *)
Left ==
  <<Len(text) + 1 - cursor, IF pc = "scan" THEN 1 ELSE 0, Len(pretokens),
    CASE pc = "segment" -> 2 [] pc = "merge" -> 1 [] OTHER -> 0, Len(symbols)>>
Smaller(a, b) ==
  \E i \in DOMAIN a : a[i] < b[i] /\ \A j \in 1..i - 1 : a[j] = b[j]

(* encode ends: whatever the merges and the added tokens are, each step    *)
(* leaves less to do, as long as no added token is empty.  from_json does  *)
(* not look whether one is, and the cursor would stand still behind it.    *)
(* (tokenizer.cpp:285-353)                                                 *)
EncodeAdvances ==
  [][(pc # "json" /\ \A t \in Range(json.added_tokens) : t.content # <<>>) =>
       pc' = "returned" \/ Smaller(Left', Left)]_vars
=============================================================================

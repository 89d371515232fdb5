------------------------------- MODULE TextPieces -------------------------------
(***************************************************************************)
(* What the studio cuts before it runs: long text into requests a speech   *)
(* family takes (TextChunker.Split), and a recording into windows of       *)
(* speech a recogniser takes (MainWindowViewModel.GroupSegments).          *)
(*                                                                         *)
(* A text is a sequence of characters of five sorts: a letter, a blank, a  *)
(* full stop that ends its sentence (EndsSentence is left out), a line     *)
(* break, and the mark of a speaker ("Speaker 1:", here one character).    *)
(* Samples are counted at a rate of one.                                   *)
(***************************************************************************)
EXTENDS Integers, SequencesExt

CONSTANTS
  MaxText,   \* bound: characters of a text
  Budgets,   \* ChunkBudget
  MaxFound,  \* bound: stretches of speech found
  ClipEnd,   \* samples of the recording
  MinSpan,   \* MinSegmentSpan
  MaxSpan    \* MaxSegmentSpan

ASSUME PiecesAssumption ==
  /\ MaxText \in Nat /\ Budgets \subseteq Nat \ {0}
  /\ MaxFound \in Nat /\ ClipEnd \in Nat
  /\ MaxSpan \in Nat \ {0}

VARIABLES
  text, budget,  \* what Split is given
  segments,      \* what GroupSegments is given, as <<start, end>>
  cut,           \* it returned
  chunks,        \* what Split returned
  groups         \* what GroupSegments returned

piecesVars == <<text, budget, segments, cut, chunks, groups>>

Blank == " "
Break == "/"
Mark == "S"
Stop == "."

Largest(S) == CHOOSE x \in S : \A y \in S : y <= x
Least(S) == CHOOSE x \in S : \A y \in S : x <= y
From(s, i) == SubSeq(s, i, Len(s))
Upto(s, i) == SubSeq(s, 1, i)
Solid(s) == {i \in 1..Len(s) : s[i] # Blank}
Trim(s) == IF Solid(s) = {} THEN << >> ELSE SubSeq(s, Least(Solid(s)), Largest(Solid(s)))
TrimEnd(s) == IF Solid(s) = {} THEN << >> ELSE Upto(s, Largest(Solid(s)))

(* The first place from i on that is, or is not, a character, or the end.  *)
FirstAt(s, c, i) == Least({j \in i..Len(s) : s[j] = c} \cup {Len(s) + 1})
FirstPast(s, c, i) == Least({j \in i..Len(s) : s[j] # c} \cup {Len(s) + 1})

(* What a loop cuts from each place on: its pieces there, and what it cuts *)
(* from the next place on.                                                 *)
CutFrom(next, pieces) ==
  LET from[i \in DOMAIN next] ==
        IF next[i] \in DOMAIN next THEN pieces[i] \o from[next[i]] ELSE pieces[i]
  IN from

Lines(s) ==
  LET end == [i \in 1..(Len(s) + 1) |-> FirstAt(s, Break, i)]
  IN CutFrom([i \in DOMAIN end |-> end[i] + 1],
             [i \in DOMAIN end |-> <<SubSeq(s, i, end[i] - 1)>>])[1]

-----------------------------------------------------------------------------
(* TextChunker.                                                            *)

(* A run of terminators and the blanks after it stay with their sentence.  *)
SplitSentences(s) ==
  LET next == [i \in 1..Len(s) |-> FirstPast(s, Blank, FirstPast(s, Stop, FirstAt(s, Stop, i)))]
  IN IF s = << >> THEN << >>
     ELSE CutFrom(next, [i \in 1..Len(s) |-> <<SubSeq(s, i, next[i] - 1)>>])[1]

(* LastIndexOf counts from 0: a blank in front is no place to cut.         *)
WordEnd(s, most, i) ==
  LET blanks == {j \in (i + 1)..(i + most) : s[j] = Blank}
  IN IF blanks = {} THEN i + most ELSE Largest(blanks)

BreakOnWords(s, most) ==
  LET Fits(i) == Len(s) - i < most
      next == [i \in 1..Len(s) |->
                 IF Fits(i) THEN Len(s) + 1 ELSE FirstPast(s, Blank, WordEnd(s, most, i))]
      Word(i) == Trim(SubSeq(s, i, WordEnd(s, most, i) - 1))
      pieces == [i \in 1..Len(s) |-> IF Fits(i) THEN <<From(s, i)>>
                                     ELSE IF Word(i) = << >> THEN << >> ELSE <<Word(i)>>]
  IN IF s = << >> THEN << >> ELSE CutFrom(next, pieces)[1]

(* The chunk being filled is closed, if there is anything in it.           *)
CloseChunk(prefix, filled) ==
  IF filled.current = << >> THEN filled.done
  ELSE Append(filled.done, prefix \o Trim(filled.current))

(* One sentence joins the chunk being filled, begins another, or is broken.*)
AddSentence(prefix, most, filled, raw) ==
  LET sentence == TrimEnd(raw)
      words == BreakOnWords(Trim(sentence), most)
  IN IF sentence = << >> THEN filled
     ELSE IF Len(sentence) > most
       THEN [done |-> CloseChunk(prefix, filled) \o [i \in 1..Len(words) |-> prefix \o words[i]],
             current |-> << >>]
     ELSE IF filled.current = << >> THEN [done |-> filled.done, current |-> sentence]
     ELSE IF Len(filled.current) + 1 + Len(sentence) > most
       THEN [done |-> CloseChunk(prefix, filled), current |-> sentence]
     ELSE [done |-> filled.done, current |-> filled.current \o <<Blank>> \o sentence]

(* What is filled once the first i sentences were added.                   *)
Filled(prefix, most, sentences) ==
  LET filled[i \in 0..Len(sentences)] ==
        IF i = 0 THEN [done |-> << >>, current |-> << >>]
        ELSE AddSentence(prefix, most, filled[i - 1], sentences[i])
  IN filled

(* Mutant: only the first piece of a line says who speaks.                 *)
SplitLongLineOnceMarked(line, most) ==
  LET bare == Trim(line)
      marked == bare # << >> /\ bare[1] = Mark
      words == BreakOnWords(IF marked THEN Trim(From(bare, 2)) ELSE bare,
                            IF most > 3 THEN most - 2 ELSE 1)
  IN IF words = << >> THEN <<line>>
     ELSE IF marked THEN <<(<<Mark, Blank>> \o words[1])>> \o Tail(words)
     ELSE words

(* The speaker's mark is repeated on every piece, at the pieces' expense.  *)
SplitLongLine(line, most) ==
  LET bare == Trim(line)
      marked == bare # << >> /\ bare[1] = Mark
      prefix == IF marked THEN <<Mark, Blank>> ELSE << >>
      sentences == SplitSentences(IF marked THEN Trim(From(bare, 2)) ELSE bare)
      room == IF most - Len(prefix) > 1 THEN most - Len(prefix) ELSE 1
      pieces == CloseChunk(prefix, Filled(prefix, room, sentences)[Len(sentences)])
  IN IF pieces = << >> THEN <<line>> ELSE pieces

Units(line, most) ==
  IF Trim(line) = << >> THEN << >>
  ELSE IF Len(line) > most THEN SplitLongLine(line, most)
  ELSE <<line>>

(* Lines are joined while they fit.                                        *)
AddUnit(most, joined, unit) ==
  IF joined # << >> /\ Len(Last(joined)) + 1 + Len(unit) <= most
    THEN Append(Front(joined), Last(joined) \o <<Break>> \o unit)
    ELSE Append(joined, unit)

(* What is joined once the first i units were added.                       *)
Joined(most, units) ==
  LET joined[i \in 0..Len(units)] ==
        IF i = 0 THEN << >> ELSE AddUnit(most, joined[i - 1], units[i])
  IN joined

Split(s, most) ==
  LET lines == Lines(s)
      units == FlattenSeq([k \in 1..Len(lines) |-> Units(lines[k], most)])
  IN Joined(most, units)[Len(units)]

-----------------------------------------------------------------------------
(* GroupSegments.                                                          *)

(* A group is cut at the end of the clip, and into windows of the limit.   *)
Windows(start, end) ==
  LET At(k) == start + (k - 1) * MaxSpan
  IN [k \in 1..((end - start + MaxSpan - 1) \div MaxSpan) |->
        <<At(k), IF At(k) + MaxSpan < end THEN At(k) + MaxSpan ELSE end>>]

Clip(end) == IF end < ClipEnd THEN end ELSE ClipEnd

JoinSegment(grown, segment) ==
  IF grown.end - grown.start >= MinSpan \/ segment[2] - grown.start > MaxSpan
    THEN [done |-> grown.done \o Windows(grown.start, Clip(grown.end)),
          start |-> segment[1], end |-> segment[2]]
    ELSE [grown EXCEPT !.end = segment[2]]

(* The group being grown once the first i segments are in it or before it. *)
Grown(segs) ==
  LET grown[i \in 1..Len(segs)] ==
        IF i = 1 THEN [done |-> << >>, start |-> segs[1][1], end |-> segs[1][2]]
        ELSE JoinSegment(grown[i - 1], segs[i])
  IN grown

GroupSegments(segs) ==
  LET last == Grown(segs)[Len(segs)]
  IN IF segs = << >> THEN << >> ELSE last.done \o Windows(last.start, Clip(last.end))

-----------------------------------------------------------------------------

(* A speaker is named where a line begins; speech is found in order, and   *)
(* may run past the clip by the detector's padding.                        *)
Texts == {s \in BoundedSeq({"a", Blank, Stop, Mark, Break}, MaxText) :
            \A i \in 2..Len(s) : s[i] = Mark => s[i - 1] = Break}

Detected == {d \in BoundedSeq((0..ClipEnd) \X (1..(ClipEnd + 1)), MaxFound) :
               /\ \A i \in 1..Len(d) : d[i][1] < d[i][2]
               /\ \A i \in 2..Len(d) : d[i - 1][2] < d[i][1]}

NothingCut == cut = FALSE /\ chunks = << >> /\ groups = << >>
NothingToCut == text = << >> /\ budget = 1 /\ segments = << >> /\ NothingCut

PiecesInit ==
  /\ \/ /\ text \in Texts /\ budget \in Budgets /\ segments = << >>
     \/ /\ text = << >> /\ budget = 1 /\ segments \in Detected
  /\ NothingCut

CutText ==
  /\ text # << >> /\ ~cut
  /\ cut' = TRUE
  /\ chunks' = Split(text, budget)
  /\ UNCHANGED <<text, budget, segments, groups>>

CutSpeech ==
  /\ segments # << >> /\ ~cut
  /\ cut' = TRUE
  /\ groups' = GroupSegments(segments)
  /\ UNCHANGED <<text, budget, segments, chunks>>

PiecesNext == CutText \/ CutSpeech

PiecesSpec == PiecesInit /\ [][PiecesNext]_piecesVars

-----------------------------------------------------------------------------

(* What a line says, without its blanks: each character, and if a speaker  *)
(* is named for it.                                                        *)
Bare(line) == FlattenSeq([i \in 1..Len(line) |-> IF line[i] = Blank THEN << >> ELSE <<line[i]>>])
Named(said, marked) == [i \in 1..Len(said) |-> <<said[i], marked>>]
Said(line) ==
  LET bare == Bare(line)
  IN IF bare # << >> /\ bare[1] = Mark THEN Named(Tail(bare), TRUE) ELSE Named(bare, FALSE)
SaidBy(lines) == FlattenSeq([k \in 1..Len(lines) |-> Said(lines[k])])
LinesOf(pieces) == FlattenSeq([k \in 1..Len(pieces) |-> Lines(pieces[k])])

(* Nothing of a text is lost, doubled or given to another speaker by its   *)
(* cutting, and a chunk keeps to the budget unless the mark of its speaker *)
(* alone leaves no room (TextChunker.Split, SplitLongLine).                *)
ChunksSayTheText ==
  cut =>
    /\ SaidBy(LinesOf(chunks)) = SaidBy(Lines(text))
    /\ \A i \in 1..Len(chunks) :
         \/ Len(chunks[i]) <= budget
         \/ Said(chunks[i]) = << >>
         \/ Len(Said(chunks[i])) = 1 /\ Said(chunks[i])[1][2]

(* Every sample of speech inside the clip is in one window, windows follow *)
(* each other, and none is empty or longer than the limit (GroupSegments). *)
WindowsCoverSpeech ==
  cut =>
    /\ \A i \in 1..Len(segments) : \A t \in segments[i][1]..(Clip(segments[i][2]) - 1) :
         \E j \in 1..Len(groups) : groups[j][1] <= t /\ t < groups[j][2]
    /\ \A j \in 1..Len(groups) : groups[j][2] - groups[j][1] \in 1..MaxSpan
    /\ \A j \in 2..Len(groups) : groups[j - 1][2] <= groups[j][1]

(* Cutting loses nothing: of a text, and of a recording.                   *)
CuttingLosesNothing == ChunksSayTheText /\ WindowsCoverSpeech
================================================================================

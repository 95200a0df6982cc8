----------------------------- MODULE PowerDeck -----------------------------
(***************************************************************************)
(* The power presentation.  xcheck/make_power_deck.py generates it from    *)
(* the results; the maintainer edits a copy by hand and keeps it as BASE;  *)
(* xcheck/deck_edit.py copies BASE to DECK and applies its deltas there,   *)
(* which find slides by position and sentences by their exact wording.     *)
(* One step is one delta.  A slide is abstracted to what the deltas look   *)
(* for: its title, the claims it makes, what its tables show and its page  *)
(* box.  Positions are the code's, from 0.                                 *)
(***************************************************************************)
EXTENDS Naturals, FiniteSets, SequencesExt, Lists

CONSTANTS
  MaxEdits       \* bound: edits by hand, to any of the files

ASSUME PowerDeckAssumption == MaxEdits \in Nat

VARIABLES
  files,         \* file |-> its slides, <<>> when there is none
  csv,           \* the results: activity "combined", then "split" by reads, and
                 \* then "bandwidth" measured as well
  delta,         \* what deck_edit.py is at: copying, a delta, saving, or "idle"
  prs,           \* the presentation in its memory
  edits,         \* edits made by hand
  source,        \* history: the BASE that DECK was last copied from
  deckIs         \* history: "none", "torn" (being written, or left so), a "copy", a
                 \* finished "edit", edited by "hand"

deckVars == <<files, csv, delta, prs, edits, source, deckIs>>

File == {"wattson-power", "base", "deck"}

Claim == {"alone", "estimated", "inference", "overreports"}

-----------------------------------------------------------------------------
(* Slides.                                                                 *)

(* Slides with no table at all, and one whose table has three rows only.   *)
Tables(title) ==
  CASE title \in {"Counts", "TwoQuestions", "Replaces", "Means", "Own"} -> "none"
    [] title = "Flat" -> "short"
    [] OTHER -> "original"

(* says: claims in the wording the deltas look for; own: in other words.   *)
(* id tells slides apart across retitling and copying.                     *)
Plain(id, title) ==
  [id |-> id, title |-> title, says |-> {}, own |-> {}, table |-> Tables(title),
   box |-> title # "Counts", page |-> 0]

Saying(id, title, claims) == [Plain(id, title) EXCEPT !.says = claims]

(* renumber(): every page box shows its slide's position.                  *)
Numbered(s) ==
  [i \in DOMAIN s |-> IF s[i].box THEN [s[i] EXCEPT !.page = i] ELSE s[i]]

(* BASE as committed: the maintainer's twelve slides.                      *)
CommittedSlides == <<
  Plain(0, "Counts"), Saying(1, "TwoQuestions", {"alone", "overreports"}), Plain(2, "WhatWeDid"),
  Plain(3, "SeesWork"), Saying(4, "SeesNot", {"overreports"}),
  Plain(5, "Models"), Plain(6, "Finding"), Plain(7, "BlindTest"), Plain(8, "AllFifty"),
  Saying(9, "Edge", {"alone", "inference", "overreports"}),
  Saying(10, "Licenses", {"overreports"}), Saying(11, "Means", {"estimated"}) >>

Committed == Numbered(CommittedSlides)

(* What make_power_deck.py generates: the language already precise, the    *)
(* bandwidth claim of the second slide spelt differently, and two of the   *)
(* slides that deck_edit.py inserts.                                       *)
GeneratedOpening ==
  << Plain(0, "Counts"), [Plain(1, "TwoQuestions") EXCEPT !.own = {"overreports"}],
     Plain(2, "WhatWeDid") >>

GeneratedPart1 == << Plain(3, "SeesWork"), Saying(4, "SeesNot", {"overreports"}) >>

GeneratedPart2 ==
  << Plain(5, "Models"), Plain(6, "Finding"), Plain(7, "BlindTest"), Plain(8, "AllFifty") >>

GeneratedMixes == << Saying(9, "RealisticEdge", {"inference", "overreports"}) >>

GeneratedClosing ==
  << Saying(10, "Licenses", {"overreports"}), Plain(22, "Anatomy"), Plain(23, "Replaces"),
     Plain(11, "Means") >>

GeneratedSlides ==
  GeneratedOpening \o GeneratedPart1 \o GeneratedPart2 \o GeneratedMixes \o GeneratedClosing

Generated == Numbered(GeneratedSlides)

(* Before the results were split by reads, or the repository as committed. *)
DeckInit ==
  /\ \/ /\ csv = "combined"
        /\ files = [f \in File |-> <<>>]
     \/ /\ csv = "bandwidth"
        /\ files = [f \in File |-> IF f = "base" THEN Committed ELSE <<>>]
  /\ delta = "idle" /\ prs = <<>> /\ edits = 0
  /\ source = <<>> /\ deckIs = "none"

-----------------------------------------------------------------------------
(* make_power_deck.py and the maintainer.                                  *)

(* It reads columns that the split results no longer have, before anything *)
(* else; the file is written last.                                         *)
Generate ==
  /\ csv = "combined"
  /\ files' = [files EXCEPT !["wattson-power"] = Generated]
  /\ UNCHANGED <<csv, delta, prs, edits, source, deckIs>>

(* Reads are recorded apart from total traffic, and a column renamed with  *)
(* it; later RESULTS-bandwidth.csv is added.                               *)
MoreResults ==
  /\ \/ csv = "combined" /\ csv' = "split"
     \/ csv = "split" /\ csv' = "bandwidth"
  /\ UNCHANGED <<files, delta, prs, edits, source, deckIs>>

HandMade(box) == [Plain(30 + edits, "Own") EXCEPT !.box = box]

Swapped(s, k) == [s EXCEPT ![k] = s[k + 1], ![k + 1] = s[k]]

InOtherWords(s, k, claim) ==
  [s EXCEPT ![k].says = @ \ {claim}, ![k].own = @ \cup {claim}]

(* One edit by hand: a slide added, removed or moved, or a sentence put    *)
(* into other words.                                                       *)
ByHand(s) ==
  {InsertAt(s, k, HandMade(box)) : k \in 1 .. Len(s) + 1, box \in BOOLEAN}
  \cup {RemoveAt(s, k) : k \in DOMAIN s}
  \cup {Swapped(s, k) : k \in 1 .. Len(s) - 1}
  \cup (UNION {{InOtherWords(s, k, c) : c \in s[k].says} : k \in DOMAIN s})

HandEdit(f) ==
  /\ delta = "idle" /\ files[f] # <<>> /\ edits < MaxEdits
  /\ \E s \in ByHand(files[f]) : files' = [files EXCEPT ![f] = s]
  /\ edits' = edits + 1
  /\ deckIs' = IF f = "deck" THEN "hand" ELSE deckIs
  /\ UNCHANGED <<csv, delta, prs, source>>

(* "When a new hand-edited deck arrives, replace BASE with it."            *)
Adopt(f) ==
  /\ delta = "idle" /\ files[f] # <<>> /\ edits < MaxEdits
  /\ files' = [files EXCEPT !["base"] = files[f]]
  /\ edits' = edits + 1
  /\ UNCHANGED <<csv, delta, prs, source, deckIs>>

-----------------------------------------------------------------------------
(* deck_edit.py.                                                           *)

(* Mutant: an existing DECK is edited in place. *)
CopyOnce ==
  /\ delta = "idle" /\ files["base"] # <<>>
  /\ IF files["deck"] = <<>>
     THEN delta' = "copy" /\ prs' = <<>> /\ deckIs' = "torn"
     ELSE delta' = "precise" /\ prs' = files["deck"] /\ UNCHANGED deckIs
  /\ source' = files["base"]
  /\ UNCHANGED <<files, csv, edits>>

(* shutil.copyfile() empties DECK before it writes it.                     *)
BeginCopy ==
  /\ delta = "idle" /\ files["base"] # <<>>
  /\ files' = [files EXCEPT !["deck"] = <<>>]
  /\ source' = files["base"] /\ deckIs' = "torn"
  /\ delta' = "copy"
  /\ UNCHANGED <<csv, prs, edits>>

(* DECK is BASE, and is loaded.                                            *)
Copy ==
  /\ delta = "copy"
  /\ files' = [files EXCEPT !["deck"] = files["base"]]
  /\ prs' = files["base"]
  /\ deckIs' = "copy"
  /\ delta' = "precise"
  /\ UNCHANGED <<csv, edits, source>>

(* A delta, or the exception that ends the program when it cannot be done. *)
Delta(from, to, possible, slides) ==
  /\ delta = from
  /\ IF possible THEN delta' = to /\ prs' = slides ELSE delta' = "idle" /\ prs' = <<>>
  /\ UNCHANGED <<files, csv, edits, source, deckIs>>

(* replace_text() at a position: what is not found is passed over.         *)
Replace(s, k, claim) == [s EXCEPT ![k + 1].says = @ \ {claim}]

Retitle(s, k, old, new) ==
  IF s[k + 1].title = old THEN [s EXCEPT ![k + 1].title = new] ELSE s

HasTable(k) == prs[k + 1].table # "none"

(* new_slide(): at the end, with an empty page box.                        *)
NewSlide(id, title) == Append(prs, Plain(id, title))

(* 1: prs.slides[11] is what a shorter deck fails on. *)
Precise ==
  Delta("precise", "anatomy", Len(prs) > 11,
        Replace(Replace(Replace(prs, 1, "alone"), 9, "alone"), 11, "estimated"))

Anatomy == Delta("anatomy", "replaces", TRUE, NewSlide(22, "Anatomy"))       \* 2

WhatItReplaces == Delta("replaces", "relabel", TRUE, NewSlide(23, "Replaces"))  \* 3

(* 5: the three rows under the first of the slide's first table get other  *)
(* names.                                                                  *)
Relabel ==
  Delta("relabel", "retitle", HasTable(9) /\ prs[10].table # "short",
        Replace([prs EXCEPT ![10].table = "relabelled"], 9, "inference"))

(* 6 and 7. *)
RetitleMixes ==
  Delta("retitle", "fifty", TRUE,
        Retitle(Retitle(prs, 9, "Edge", "SeveralReal"), 9, "SeveralReal", "SeveralApps"))

(* 8: needs the column of silicon reads. *)
PerApp ==
  Delta("fifty", "bandwidth", csv # "combined", [prs EXCEPT ![9].table = "perApp"])

(* 9: tables and the shapes with the old claim go, corrected ones come. *)
Bandwidth ==
  Delta("bandwidth", "corner", TRUE,
        Replace([prs EXCEPT ![5].table = "reads"], 4, "overreports"))

(* 10: needs the results beyond the applications' bandwidth. *)
Corner == Delta("corner", "retire", csv = "bandwidth", NewSlide(24, "Corner"))

(* 11: in the verdicts' table the rows are found by their label, and the   *)
(* cell is overwritten whatever it says.                                   *)
RetireVerdicts(s) ==
  IF s[11].title = "Licenses"
  THEN [s EXCEPT ![11].says = @ \ {"overreports"}, ![11].own = @ \ {"overreports"}]
  ELSE s

(* Mutant: the claim stays beside the mixes. *)
RetireFew ==
  Delta("retire", "flat", HasTable(10),
        Retitle(RetireVerdicts(Replace(prs, 1, "overreports")), 4, "SeesNot", "Bandwidth"))

Retire ==
  Delta("retire", "flat", HasTable(10),
        Retitle(Replace(RetireVerdicts(Replace(prs, 1, "overreports")), 9, "overreports"),
                4, "SeesNot", "Bandwidth"))

AgainstFlat == Delta("flat", "arrange", TRUE, NewSlide(25, "Flat"))          \* 12

(* Mutant: the list is not extended by the last slide added. *)
OrderBefore ==
  <<"Counts", "TwoQuestions", "WhatWeDid", "SeesWork", "Bandwidth", "Corner", "Models",
    "Finding", "BlindTest", "AllFifty", "SeveralApps", "Licenses", "Anatomy", "Replaces",
    "Means">>

Order ==
  <<"Counts", "TwoQuestions", "WhatWeDid", "SeesWork", "Bandwidth", "Corner", "Models",
    "Finding", "BlindTest", "AllFifty", "SeveralApps", "Licenses", "Anatomy", "Replaces",
    "Flat", "Means">>

(* reorder(): the first slide of each title in the list, then the others. *)
Titled(s, t) == {i \in DOMAIN s : s[i].title = t}

Wanted(s) == Appended({w \in DOMAIN Order : Titled(s, Order[w]) # {}}, Len(Order))

Found(s) == [k \in DOMAIN Wanted(s) |-> Min(Titled(s, Order[Wanted(s)[k]]))]

Others(s) == Appended(DOMAIN s \ ToSet(Found(s)), Len(s))

Reordered(s) == [j \in DOMAIN s |-> s[(Found(s) \o Others(s))[j]]]

(* Mutant: the pages are numbered before the slides are moved. *)
ArrangedNumberedFirst(s) == Reordered(Numbered(s))

Arranged(s) == Numbered(Reordered(s))

Arrange == Delta("arrange", "save", TRUE, Arranged(prs))

(* prs.save() empties DECK too.                                            *)
BeginSave ==
  /\ delta = "save"
  /\ files' = [files EXCEPT !["deck"] = <<>>]
  /\ deckIs' = "torn"
  /\ delta' = "saving"
  /\ UNCHANGED <<csv, prs, edits, source>>

Save ==
  /\ delta = "saving"
  /\ files' = [files EXCEPT !["deck"] = prs]
  /\ deckIs' = "edit"
  /\ delta' = "idle" /\ prs' = <<>>
  /\ UNCHANGED <<csv, edits, source>>

(* The program is interrupted, wherever it is.                             *)
Killed ==
  /\ delta # "idle" /\ delta' = "idle" /\ prs' = <<>>
  /\ UNCHANGED <<files, csv, edits, source, deckIs>>

DeckEdit ==
  \/ BeginCopy \/ Copy \/ Precise \/ Anatomy \/ WhatItReplaces \/ Relabel \/ RetitleMixes
  \/ PerApp \/ Bandwidth \/ Corner \/ Retire \/ AgainstFlat \/ Arrange \/ BeginSave \/ Save
  \/ Killed

Maintainer ==
  \/ Generate \/ MoreResults
  \/ \E f \in File : HandEdit(f)
  \/ \E f \in File \ {"base"} : Adopt(f)

DeckNext == DeckEdit \/ Maintainer

DeckSpec == DeckInit /\ [][DeckNext]_deckVars

-----------------------------------------------------------------------------
Edited == deckIs = "edit"

Deck == files["deck"]

Slides(s, id) == {i \in DOMAIN s : s[i].id = id}

Inserted == {22, 23, 24, 25}

(* Positions whose slides some delta changes. *)
Touched == {1, 4, 8, 9, 10, 11}

(* DECK is never a deck with part of the deltas: a run that was stopped    *)
(* while it wrote the file leaves none that opens; otherwise it is the     *)
(* copy of BASE it was made from, or that copy with the four slides added  *)
(* once each, whatever the run before left in DECK ("iterated without      *)
(* stacking", line 19), every slide still there, and those at other        *)
(* positions untouched but for the page.                                   *)
DeckWhole ==
  /\ deckIs = "torn" => Deck = <<>>
  /\ deckIs = "copy" => Deck = source
  /\ Edited =>
       /\ \A id \in {s.id : s \in ToSet(Deck \o source)} \cup Inserted :
            Cardinality(Slides(Deck, id)) =
              Cardinality(Slides(source, id)) + (IF id \in Inserted THEN 1 ELSE 0)
       /\ \A i \in DOMAIN source : i - 1 \notin Touched =>
            \E d \in ToSet(Deck) : [d EXCEPT !.page = 0] = [source[i] EXCEPT !.page = 0]

(* Every page box of an edited deck shows its slide's position, the slides *)
(* added by hand or by the deltas and those moved included.                *)
PagesRight == Edited => \A i \in DOMAIN Deck : Deck[i].box => Deck[i].page = i

(* The title of the slide each position was written for. *)
Home(k) ==
  CASE k = 1 -> {"TwoQuestions"}
    [] k = 4 -> {"SeesNot"}
    [] k = 9 -> {"Edge", "RealisticEdge"}
    [] k = 10 -> {"Licenses"}
    [] k = 11 -> {"Means"}
    [] OTHER -> {}

(* "every remaining ... claim is retired" (line 382): a claim stays in an  *)
(* edited deck only in other words, or on a slide that did not stand in    *)
(* BASE where the deltas look for it.                                      *)
ClaimsRetired ==
  Edited =>
    \A i \in DOMAIN source : source[i].title \in Home(i - 1) =>
      \A d \in Slides(Deck, source[i].id) : Deck[d].says = {}

(* The titles that have a place in the deck, by the list of reorder().     *)
Places ==
  {"Counts", "TwoQuestions", "WhatWeDid", "SeesWork", "Bandwidth", "Corner", "Models",
   "Finding", "BlindTest", "AllFifty", "SeveralApps", "Licenses", "Anatomy", "Replaces",
   "Flat", "Means"}

First(d, i) == \A j \in 1 .. i - 1 : d[j].title # d[i].title

(* The slide has a place: the first one with that title does.              *)
Placed(d, i) == d[i].title \in Places /\ First(d, i)

Part1 == {"SeesWork", "Bandwidth", "Corner"}
Part2 == {"Models", "Finding", "BlindTest", "AllFifty", "SeveralApps"}

(* BASE holds the twelve slides and no other, the two that are retitled    *)
(* standing where the deltas look for them, the ten others in any order.   *)
Complete(s) ==
  /\ Len(s) = 12
  /\ {s[i].title : i \in DOMAIN s} = {Committed[i].title : i \in 1 .. 12}
  /\ s[5].title = "SeesNot" /\ s[10].title = "Edge"

(* "both new slides land before the closing slide" (line 461): whatever    *)
(* BASE was, the slides that have a place, those the deltas add among      *)
(* them, stand before the closing one, part 1 before part 2; behind it     *)
(* stand those that have none, such as a slide that was moved away from    *)
(* where its retitling looks for it, or one of the maintainer's own.  With *)
(* a BASE of the twelve slides, those two where they are looked for, the   *)
(* closing slide is the last.                                              *)
ClosingLast ==
  Edited =>
    /\ \A c, i \in DOMAIN Deck :
         Deck[c].title = "Means" /\ First(Deck, c) /\ i # c => (i < c <=> Placed(Deck, i))
    /\ \A i, j \in DOMAIN Deck :
         /\ Placed(Deck, i) /\ Deck[i].title \in Part1
         /\ Placed(Deck, j) /\ Deck[j].title \in Part2
         => i < j
    /\ Complete(source) => Deck[Len(Deck)].title = "Means"

(* The shape of the state.                                                 *)
Title ==
  {"Counts", "TwoQuestions", "WhatWeDid", "SeesWork", "SeesNot", "Bandwidth", "Corner",
   "Models", "Finding", "BlindTest", "AllFifty", "RealisticEdge", "Edge", "SeveralReal",
   "SeveralApps", "Licenses", "Anatomy", "Replaces", "Flat", "Means", "Own"}

Slide ==
  [id : Nat, title : Title, says : SUBSET Claim, own : SUBSET Claim,
   table : {"none", "original", "short", "relabelled", "perApp", "reads"},
   box : BOOLEAN, page : Nat]

TypeOK ==
  /\ DOMAIN files = File /\ \A f \in File : ToSet(files[f]) \subseteq Slide
  /\ ToSet(prs) \subseteq Slide /\ ToSet(source) \subseteq Slide
  /\ csv \in {"combined", "split", "bandwidth"} /\ edits \in 0 .. MaxEdits
  /\ deckIs \in {"none", "torn", "copy", "edit", "hand"}
=============================================================================

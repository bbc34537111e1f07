-------------------------------- MODULE Names --------------------------------
(***************************************************************************)
(* How keywords that users type are held against names and ids, as far as  *)
(* the services have it in common.                                         *)
(***************************************************************************)
EXTENDS Naturals, Sequences, SequencesExt

CONSTANTS
  Blank,        \* the string with nothing but blanks
  Matching,     \* the pairs <<text, keyword>> where the keyword is part of the text
  StationLike   \* keywords with the word for "station" in them

\* keyword_match finds no blank keyword anywhere.
ASSUME NamesAssumption == \A match \in Matching : match[2] # Blank

keyword_match(text, kw) == <<text, kw>> \in Matching

\* Of the results of one search after another, each an index or 0, the first found.
FirstFound(is) == IF \E n \in DOMAIN is : is[n] # 0
                    THEN is[SelectInSeq(is, LAMBDA i : i # 0)]
                    ELSE 0

\* The names of places that contain the keyword.
NamesWith(places, kw) ==
  {places[i].name : i \in {j \in DOMAIN places : keyword_match(places[j].name, kw)}}
=============================================================================

---------------------------- MODULE ListingAudit ----------------------------
(***************************************************************************)
(* The AEO audit of skills/aeo_skill.py: the four scores of a listing, its *)
(* flags, the structured block and opening it proposes, and a host who     *)
(* edits the listing and adopts the proposals.                             *)
(*                                                                         *)
(* A listing is                                                            *)
(*   [has     |-> the structured fields that hold a value,                 *)
(*    allowed, pets, smoking                                               *)
(*            |-> the answer of the pet policy, of petsAllowed and of      *)
(*                smokingAllowed, "unsaid" when the field is absent,       *)
(*    says    |-> the phrases of the text,                                 *)
(*    offers  |-> what the list of amenities names,                        *)
(*    canon   |-> the listing is Sweet Clementine, whose answer is fixed]. *)
(***************************************************************************)
EXTENDS Integers, FiniteSets, FiniteSetsExt

CONSTANT MaxEdits \* bound on the edits of the host

VARIABLES
  listing, \* the listing as published
  edits    \* edits so far (the bound's own count)

Answers == {"yes", "no", "unsaid"}

\* What each structured field earns in the first score.
FieldPoints ==
  [checkin |-> 5, checkout |-> 5, maxOccupancy |-> 3, occupancy |-> 3,
   species |-> 2, fee |-> 1, tier |-> 2, parking |-> 1, parkingType |-> 1,
   quietHours |-> 1, permit |-> 2, minStay |-> 1, lowReviews |-> 0,
   rooms |-> 0, refundDays |-> 0]
Fields == DOMAIN FieldPoints

PetPhrases == {"pet-friendly", "pets: some", "no pets", "pet fee, pet fee"}
Phrases == PetPhrases \cup
  {"no dogs", "not allowed", "dogs only", "no smoking", "smoking allowed",
   "5 star", "cancellation", "permit", "minimum stay", "guests",
   "superlative", "greeting"}

Listings ==
  [has : SUBSET Fields, allowed : Answers, pets : Answers, smoking : Answers,
   says : SUBSET Phrases, offers : SUBSET {"wifi", "outdoor"}, canon : BOOLEAN]

Points(condition, n) == IF condition THEN n ELSE 0

\* _CLEMENTINE_JSON_LD and _CLEMENTINE_DEGRADED_SCHEMA.
Canonical(l) ==
  [l EXCEPT !.has = Fields \ {"occupancy", "minStay", "lowReviews"},
            !.allowed = "yes", !.pets = "yes", !.smoking = "no"]
Degraded(l) ==
  [l EXCEPT !.has = {"maxOccupancy", "quietHours", "parking"},
            !.allowed = "yes", !.pets = "yes", !.smoking = "no",
            !.offers = {"wifi", "outdoor"}]

---------------------------------------------------------------------------
\* _score_structure: the text may stand in for two of the fields, and either
\* of two fields gives the occupancy.
Counted(l) ==
  LET prose == {f \in {"permit", "minStay"} :
                  (IF f = "permit" THEN f ELSE "minimum stay") \in l.says}
      second == IF "maxOccupancy" \in l.has THEN {"occupancy"} ELSE {}
  IN  (l.has \ second) \cup prose

Structure(l) ==
  Min({25, SumFunctionOnSet(FieldPoints, Counted(l))
             + Points(l.allowed # "unsaid", 1)
             + Points(l.smoking # "unsaid", 2)})

\* The questions a guest's agent asks that a structured field answers.
Questions == {"species", "checkin", "checkout", "parking", "tier", "minStay",
              "maxOccupancy"}

Answered(l) ==
  Cardinality(l.has \cap Questions) + Cardinality(l.offers)
    + Points(l.smoking # "unsaid", 1)

\* Mutant of Parseability: three points per question.
ParseabilityRounded(l) == Min({25, 3 * Answered(l)})

\* _score_parseability: 2.5 points for each of ten questions answered.
Parseability(l) == Min({25, (5 * Answered(l)) \div 2})

SaysPet(l) == l.says \cap PetPhrases # {}

\* _score_description.
Description(l) ==
  Max({0, 25 - Points("guests" \notin l.says, 5)
             - Points("superlative" \in l.says, 5)
             - Points("greeting" \in l.says, 4)
             - Points("cancellation" \notin l.says, 5)
             - Points(l.allowed = "yes" /\ "no pets" \in l.says, 10)
             - Points(l.allowed = "no" /\ SaysPet(l) /\ "no pets" \notin l.says,
                      5)})

PetsConflict(l) ==
  \/ l.allowed = "yes" /\ l.says \cap {"no pets", "no dogs"} # {}
  \/ /\ "no" \in {l.allowed, l.pets}
     /\ SaysPet(l) /\ l.says \cap {"no pets", "not allowed"} = {}

SpeciesHidden(l) ==
  /\ l.allowed = "yes" /\ "species" \notin l.has
  /\ {"dogs only", "pet-friendly"} \subseteq l.says

SmokingConflict(l) ==
  \/ l.smoking = "yes" /\ "no smoking" \in l.says
  \/ l.smoking = "no" /\ "smoking allowed" \in l.says

\* _score_conflict_free.
ConflictFree(l) ==
  Max({0, 25 - Points(PetsConflict(l), 25) - Points(SpeciesHidden(l), 12)
             - Points(SmokingConflict(l), 25)
             - Points("5 star" \in l.says /\ "lowReviews" \in l.has, 10)
             - Points("pet fee, pet fee" \in l.says, 5)})

\* The listing the rubric reads: Sweet Clementine is always scored as the
\* degraded listing of the demo.
Scored(l) == IF l.canon THEN Degraded(l) ELSE l

Overall(l) ==
  LET s == Scored(l)
  IN  Structure(s) + Parseability(s) + Description(s) + ConflictFree(s)

---------------------------------------------------------------------------
\* _build_flags.
Flags(l) ==
  IF l.canon
  THEN {"species", "checkin", "checkout", "minStay", "tier", "construction",
        "firePit"}
  ELSE {f \in {"checkin", "checkout", "tier", "minStay"} : f \notin l.has}
         \cup (IF ConflictFree(l) <= 0 THEN {"conflict"} ELSE {})

OrNo(answer) == IF answer = "unsaid" THEN "no" ELSE answer

\* Mutant of Proposed: petsAllowed is not copied.
ProposedPetless(l) ==
  [l EXCEPT !.pets = "no", !.smoking = OrNo(@),
            !.has = @ \ {"occupancy", "quietHours", "minStay", "rooms",
                         "lowReviews"}]

\* _build_json_ld: the listing with the proposed block in place of its own.
Proposed(l) ==
  IF l.canon THEN Canonical(l)
  ELSE [l EXCEPT !.pets = OrNo(@), !.smoking = OrNo(@),
                 !.has = @ \ {"occupancy", "quietHours", "minStay", "rooms",
                              "lowReviews"}]

\* _build_optimized_opening: the phrases of the proposed text.
Opening(l) ==
  IF l.canon
  THEN {"guests", "pet-friendly", "dogs only", "no smoking", "cancellation",
        "permit"}
  ELSE {p \in Phrases :
          \/ p = "guests" /\ {"rooms", "maxOccupancy"} \subseteq l.has
          \/ p = "no pets" /\ l.allowed = "no"
          \/ p = "pets: some" /\ l.allowed # "no" /\ "species" \in l.has
          \/ p = "no smoking" /\ l.smoking = "no"
          \/ p = "cancellation" /\ "refundDays" \in l.has
          \/ p = "permit" /\ "permit" \in l.has}

---------------------------------------------------------------------------
\* A bare listing, one that states everything, and Sweet Clementine.
Bare == [has |-> {}, allowed |-> "unsaid", pets |-> "unsaid",
         smoking |-> "unsaid", says |-> {}, offers |-> {}, canon |-> FALSE]
Full == [Bare EXCEPT !.has = Fields \ {"occupancy", "lowReviews"},
                     !.allowed = "yes", !.pets = "yes", !.smoking = "no",
                     !.says = {"guests", "cancellation"},
                     !.offers = {"wifi", "outdoor"}]
Clementine == [Bare EXCEPT !.canon = TRUE,
                 !.says = {"pet-friendly", "dogs only", "greeting",
                           "superlative", "cancellation", "permit"},
                 !.offers = {"wifi", "outdoor"}]

ListingInit == listing \in {Bare, Full, Clementine} /\ edits = 0

Toggled(set, x) == IF x \in set THEN set \ {x} ELSE set \cup {x}

\* The host changes one thing.
Edit ==
  /\ edits < MaxEdits
  /\ edits' = edits + 1
  /\ \/ \E f \in Fields : listing' = [listing EXCEPT !.has = Toggled(@, f)]
     \/ \E p \in Phrases : listing' = [listing EXCEPT !.says = Toggled(@, p)]
     \/ \E a \in Answers :
          listing' \in {[listing EXCEPT !.allowed = a],
                       [listing EXCEPT !.pets = a],
                       [listing EXCEPT !.smoking = a]}

\* audit_listing, and the host publishes what it proposes: the block alone, or
\* the block and the opening as the text.
Adopted(l) == [Proposed(l) EXCEPT !.says = Opening(l)]
Adopt ==
  /\ listing' \in {Proposed(listing), Adopted(listing)}
  /\ UNCHANGED edits

ListingNext == Edit \/ Adopt

ListingSpec == ListingInit /\ [][ListingNext]_<<listing, edits>>

---------------------------------------------------------------------------
\* A listing that scores 100 has no flag (aeo_skill.py:471-519 against the
\* four scores): no point lost elsewhere is made up by a surplus.
PerfectIsClean == Overall(listing) = 100 => Flags(listing) = {}

\* Publishing the block costs no points: the audit is sold as a way to score
\* better (README.md:155).
BlockNeverHurts == Overall(Proposed(listing)) >= Overall(listing)

\* When petsAllowed agrees with the pet policy, the proposed opening under the
\* proposed block passes the audit's own check for conflicts
\* (aeo_skill.py:539, 571-575 against 442-450).
Coherent(l) == "species" \in l.has /\ l.allowed # "no" => l.pets = "yes"
AdoptedIsConsistent ==
  Coherent(listing) => ConflictFree(Adopted(listing)) = 25

\* The same of every listing.
AdoptedNeverConflicts == "conflict" \notin Flags(Adopted(listing))

\* Publishing the proposals clears the flags they answer: check-in and
\* checkout times stand in the block of Sweet Clementine
\* (aeo_skill.py:149-150 against 202-219).
AnsweredFlagsClear ==
  Flags(Adopted(listing)) \cap Adopted(listing).has = {}
===========================================================================

---------------------------- MODULE MCTurnRecall ----------------------------
(***************************************************************************)
(* A vow, its amendment, a gift told in the vow's words, a plain remark    *)
(* that says as much, a reversal, a rumour the player must not hear, and   *)
(* two chronicles that differ only past the cut.                           *)
(***************************************************************************)
EXTENDS TurnRecall

T(words, frame, marks, event) ==
    [words |-> words, frame |-> frame, marks |-> marks, event |-> event,
     hint |-> event # {}, len |-> 10, stops |-> {}, gaps |-> {5}, stem |-> "", own |-> 0]
Long(words) ==
    [T(words, {}, {}, {}) EXCEPT !.len = 30, !.stops = {4}, !.gaps = {5, 12}, !.stem = "chronicle",
                                 !.own = 20]

MCText ==
    [vow |-> T({"blue", "seal", "keep"}, {"stated"}, {}, {"promise"}),
     amend |-> T({"blue", "seal", "keep", "knock"}, {"stated"}, {}, {"promise"}),
     gift |-> T({"seal", "keep"}, {"stated"}, {}, {"entrusted"}),
     broke |-> T({"blue", "seal", "keep"}, {}, {"broke"}, {}),
     remark |-> T({"blue", "seal", "keep", "tower"}, {}, {}, {}),
     rumour |-> T({"blue", "seal", "boat"}, {}, {}, {}),
     digest |-> T({"tower", "boat"}, {}, {}, {}),
     ask |-> T({"blue", "tower"}, {}, {}, {}),
     early |-> Long({"tower", "boat"}),
     late |-> Long({"tower", "knock"})]

Answered(text, vis, tags, importance) ==
    [text |-> text, vis |-> vis, tags |-> tags, importance |-> importance, bond |-> 70]
MCCuratorAnswers ==
    {<<>>,
     <<Answered("remark", "player", {}, 2)>>,
     <<Answered("rumour", "gm", {}, 4), Answered("early", "player", {}, 3)>>,
     <<Answered("broke", "player", {"regel"}, 2)>>}

MCMessages == {<<"vow">>, <<"ask">>, <<"vow", "amend">>, <<"vow", "gift">>}

Indexed(id, collection, text, vis) ==
    [id |-> id, collection |-> collection, text |-> text, vis |-> vis, tags |-> {},
     importance |-> 0, created |-> 0, bond |-> 0]
MCLore == {Indexed(101, "lore", "late", "player"), Indexed(102, "lore", "rumour", "gm"),
           Indexed(103, "persona", "early", "player")}

Near(texts) == [t \in Texts |-> IF t \in texts THEN 600 ELSE 300]
MCNearness == {Near({}), Near({"late", "early", "rumour"}), Near({"remark", "digest"})}

Setup(rag, quota, pinning, gating) ==
    [rag |-> rag, quota |-> quota, pinning |-> pinning, gating |-> gating]
MCSetups == {Setup(TRUE, 1, FALSE, "always"), Setup(TRUE, 2, TRUE, "auto"),
             Setup(FALSE, 0, TRUE, "always")}

MCSliceFloor == <<1, 1>>
MCCanonTags == {"promise", "entrusted"}
MCCanonTagsDE == {"regel"}
MCTags == MCCanonTags \cup MCCanonTagsDE \cup {SummaryTag}
MCAlike == {<<"early", "late">>, <<"remark", "broke">>}

Tokens == {"The", "the", "heir", "lives", "in", "exile", "hello"}
MCLower == [k \in Tokens \cup {Redaction} |-> IF k = "The" THEN "the" ELSE k]
MCFiller == {"the", "in"}
MCHiddenFacts == {<<<<"the", "heir", "lives">>, <<"in", "exile">>>>}
MCSpeech == {<<"hello">>,
             <<"The", "heir", "lives", "hello", "the", "heir", "lives", "in", "exile",
               "the", "heir", "lives">>,
             <<"heir", "in", "in", "exile", "the", "heir">>}
=============================================================================

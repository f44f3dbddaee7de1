------------------------------ MODULE ReviewItems ------------------------------
(***************************************************************************)
(* A review, screen by screen: the items behind tx_getItem (common/tx.c,   *)
(* parser.c) and addr_getItem (addr.c), and the walk over items and pages  *)
(* that the screens of the device, the fuzzer and the tests take.          *)
(* SovereignApp takes the whole walk as one step, Look.                    *)
(*                                                                         *)
(* Only lengths matter here: a text is the number of its characters, and   *)
(* what a screen shows is the range of characters on it.                   *)
(***************************************************************************)
EXTENDS Integers

CONSTANTS MessageLen,    \* lengths of the messages to review, in bytes
          ADDRESS_LEN,   \* characters of an address
          PATH_LEN,      \* characters of a path as bip32_to_str writes it
          PAGE_LEN,      \* characters on a screen: outValLen - 1
          UINT8_RANGE,   \* 2^8 in the build
          Index          \* the item numbers a screen may ask for (int8_t)

ASSUME ReviewAssumption ==
    /\ MessageLen \subseteq Nat \ {0}
    /\ {ADDRESS_LEN, PATH_LEN, PAGE_LEN, UINT8_RANGE} \subseteq Nat \ {0}
    /\ UINT8_RANGE > 2
    /\ Index \subseteq (2 - UINT8_RANGE)..(UINT8_RANGE - 1)

VARIABLES
    expert,     \* app_mode_expert()
    stage,      \* closed, walk, decide (all screens seen) or error
    asked,      \* what is reviewed: nothing, a message length or an address
    itemIdx,
    pageIdx,
    screen,     \* what the last getItem returned
    readTo      \* per item, how far the user has read without a gap

vars == <<expert, stage, asked, itemIdx, pageIdx, screen, readTo>>

Key == {"Blind", "Txn", "Address", "Your Path"}

NothingAsked == [kind |-> "none", len |-> 0]

(***************************************************************************)
(* A screen: an error or an item's key, the characters from first to last, *)
(* and how many pages the item has.                                        *)
(***************************************************************************)
Failed(err) == [err |-> err, key |-> "Blind", first |-> 1, last |-> 0, pageCount |-> 1]

OnePage(key) == [err |-> "ok", key |-> key, first |-> 1, last |-> 1, pageCount |-> 1]

PagesOf(len) == (len + PAGE_LEN - 1) \div PAGE_LEN

uint8(n) == n % UINT8_RANGE

(***************************************************************************)
(* Does the counter hold the number of pages?  An address is one of at     *)
(* most 65 characters and a path one of at most 300 (addr.c:52); a message *)
(* may be one of too many.                                                 *)
(***************************************************************************)
PagesFit(len) == PagesOf(len) < UINT8_RANGE

ASSUME AddressAssumption == PagesFit(ADDRESS_LEN) /\ PagesFit(PATH_LEN)

(***************************************************************************)
(* pageString and pageStringHex: the page asked for, if there is one, and  *)
(* the number of pages through a uint8_t pointer.                          *)
(***************************************************************************)
Page(key, len, page) ==
    LET count == uint8(PagesOf(len))
        end   == (page + 1) * PAGE_LEN
    IN  [err |-> "ok", key |-> key, first |-> page * PAGE_LEN + 1,
         last |-> IF page >= count THEN page * PAGE_LEN
                  ELSE IF end < len THEN end ELSE len,
         pageCount |-> count]

-------------------------------------------------------------------------------
(* The items of a transaction: a notice, and the message in hexadecimal.    *)

parser_getNumItems == 2

checkSanity(idx) == idx < parser_getNumItems

parser_getItem_firstPage(len, idx, page) ==
    IF ~checkSanity(idx) THEN Failed("parser_display_idx_out_of_range")
    ELSE IF idx = 0 THEN OnePage("Blind")
    ELSE IF idx = 1 THEN Page("Txn", 2 * len, 0)
    ELSE Failed("parser_display_idx_out_of_range")

parser_getItem(len, idx, page) ==
    IF ~checkSanity(idx) THEN Failed("parser_display_idx_out_of_range")
    ELSE IF idx = 0 THEN OnePage("Blind")
    ELSE IF idx = 1 THEN Page("Txn", 2 * len, page)
    ELSE Failed("parser_display_idx_out_of_range")

(***************************************************************************)
(* Every item is asked for its first page.                                 *)
(***************************************************************************)
parser_validate(len) ==
    \A idx \in 0..(parser_getNumItems - 1) : parser_getItem(len, idx, 0).err = "ok"

(***************************************************************************)
(* displayIdx is compared as a signed number, which lets numItems itself   *)
(* and negative numbers through, and becomes a uint8_t in parser_getItem.  *)
(***************************************************************************)
tx_getItem(len, displayIdx, page) ==
    LET item == parser_getItem(len, uint8(displayIdx), page)
    IN  IF displayIdx > parser_getNumItems
           \/ item.err = "parser_display_idx_out_of_range"
        THEN Failed("zxerr_no_data")
        ELSE item

-------------------------------------------------------------------------------
(* The items of an address: the address, and in expert mode its path.       *)

addr_getNumItems_oneMore == IF expert THEN 3 ELSE 2

addr_getNumItems == IF expert THEN 2 ELSE 1

addr_getItem_anyMode(displayIdx, page) ==
    IF displayIdx = 0 THEN Page("Address", ADDRESS_LEN, page)
    ELSE IF displayIdx = 1 THEN Page("Your Path", PATH_LEN, page)
    ELSE Failed("zxerr_no_data")

addr_getItem(displayIdx, page) ==
    IF displayIdx = 0 THEN Page("Address", ADDRESS_LEN, page)
    ELSE IF displayIdx = 1 /\ expert THEN Page("Your Path", PATH_LEN, page)
    ELSE Failed("zxerr_no_data")

-------------------------------------------------------------------------------
(* The walk *)

numItems(what) ==
    IF what.kind = "message" THEN parser_getNumItems ELSE addr_getNumItems

getItem(what, displayIdx, page) ==
    IF what.kind = "message"
    THEN tx_getItem(what.len, displayIdx, page)
    ELSE addr_getItem(displayIdx, page)

(***************************************************************************)
(* An item is fetched and shown, or an error ends the review.              *)
(***************************************************************************)
Show(what, idx, page, read) ==
    LET got == getItem(what, idx, page)
    IN  /\ itemIdx' = idx
        /\ pageIdx' = page
        /\ screen' = got
        /\ stage' = IF got.err = "ok" THEN "walk" ELSE "error"
        /\ readTo' = [read EXCEPT ![got.key] =
                         IF got.first <= @ + 1 /\ got.last > @ THEN got.last ELSE @]

Unread == [key \in Key |-> 0]

Init ==
    /\ expert \in BOOLEAN
    /\ stage = "closed"
    /\ asked = NothingAsked
    /\ itemIdx = 0
    /\ pageIdx = 0
    /\ screen = Failed("zxerr_no_data")
    /\ readTo = Unread

(***************************************************************************)
(* A message goes to review when it validates (tx_parse), an address       *)
(* always.                                                                 *)
(***************************************************************************)
ReviewMessage(len) ==
    /\ stage = "closed"
    /\ parser_validate(len)
    /\ asked' = [kind |-> "message", len |-> len]
    /\ Show(asked', 0, 0, Unread)
    /\ UNCHANGED expert

ReviewAddress ==
    /\ stage = "closed"
    /\ asked' = [kind |-> "address", len |-> 0]
    /\ Show(asked', 0, 0, Unread)
    /\ UNCHANGED expert

(***************************************************************************)
(* Pages are counted by a uint8_t, up to the count of the screen before.   *)
(***************************************************************************)
MorePages_countIncluded == uint8(pageIdx + 1) <= screen.pageCount

MorePages == uint8(pageIdx + 1) < screen.pageCount

NextPage ==
    /\ stage = "walk"
    /\ MorePages
    /\ Show(asked, itemIdx, uint8(pageIdx + 1), readTo)
    /\ UNCHANGED <<expert, asked>>

NextItem ==
    /\ stage = "walk"
    /\ ~MorePages
    /\ itemIdx + 1 < numItems(asked)
    /\ Show(asked, itemIdx + 1, 0, readTo)
    /\ UNCHANGED <<expert, asked>>

LastSeen ==
    /\ stage = "walk"
    /\ ~MorePages
    /\ itemIdx + 1 >= numItems(asked)
    /\ stage' = "decide"
    /\ UNCHANGED <<expert, asked, itemIdx, pageIdx, screen, readTo>>

(***************************************************************************)
(* The user decides, or turns away before the end.                         *)
(***************************************************************************)
Close ==
    /\ stage # "closed"
    /\ stage' = "closed"
    /\ asked' = NothingAsked
    /\ itemIdx' = 0
    /\ pageIdx' = 0
    /\ screen' = Failed("zxerr_no_data")
    /\ readTo' = Unread
    /\ UNCHANGED expert

(***************************************************************************)
(* The menu, which cannot be reached from an open review.                  *)
(***************************************************************************)
ToggleExpert ==
    /\ stage = "closed"
    /\ expert' = ~expert
    /\ UNCHANGED <<stage, asked, itemIdx, pageIdx, screen, readTo>>

Next ==
    \/ \E len \in MessageLen : ReviewMessage(len)
    \/ ReviewAddress
    \/ NextPage \/ NextItem \/ LastSeen
    \/ Close \/ ToggleExpert

Spec == Init /\ [][Next]_vars

(***************************************************************************)
(* Whoever walks goes on: the loops of the fuzzer and of the tests run     *)
(* until their conditions fail.                                            *)
(***************************************************************************)
FairSpec == Spec /\ WF_vars(NextPage \/ NextItem \/ LastSeen)

-------------------------------------------------------------------------------
ScreenType ==
    [err : {"ok", "zxerr_no_data"}, key : Key, first : Nat, last : Nat,
     pageCount : 0..(UINT8_RANGE - 1)]

(***************************************************************************)
(* Types; a page number fits the uint8_t it is passed in.                  *)
(***************************************************************************)
ReviewTypeOK ==
    /\ expert \in BOOLEAN
    /\ stage \in {"closed", "walk", "decide", "error"}
    /\ asked \in [kind : {"none", "message", "address"}, len : MessageLen \cup {0}]
    /\ itemIdx \in 0..1
    /\ pageIdx \in 0..(UINT8_RANGE - 1)
    /\ screen \in ScreenType
    /\ readTo \in [Key -> Nat]

(***************************************************************************)
(* Whoever has come to the last screen has read the notice and all of the  *)
(* message, or all of the address and, in expert mode, of its path; and    *)
(* only a message of more pages than a uint8_t counts is not read to its   *)
(* end (parser.c:92-120, addr.c:37-60).                                    *)
(***************************************************************************)
ReviewIsComplete ==
    stage = "decide" =>
        /\ asked.kind = "message" =>
               /\ readTo["Blind"] = 1
               /\ readTo["Txn"] = 2 * asked.len <=> PagesFit(2 * asked.len)
        /\ asked.kind = "address" =>
               /\ readTo["Address"] = ADDRESS_LEN
               /\ expert => readTo["Your Path"] = PATH_LEN

(***************************************************************************)
(* What parser_validate accepted can be shown: no item or page of the walk *)
(* fails (fuzz/parser_parse.cpp:53-57 asserts it).                         *)
(***************************************************************************)
NoErrorScreen == stage # "error"

(***************************************************************************)
(* An item exists exactly below the number of items, whatever number a     *)
(* screen asks for, negative ones included: the test of tx_getItem lets    *)
(* one too many through (tx.c:101), those behind it do not (parser.c:85-90 *)
(* and 103-119, addr.c:41-59).                                             *)
(***************************************************************************)
ItemsBelowCount ==
    \A idx \in Index, what \in {asked, [asked EXCEPT !.kind = "message"],
                                [asked EXCEPT !.kind = "address"]} :
        getItem(what, idx, 0).err = "ok" <=> idx \in 0..(numItems(what) - 1)

(***************************************************************************)
(* A walk never shows a screen again: it goes on to a later page or to a   *)
(* later item, also where the counter of pages would wrap to the first     *)
(* (fuzz/parser_parse.cpp:45-60, tests/utils/common.cpp:35-58).            *)
(***************************************************************************)
WalkAdvances ==
    [][stage = "walk" /\ stage' = "walk" =>
          \/ itemIdx' > itemIdx
          \/ itemIdx' = itemIdx /\ pageIdx' > pageIdx]_vars

(***************************************************************************)
(* A walk comes to its end, also over an item of as many pages as a        *)
(* uint8_t counts, where a page number one beyond the last would wrap to   *)
(* the first (fuzz/parser_parse.cpp:45-60, tests/utils/common.cpp:35-58).  *)
(***************************************************************************)
WalkEnds == stage = "walk" ~> stage # "walk"
===============================================================================

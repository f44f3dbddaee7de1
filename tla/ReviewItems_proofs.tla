--------------------------- MODULE ReviewItems_proofs ---------------------------
(***************************************************************************)
(* Proofs about ReviewItems, for texts and screens of any length and       *)
(* counters of any width.  First that a walk stays among the items that    *)
(* exist; then that it goes forward only, and how far it reads each one.   *)
(***************************************************************************)
EXTENDS ReviewItems, TLAPS

LEMMA Product == ASSUME NEW a \in Nat, NEW b \in Nat PROVE a * b \in Nat
OBVIOUS

LEMMA Monotone ==
    ASSUME NEW a \in Nat, NEW b \in Nat, NEW c \in Nat, a <= b
    PROVE  a * c <= b * c
<1>1. PICK d \in Nat : b = a + d
    <2>1. b - a \in Nat /\ b = a + (b - a)
        OBVIOUS
    <2> QED
        BY <2>1
<1>2. b * c = a * c + d * c
    BY <1>1
<1>3. d * c \in Nat /\ a * c \in Nat
    BY Product
<1> QED
    BY <1>2, <1>3

LEMMA Division ==
    ASSUME NEW a \in Nat, NEW b \in Nat \ {0}
    PROVE  /\ a \div b \in Nat
           /\ (a \div b) * b <= a
           /\ a < (a \div b) * b + b
OBVIOUS

(***************************************************************************)
(* The counter: below its range it is the number itself.                   *)
(***************************************************************************)
LEMMA Uint8 ==
    ASSUME NEW n \in Int
    PROVE  /\ uint8(n) \in 0..(UINT8_RANGE - 1)
           /\ n \in 0..(UINT8_RANGE - 1) => uint8(n) = n
           /\ n \in (0 - UINT8_RANGE)..-1 => uint8(n) = n + UINT8_RANGE
BY ReviewAssumption DEF uint8

-------------------------------------------------------------------------------
(* What is asked for exists. *)

Asked == [kind : {"none", "message", "address"}, len : MessageLen \cup {0}]

LEMMA PageType ==
    ASSUME NEW key \in Key, NEW len \in Nat, NEW page \in Nat
    PROVE  Page(key, len, page) \in ScreenType /\ Page(key, len, page).err = "ok"
<1> DEFINE count == uint8(PagesOf(len))
<1>1. PAGE_LEN \in Nat \ {0}
    BY ReviewAssumption
<1>2. PagesOf(len) \in Nat
    BY <1>1, Division DEF PagesOf
<1>3. count \in 0..(UINT8_RANGE - 1)
    BY <1>2, Uint8
<1>4. page * PAGE_LEN \in Nat /\ (page + 1) * PAGE_LEN \in Nat
    BY <1>1, Product
<1> HIDE DEF count
<1>5. page * PAGE_LEN + 1 \in Nat
    BY <1>4
<1>6. (IF page >= count THEN page * PAGE_LEN
       ELSE IF (page + 1) * PAGE_LEN < len THEN (page + 1) * PAGE_LEN ELSE len) \in Nat
    BY <1>4
<1> QED
    BY <1>3, <1>5, <1>6 DEF Page, ScreenType, count

LEMMA ScreenTypes ==
    \A key \in Key : OnePage(key) \in ScreenType /\ OnePage(key).err = "ok"
BY ReviewAssumption DEF ScreenType, OnePage

LEMMA FailedScreen ==
    /\ Failed("zxerr_no_data") \in ScreenType
    /\ Failed("zxerr_no_data").err = "zxerr_no_data"
BY ReviewAssumption DEF ScreenType, Failed, Key

(***************************************************************************)
(* A message has the items 0 and 1, whatever signed number is asked for.   *)
(***************************************************************************)
LEMMA MessageItem ==
    ASSUME NEW len \in MessageLen \cup {0}, NEW idx \in Int, NEW page \in Nat,
           idx \in (2 - UINT8_RANGE)..(UINT8_RANGE - 1)
    PROVE  /\ tx_getItem(len, idx, page) =
                  IF idx = 0 THEN OnePage("Blind")
                  ELSE IF idx = 1 THEN Page("Txn", 2 * len, page)
                  ELSE Failed("zxerr_no_data")
<1>1. len \in Nat /\ 2 * len \in Nat /\ UINT8_RANGE \in Nat /\ UINT8_RANGE > 2
    BY ReviewAssumption
<1>2. idx \in {0, 1} => uint8(idx) = idx
    BY <1>1, Uint8
<1>3. idx \notin {0, 1} => ~(uint8(idx) < 2)
    <2>1. CASE idx < 0
        BY <1>1, <2>1, Uint8
    <2>2. CASE idx > 1
        BY <1>1, <2>2, Uint8
    <2> QED
        BY <2>1, <2>2
<1>4. CASE idx = 0
    BY <1>2, <1>4 DEF tx_getItem, parser_getItem, checkSanity, parser_getNumItems,
                      OnePage, Failed
<1>5. CASE idx = 1
    <2>1. parser_getItem(len, uint8(idx), page) = Page("Txn", 2 * len, page)
        BY <1>2, <1>5 DEF parser_getItem, checkSanity, parser_getNumItems
    <2>2. Page("Txn", 2 * len, page).err = "ok"
        BY <1>1, PageType DEF Key
    <2> QED
        BY <1>5, <2>1, <2>2 DEF tx_getItem, parser_getNumItems
<1>6. CASE idx \notin {0, 1}
    BY <1>3, <1>6 DEF tx_getItem, parser_getItem, checkSanity, parser_getNumItems,
                      Failed
<1> QED
    BY <1>4, <1>5, <1>6

LEMMA ItemTypes ==
    ASSUME NEW what \in Asked, NEW idx \in Int, NEW page \in Nat, expert \in BOOLEAN,
           idx \in (2 - UINT8_RANGE)..(UINT8_RANGE - 1)
    PROVE  /\ getItem(what, idx, page) \in ScreenType
           /\ getItem(what, idx, page).err = "ok" <=> idx \in 0..(numItems(what) - 1)
<1> DEFINE got == getItem(what, idx, page)
<1> SUFFICES /\ got \in ScreenType
             /\ got.err = "ok" <=> idx \in 0..(numItems(what) - 1)
    BY DEF got
<1> HIDE DEF got
<1>1. CASE what.kind = "message"
    <2>1. what.len \in MessageLen \cup {0}
        BY DEF Asked
    <2>0. 2 * what.len \in Nat
        <3>1. \A len \in MessageLen \cup {0} : 2 * len \in Nat
            BY ReviewAssumption
        <3> QED
            BY <2>1, <3>1
    <2>2. numItems(what) = 2
        BY <1>1 DEF numItems, parser_getNumItems
    <2>3. getItem(what, idx, page) = tx_getItem(what.len, idx, page)
        BY <1>1 DEF getItem
    <2>4. getItem(what, idx, page) =
             IF idx = 0 THEN OnePage("Blind")
             ELSE IF idx = 1 THEN Page("Txn", 2 * what.len, page)
             ELSE Failed("zxerr_no_data")
        BY <2>1, <2>3, MessageItem
    <2>5. CASE idx = 0
        <3>1. got \in ScreenType /\ got.err = "ok"
            BY <2>4, <2>5, ScreenTypes DEF Key, got
        <3> QED
            BY <2>2, <2>5, <3>1
    <2>6. CASE idx = 1
        <3>1. idx # 0
            BY <2>6
        <3>2. got = Page("Txn", 2 * what.len, page)
            BY <2>4, <2>6, <3>1, Zenon DEF got
        <3>3. got \in ScreenType /\ got.err = "ok"
            BY <2>0, <3>2, PageType DEF Key
        <3> QED
            BY <2>2, <2>6, <3>3
    <2>7. CASE idx \notin {0, 1}
        <3>1. got \in ScreenType /\ got.err = "zxerr_no_data"
            BY <2>4, <2>7, FailedScreen DEF got
        <3> QED
            BY <2>2, <2>7, <3>1
    <2> QED
        BY <2>5, <2>6, <2>7
<1>2. CASE what.kind # "message"
    <2>1. numItems(what) = IF expert THEN 2 ELSE 1
        BY <1>2 DEF numItems, addr_getNumItems
    <2>2. getItem(what, idx, page) = addr_getItem(idx, page)
        BY <1>2 DEF getItem
    <2>3. ADDRESS_LEN \in Nat /\ PATH_LEN \in Nat
        BY ReviewAssumption
    <2>4. CASE idx = 0
        <3>1. got = Page("Address", ADDRESS_LEN, page)
            BY <2>2, <2>4 DEF addr_getItem, got
        <3>2. got \in ScreenType /\ got.err = "ok"
            BY <2>3, <3>1, PageType DEF Key
        <3> QED
            BY <2>1, <2>4, <3>2
    <2>5. CASE idx = 1 /\ expert
        <3>1. idx # 0
            BY <2>5
        <3>2. got = Page("Your Path", PATH_LEN, page)
            BY <2>2, <2>5, <3>1, Zenon DEF addr_getItem, got
        <3>3. got \in ScreenType /\ got.err = "ok"
            BY <2>3, <3>2, PageType DEF Key
        <3> QED
            BY <2>1, <2>5, <3>3
    <2>6. CASE idx # 0 /\ ~(idx = 1 /\ expert)
        <3>1. got \in ScreenType /\ got.err = "zxerr_no_data"
            BY <2>2, <2>6, FailedScreen DEF addr_getItem, got
        <3> QED
            BY <2>1, <2>6, <3>1
    <2> QED
        BY <2>4, <2>5, <2>6
<1> QED
    BY <1>1, <1>2

(***************************************************************************)
(* The walk stays below the number of items, and so never fails.           *)
(***************************************************************************)
WalkInv ==
    /\ ReviewTypeOK
    /\ stage # "error"
    /\ itemIdx \in 0..(numItems(asked) - 1)
    /\ stage = "closed" => itemIdx = 0

LEMMA NumItems ==
    ASSUME expert \in BOOLEAN, NEW what
    PROVE  numItems(what) \in {1, 2}
BY DEF numItems, parser_getNumItems, addr_getNumItems

LEMMA ItemInRange ==
    ASSUME expert \in BOOLEAN, NEW what, NEW idx \in 0..(numItems(what) - 1)
    PROVE  idx \in 0..1 /\ idx \in (2 - UINT8_RANGE)..(UINT8_RANGE - 1)
<1>1. UINT8_RANGE \in Nat /\ UINT8_RANGE > 2
    BY ReviewAssumption
<1> QED
    BY <1>1, NumItems

LEMMA ShowWalks ==
    ASSUME WalkInv, NEW what \in Asked, NEW idx \in 0..(numItems(what) - 1),
           NEW page \in 0..(UINT8_RANGE - 1), NEW read \in [Key -> Nat],
           Show(what, idx, page, read), asked' = what, expert' = expert
    PROVE  WalkInv' /\ stage' = "walk"
<1> DEFINE got == getItem(what, idx, page)
<1>1. expert \in BOOLEAN
    BY DEF WalkInv, ReviewTypeOK
<1>2. got \in ScreenType /\ got.err = "ok"
    <2>1. page \in Nat
        BY ReviewAssumption
    <2> QED
        BY <1>1, <2>1, ItemTypes, ItemInRange
<1>3. /\ itemIdx' = idx /\ pageIdx' = page /\ screen' = got
      /\ stage' = IF got.err = "ok" THEN "walk" ELSE "error"
      /\ readTo' = [read EXCEPT ![got.key] =
                        IF got.first <= @ + 1 /\ got.last > @ THEN got.last ELSE @]
    BY DEF Show
<1> HIDE DEF got
<1>4. stage' = "walk"
    BY <1>2, <1>3
<1>5. readTo' \in [Key -> Nat]
    BY <1>2, <1>3 DEF ScreenType
<1>6. numItems(asked)' = numItems(what)
    BY DEF numItems, addr_getNumItems
<1>7. ReviewTypeOK'
    BY <1>1, <1>2, <1>3, <1>4, <1>5, ItemInRange DEF ReviewTypeOK, Asked
<1> QED
    BY <1>3, <1>4, <1>6, <1>7 DEF WalkInv

LEMMA Start ==
    ASSUME expert \in BOOLEAN, NEW what
    PROVE  0 \in 0..(numItems(what) - 1)
BY NumItems

LEMMA UnreadType == Unread \in [Key -> Nat]
BY DEF Unread

LEMMA ClosedType ==
    /\ NothingAsked \in Asked
    /\ Failed("zxerr_no_data") \in ScreenType
    /\ 0 \in 0..(UINT8_RANGE - 1)
BY FailedScreen, ReviewAssumption DEF NothingAsked, Asked

LEMMA WalkInit == Init => WalkInv
<1> SUFFICES ASSUME Init PROVE WalkInv
    OBVIOUS
<1>1. itemIdx \in 0..(numItems(asked) - 1)
    BY Start, Zenon DEF Init
<1> QED
    BY <1>1, UnreadType, ClosedType DEF Init, WalkInv, ReviewTypeOK, Asked

LEMMA WalkNext == WalkInv /\ [Next]_vars => WalkInv'
<1> SUFFICES ASSUME WalkInv, [Next]_vars PROVE WalkInv'
    OBVIOUS
<1>0. /\ expert \in BOOLEAN /\ asked \in Asked /\ readTo \in [Key -> Nat]
      /\ 0 \in 0..(UINT8_RANGE - 1) /\ pageIdx \in Int /\ itemIdx \in Int
    BY ReviewAssumption DEF WalkInv, ReviewTypeOK, Asked
<1>1. ASSUME NEW len \in MessageLen, ReviewMessage(len) PROVE WalkInv'
    <2>1. [kind |-> "message", len |-> len] \in Asked
        BY DEF Asked
    <2> QED
        BY <1>0, <1>1, <2>1, Start, UnreadType, ShowWalks DEF ReviewMessage
<1>2. CASE ReviewAddress
    <2>1. [kind |-> "address", len |-> 0] \in Asked
        BY DEF Asked
    <2> QED
        BY <1>0, <1>2, <2>1, Start, UnreadType, ShowWalks DEF ReviewAddress
<1>3. CASE NextPage
    <2>1. uint8(pageIdx + 1) \in 0..(UINT8_RANGE - 1)
        BY <1>0, Uint8
    <2> QED
        BY <1>0, <1>3, <2>1, ShowWalks DEF NextPage, WalkInv
<1>4. CASE NextItem
    <2>1. itemIdx + 1 \in 0..(numItems(asked) - 1)
        BY <1>0, <1>4, NumItems DEF NextItem, WalkInv
    <2> QED
        BY <1>0, <1>4, <2>1, ShowWalks DEF NextItem
<1>5. CASE LastSeen
    BY <1>5 DEF LastSeen, WalkInv, ReviewTypeOK, numItems, addr_getNumItems
<1>6. CASE Close
    <2>1. expert' \in BOOLEAN /\ itemIdx' = 0
        BY <1>0, <1>6 DEF Close
    <2>2. itemIdx' \in 0..(numItems(asked)' - 1)
        BY <2>1 DEF numItems, addr_getNumItems, parser_getNumItems
    <2> QED
        BY <1>6, <2>2, UnreadType, ClosedType DEF Close, WalkInv, ReviewTypeOK, Asked
<1>7. CASE ToggleExpert
    <2>1. expert' \in BOOLEAN /\ itemIdx' = 0
        BY <1>0, <1>7 DEF ToggleExpert, WalkInv
    <2>2. itemIdx' \in 0..(numItems(asked)' - 1)
        BY <2>1 DEF numItems, addr_getNumItems, parser_getNumItems
    <2> QED
        BY <1>7, <2>1, <2>2 DEF ToggleExpert, WalkInv, ReviewTypeOK
<1>8. CASE UNCHANGED vars
    BY <1>8 DEF vars, WalkInv, ReviewTypeOK, numItems, addr_getNumItems
<1> QED
    BY <1>1, <1>2, <1>3, <1>4, <1>5, <1>6, <1>7, <1>8 DEF Next

LEMMA WalkInvariance == Spec => []WalkInv
BY WalkInit, WalkNext, PTL DEF Spec

(***************************************************************************)
(* Types; a page number fits its uint8_t (addr.c:37, parser.c:92).         *)
(***************************************************************************)
THEOREM ReviewTypeCorrect == Spec => []ReviewTypeOK
<1>1. WalkInv => ReviewTypeOK
    BY DEF WalkInv
<1> QED
    BY <1>1, WalkInvariance, PTL

(***************************************************************************)
(* No item of a walk fails, however many pages it has.                     *)
(***************************************************************************)
THEOREM WalkNeverFails == Spec => []NoErrorScreen
<1>1. WalkInv => NoErrorScreen
    BY DEF WalkInv, NoErrorScreen
<1> QED
    BY <1>1, WalkInvariance, PTL

(***************************************************************************)
(* An item exists exactly below the number of items, for every signed      *)
(* number below the range of the counter (tx.c:95-115, addr.c:37-60).      *)
(***************************************************************************)
THEOREM ItemsAreBelowCount == Spec => []ItemsBelowCount
<1>1. WalkInv => ItemsBelowCount
    <2> SUFFICES ASSUME WalkInv, NEW idx \in Index,
                        NEW what \in {asked, [asked EXCEPT !.kind = "message"],
                                      [asked EXCEPT !.kind = "address"]}
                 PROVE  getItem(what, idx, 0).err = "ok"
                            <=> idx \in 0..(numItems(what) - 1)
        BY DEF ItemsBelowCount
    <2>1. what \in Asked
        BY DEF WalkInv, ReviewTypeOK, Asked
    <2>2. idx \in Int /\ idx \in (2 - UINT8_RANGE)..(UINT8_RANGE - 1)
        BY ReviewAssumption
    <2> QED
        BY <2>1, <2>2, ItemTypes DEF WalkInv, ReviewTypeOK
<1> QED
    BY <1>1, WalkInvariance, PTL

-------------------------------------------------------------------------------
(* How far each item is read. *)

Readable(what) ==
    /\ what \in Asked /\ what.kind # "none"
    /\ what.kind = "message" => what.len \in MessageLen

ItemKey(what, idx) ==
    IF what.kind = "message" THEN IF idx = 0 THEN "Blind" ELSE "Txn"
    ELSE IF idx = 0 THEN "Address" ELSE "Your Path"

TextLen(what, idx) ==
    IF what.kind = "message" THEN IF idx = 0 THEN 1 ELSE 2 * what.len
    ELSE IF idx = 0 THEN ADDRESS_LEN ELSE PATH_LEN

(***************************************************************************)
(* The pages as they are counted, and the characters that are on them.     *)
(***************************************************************************)
Counted(len) == uint8(PagesOf(len))

Extent(len) == IF PagesFit(len) THEN len ELSE Counted(len) * PAGE_LEN

Pages(what, idx) ==
    IF what.kind = "message" /\ idx = 0 THEN 1 ELSE Counted(TextLen(what, idx))

ReadLen(what, idx) ==
    IF what.kind = "message" /\ idx = 0 THEN 1 ELSE Extent(TextLen(what, idx))

LEMMA ItemTexts ==
    ASSUME NEW what
    PROVE  /\ ItemKey(what, 0) = IF what.kind = "message" THEN "Blind" ELSE "Address"
           /\ ItemKey(what, 1) = IF what.kind = "message" THEN "Txn" ELSE "Your Path"
           /\ ReadLen(what, 0) = IF what.kind = "message" THEN 1 ELSE Extent(ADDRESS_LEN)
           /\ ReadLen(what, 1) = IF what.kind = "message" THEN Extent(2 * what.len)
                                 ELSE Extent(PATH_LEN)
<1>1. 1 # 0
    OBVIOUS
<1> QED
    BY <1>1, Zenon DEF ItemKey, TextLen, ReadLen

(***************************************************************************)
(* A page that is shown: the only one of an item of no pages, or one of    *)
(* those that are counted.                                                 *)
(***************************************************************************)
PageShown(page, count) == page \in Nat /\ (page = 0 \/ page < count)

(***************************************************************************)
(* A screen goes on where the page before it ends, every page but the last *)
(* is full, and the last one ends what is shown of the text.               *)
(***************************************************************************)
GoesOn(got, key, len, count, page) ==
    /\ got.key = key /\ got.pageCount = count
    /\ got.first <= page * PAGE_LEN + 1
    /\ got.last >= page * PAGE_LEN
    /\ page + 1 < count => got.last = (page + 1) * PAGE_LEN
    /\ page + 1 >= count => got.last = len

LEMMA PageCount ==
    ASSUME NEW len \in Nat \ {0}
    PROVE  /\ PagesOf(len) \in Nat \ {0}
           /\ \A page \in Nat : page < PagesOf(len) => page * PAGE_LEN < len
           /\ PagesOf(len) * PAGE_LEN >= len
<1> DEFINE q == PagesOf(len)
<1>1. PAGE_LEN \in Nat \ {0}
    BY ReviewAssumption
<1>2. /\ q \in Nat
      /\ q * PAGE_LEN <= len + PAGE_LEN - 1
      /\ len + PAGE_LEN - 1 < q * PAGE_LEN + PAGE_LEN
    <2>1. len + PAGE_LEN - 1 \in Nat
        BY <1>1
    <2> QED
        BY <1>1, <2>1, Division DEF PagesOf
<1> HIDE DEF q
<1>3. q # 0
    <2>1. 0 * PAGE_LEN = 0
        BY <1>1
    <2> QED
        BY <1>1, <1>2, <2>1
<1>4. ASSUME NEW page \in Nat, page < q PROVE page * PAGE_LEN < len
    <2>1. (page + 1) * PAGE_LEN <= q * PAGE_LEN
        BY <1>1, <1>2, <1>4, Monotone
    <2>2. (page + 1) * PAGE_LEN = page * PAGE_LEN + PAGE_LEN
        BY <1>1
    <2>3. page * PAGE_LEN \in Nat /\ q * PAGE_LEN \in Nat
        BY <1>1, <1>2, Product
    <2> QED
        BY <1>1, <1>2, <2>1, <2>2, <2>3
<1>5. q * PAGE_LEN >= len
    <2>1. q * PAGE_LEN \in Nat
        BY <1>1, <1>2, Product
    <2> QED
        BY <1>1, <1>2, <2>1
<1> QED
    BY <1>2, <1>3, <1>4, <1>5 DEF q

(***************************************************************************)
(* What a counter of too many pages counts does not reach the end.         *)
(***************************************************************************)
LEMMA CountedPages ==
    ASSUME NEW len \in Nat \ {0}
    PROVE  /\ Counted(len) \in 0..(UINT8_RANGE - 1)
           /\ PagesFit(len) => Counted(len) = PagesOf(len)
           /\ ~PagesFit(len) => Counted(len) * PAGE_LEN < len
           /\ Extent(len) \in Nat
           /\ Extent(len) = len <=> PagesFit(len)
<1>1. /\ UINT8_RANGE \in Nat /\ PAGE_LEN \in Nat
      /\ PagesOf(len) \in Nat
      /\ \A page \in Nat : page < PagesOf(len) => page * PAGE_LEN < len
    BY PageCount, ReviewAssumption
<1>2. Counted(len) \in 0..(UINT8_RANGE - 1)
    BY <1>1, Uint8 DEF Counted
<1>3. PagesFit(len) => Counted(len) = PagesOf(len)
    <2>1. PagesFit(len) => PagesOf(len) \in 0..(UINT8_RANGE - 1)
        BY <1>1 DEF PagesFit
    <2> QED
        BY <1>1, <2>1, Uint8 DEF Counted
<1>4. ~PagesFit(len) => Counted(len) * PAGE_LEN < len
    <2>1. ~PagesFit(len) => Counted(len) < PagesOf(len)
        BY <1>1, <1>2 DEF PagesFit
    <2> QED
        BY <1>1, <1>2, <2>1
<1>5. Counted(len) * PAGE_LEN \in Nat
    BY <1>1, <1>2, Product
<1> HIDE DEF PagesFit
<1> QED
    BY <1>2, <1>3, <1>4, <1>5 DEF Extent

LEMMA PageGoesOn ==
    ASSUME NEW key, NEW len \in Nat \ {0}, NEW page, PageShown(page, Counted(len))
    PROVE  GoesOn(Page(key, len, page), key, Extent(len), Counted(len), page)
<1> DEFINE count == Counted(len)
           end == (page + 1) * PAGE_LEN
           got == Page(key, len, page)
<1> SUFFICES GoesOn(got, key, Extent(len), count, page)
    OBVIOUS
<1>1. PAGE_LEN \in Nat \ {0} /\ UINT8_RANGE \in Nat /\ page \in Nat
    BY ReviewAssumption DEF PageShown
<1>2. /\ page * PAGE_LEN \in Nat /\ end \in Nat
      /\ end = page * PAGE_LEN + PAGE_LEN
    BY <1>1, Product
<1>3. count \in 0..(UINT8_RANGE - 1)
    BY CountedPages
<1>4. /\ got.key = key /\ got.pageCount = count
      /\ got.first = page * PAGE_LEN + 1
      /\ got.last = IF page >= count THEN page * PAGE_LEN
                    ELSE IF end < len THEN end ELSE len
    BY DEF Page, Counted
<1> HIDE DEF got
<1>5. CASE count = 0
    <2>1. page = 0 /\ page * PAGE_LEN = 0 /\ got.last = 0
        BY <1>1, <1>3, <1>4, <1>5 DEF PageShown
    <2>2. ~PagesFit(len)
        BY <1>5, PageCount, CountedPages
    <2>3. Extent(len) = 0
        BY <1>1, <1>5, <2>2 DEF Extent
    <2> QED
        BY <1>1, <1>2, <1>3, <1>4, <1>5, <2>1, <2>3 DEF GoesOn
<1>6. CASE count # 0
    <2>1. page < count /\ got.last = IF end < len THEN end ELSE len
        BY <1>1, <1>3, <1>4, <1>6 DEF PageShown
    <2>2. /\ page * PAGE_LEN < len
          /\ page + 1 < count => end < len
        <3>1. PagesOf(len) \in Nat /\ count <= PagesOf(len)
            BY <1>3, PageCount, CountedPages, ReviewAssumption DEF PagesFit
        <3>2. page \in Nat /\ page + 1 \in Nat /\ page < PagesOf(len)
            BY <1>1, <1>3, <2>1, <3>1
        <3>3. page + 1 < count => page + 1 < PagesOf(len)
            BY <1>1, <1>3, <3>1
        <3> QED
            BY <3>2, <3>3, PageCount
    <2>3. page + 1 = count => got.last = Extent(len)
        <3>1. CASE PagesFit(len)
            BY <1>1, <1>2, <2>1, <3>1, PageCount, CountedPages DEF Extent
        <3>2. CASE ~PagesFit(len)
            <4>1. count * PAGE_LEN < len
                BY <3>2, CountedPages
            <4> QED
                BY <2>1, <3>2, <4>1 DEF Extent
        <3> QED
            BY <3>1, <3>2
    <2>4. page + 1 < count => got.last = end
        BY <2>1, <2>2
    <2>5. got.last >= page * PAGE_LEN
        BY <1>1, <1>2, <2>1, <2>2
    <2>6. page + 1 >= count => page + 1 = count
        BY <1>1, <1>3, <2>1
    <2> HIDE DEF count
    <2> QED
        BY <1>1, <1>2, <1>4, <2>3, <2>4, <2>5, <2>6 DEF GoesOn
<1> QED
    BY <1>5, <1>6

LEMMA BlindGoesOn == GoesOn(OnePage("Blind"), "Blind", 1, 1, 0)
<1>1. PAGE_LEN \in Nat /\ 0 * PAGE_LEN = 0
    BY ReviewAssumption
<1> QED
    BY <1>1 DEF GoesOn, OnePage

LEMMA ItemGoesOn ==
    ASSUME expert \in BOOLEAN, NEW what, Readable(what),
           NEW idx \in 0..(numItems(what) - 1), NEW page, PageShown(page, Pages(what, idx))
    PROVE  /\ GoesOn(getItem(what, idx, page), ItemKey(what, idx), ReadLen(what, idx),
                     Pages(what, idx), page)
           /\ Pages(what, idx) \in 0..(UINT8_RANGE - 1)
<1>0. /\ UINT8_RANGE \in Nat /\ UINT8_RANGE > 2 /\ page \in Nat
      /\ ADDRESS_LEN \in Nat \ {0} /\ PATH_LEN \in Nat \ {0}
    BY ReviewAssumption DEF PageShown
<1>1. idx \in 0..1 /\ idx \in (2 - UINT8_RANGE)..(UINT8_RANGE - 1)
    BY ItemInRange
<1>2. CASE what.kind = "message" /\ idx = 0
    <2>1. Pages(what, idx) = 1 /\ page = 0
        BY <1>0, <1>2 DEF Pages, PageShown
    <2>2. getItem(what, idx, page) = OnePage("Blind")
        <3>1. what.len \in MessageLen \cup {0}
            BY <1>2 DEF Readable, Asked
        <3>2. getItem(what, idx, page) = tx_getItem(what.len, idx, page)
            BY <1>2 DEF getItem
        <3> QED
            BY <1>0, <1>1, <1>2, <3>1, <3>2, MessageItem
    <2>3. ItemKey(what, idx) = "Blind" /\ ReadLen(what, idx) = 1
        BY <1>2 DEF ItemKey, ReadLen
    <2> QED
        BY <1>0, <2>1, <2>2, <2>3, BlindGoesOn
<1>3. CASE ~(what.kind = "message" /\ idx = 0)
    <2>1. /\ Pages(what, idx) = Counted(TextLen(what, idx))
          /\ ReadLen(what, idx) = Extent(TextLen(what, idx))
        BY <1>3 DEF Pages, ReadLen
    <2>2. /\ TextLen(what, idx) \in Nat \ {0}
          /\ getItem(what, idx, page) = Page(ItemKey(what, idx), TextLen(what, idx), page)
        <3>1. CASE what.kind = "message" /\ idx = 1
            <4>1. what.len \in MessageLen /\ idx # 0
                BY <3>1 DEF Readable
            <4>2. \A len \in MessageLen : 2 * len \in Nat \ {0}
                BY ReviewAssumption
            <4>3. ItemKey(what, idx) = "Txn" /\ TextLen(what, idx) = 2 * what.len
                BY <3>1, <4>1 DEF ItemKey, TextLen
            <4>4. getItem(what, idx, page) = tx_getItem(what.len, idx, page)
                BY <3>1 DEF getItem
            <4>5. tx_getItem(what.len, idx, page) =
                     IF idx = 0 THEN OnePage("Blind")
                     ELSE IF idx = 1 THEN Page("Txn", 2 * what.len, page)
                     ELSE Failed("zxerr_no_data")
                BY <1>0, <1>1, <4>1, MessageItem
            <4>6. tx_getItem(what.len, idx, page) = Page("Txn", 2 * what.len, page)
                BY <3>1, <4>1, <4>5, Zenon
            <4> QED
                BY <4>1, <4>2, <4>3, <4>4, <4>6
        <3>2. CASE what.kind # "message" /\ idx = 0
            BY <1>0, <3>2 DEF ItemKey, TextLen, getItem, addr_getItem
        <3>3. CASE what.kind # "message" /\ idx = 1
            <4>1. idx # 0 /\ expert
                BY <3>3 DEF numItems, addr_getNumItems
            <4>2. ItemKey(what, idx) = "Your Path" /\ TextLen(what, idx) = PATH_LEN
                BY <3>3, <4>1 DEF ItemKey, TextLen
            <4>3. getItem(what, idx, page) = Page("Your Path", PATH_LEN, page)
                BY <3>3, <4>1, Zenon DEF getItem, addr_getItem
            <4> QED
                BY <1>0, <4>2, <4>3
        <3> QED
            BY <1>1, <1>3, <3>1, <3>2, <3>3
    <2> QED
        BY <2>1, <2>2, PageGoesOn, CountedPages
<1> QED
    BY <1>2, <1>3

(***************************************************************************)
(* Items before this one are read as far as they are shown, this one to    *)
(* the end of the screen, and the next not yet.                            *)
(***************************************************************************)
AtScreen ==
    /\ Readable(asked)
    /\ PageShown(pageIdx, Pages(asked, itemIdx))
    /\ GoesOn(screen, ItemKey(asked, itemIdx), ReadLen(asked, itemIdx),
              Pages(asked, itemIdx), pageIdx)
    /\ Pages(asked, itemIdx) \in 0..(UINT8_RANGE - 1)
    /\ readTo[ItemKey(asked, itemIdx)] = screen.last
    /\ itemIdx = 1 => readTo[ItemKey(asked, 0)] = ReadLen(asked, 0)
    /\ itemIdx = 0 => readTo[ItemKey(asked, 1)] = 0

AtEnd ==
    itemIdx = numItems(asked) - 1 /\ pageIdx + 1 >= Pages(asked, itemIdx)

ReadInv ==
    /\ stage \in {"walk", "decide"} => AtScreen
    /\ stage = "decide" => AtEnd

(***************************************************************************)
(* Showing a page that goes on where the reader is.                        *)
(***************************************************************************)
LEMMA ShowReads ==
    ASSUME WalkInv, NEW what, Readable(what), NEW idx \in 0..1,
           idx \in 0..(numItems(what) - 1),
           NEW page, PageShown(page, Pages(what, idx)), NEW read \in [Key -> Nat],
           read[ItemKey(what, idx)] = page * PAGE_LEN,
           idx = 1 => read[ItemKey(what, 0)] = ReadLen(what, 0),
           idx = 0 => read[ItemKey(what, 1)] = 0,
           Show(what, idx, page, read), asked' = what, expert' = expert
    PROVE  AtScreen'
<1> DEFINE got == getItem(what, idx, page)
<1>1. expert \in BOOLEAN
    BY DEF WalkInv, ReviewTypeOK
<1>2. /\ GoesOn(got, ItemKey(what, idx), ReadLen(what, idx), Pages(what, idx), page)
      /\ Pages(what, idx) \in 0..(UINT8_RANGE - 1)
    BY <1>1, ItemGoesOn
<1>3. /\ itemIdx' = idx /\ pageIdx' = page /\ screen' = got
      /\ readTo' = [read EXCEPT ![got.key] =
                        IF got.first <= @ + 1 /\ got.last > @ THEN got.last ELSE @]
    BY DEF Show
<1> HIDE DEF got
<1>4. got.key = ItemKey(what, idx) /\ got.first <= page * PAGE_LEN + 1
      /\ got.last >= page * PAGE_LEN /\ page * PAGE_LEN \in Nat /\ got.last \in Nat
    <2>1. page \in Nat /\ what \in Asked /\ page * PAGE_LEN \in Nat
        BY Product, ReviewAssumption DEF PageShown, Readable
    <2>2. getItem(what, idx, page) \in ScreenType
        BY <1>1, <2>1, ItemTypes, ItemInRange
    <2> QED
        BY <1>2, <2>1, <2>2 DEF GoesOn, ScreenType, got
<1>5. ItemKey(what, 0) \in Key /\ ItemKey(what, 1) \in Key
      /\ ItemKey(what, 0) # ItemKey(what, 1) /\ ItemKey(what, idx) \in Key
    <2>1. ItemKey(what, 0) \in Key /\ ItemKey(what, 1) \in Key
          /\ ItemKey(what, 0) # ItemKey(what, 1)
        BY ItemTexts DEF Key
    <2>2. idx = 0 \/ idx = 1
        OBVIOUS
    <2> QED
        BY <2>1, <2>2
<1>6. readTo'[ItemKey(what, idx)] = got.last
    <2>1. readTo'[ItemKey(what, idx)] =
             IF got.first <= page * PAGE_LEN + 1 /\ got.last > page * PAGE_LEN
             THEN got.last ELSE page * PAGE_LEN
        BY <1>3, <1>4, <1>5
    <2> QED
        BY <1>4, <2>1
<1>7. \A key \in Key : key # ItemKey(what, idx) => readTo'[key] = read[key]
    BY <1>3, <1>4
<1>8. /\ idx = 1 => readTo'[ItemKey(what, 0)] = ReadLen(what, 0)
      /\ idx = 0 => readTo'[ItemKey(what, 1)] = 0
    BY <1>5, <1>7
<1>9. /\ Readable(asked)' = Readable(what)
      /\ ItemKey(asked, itemIdx)' = ItemKey(what, idx)
      /\ ItemKey(asked, 0)' = ItemKey(what, 0) /\ ItemKey(asked, 1)' = ItemKey(what, 1)
      /\ ReadLen(asked, itemIdx)' = ReadLen(what, idx)
      /\ ReadLen(asked, 0)' = ReadLen(what, 0)
      /\ Pages(asked, itemIdx)' = Pages(what, idx)
    BY <1>3 DEF Readable, ItemKey, TextLen, ReadLen, Pages
<1>10. GoesOn(screen, ItemKey(asked, itemIdx), ReadLen(asked, itemIdx),
              Pages(asked, itemIdx), pageIdx)'
    BY <1>2, <1>3, <1>9 DEF GoesOn
<1> QED
    BY <1>2, <1>3, <1>6, <1>8, <1>9, <1>10 DEF AtScreen

(***************************************************************************)
(* On the way the counter of pages does not wrap, whatever the item.       *)
(***************************************************************************)
LEMMA Walking ==
    ASSUME WalkInv, ReadInv, stage = "walk"
    PROVE  /\ AtScreen /\ screen.pageCount = Pages(asked, itemIdx)
           /\ uint8(pageIdx + 1) = pageIdx + 1
           /\ MorePages <=> pageIdx + 1 < Pages(asked, itemIdx)
<1>1. AtScreen /\ UINT8_RANGE \in Nat /\ UINT8_RANGE > 2
    BY ReviewAssumption DEF ReadInv
<1>2. pageIdx + 1 \in 0..(UINT8_RANGE - 1)
    BY <1>1 DEF AtScreen, PageShown
<1> QED
    BY <1>1, <1>2, Uint8 DEF AtScreen, GoesOn, MorePages

LEMMA ReadNext ==
    ASSUME WalkInv, ReadInv, [Next]_vars PROVE ReadInv'
<1>0. /\ expert \in BOOLEAN /\ asked \in Asked /\ readTo \in [Key -> Nat]
      /\ pageIdx \in Nat /\ itemIdx \in 0..(numItems(asked) - 1) /\ itemIdx \in 0..1
      /\ PAGE_LEN \in Nat /\ 0 * PAGE_LEN = 0
      /\ stage \in {"closed", "walk", "decide", "error"}
    BY ReviewAssumption DEF WalkInv, ReviewTypeOK, Asked
<1>1. ASSUME NEW what, Readable(what), Show(what, 0, 0, Unread), asked' = what,
             expert' = expert
      PROVE  ReadInv'
    <2>1. 0 \in 0..(numItems(what) - 1)
        BY <1>0, Start
    <2>2. PageShown(0, Pages(what, 0))
        BY DEF PageShown
    <2>3. /\ Unread[ItemKey(what, 0)] = 0 * PAGE_LEN
          /\ Unread[ItemKey(what, 1)] = 0
        BY <1>0 DEF Unread, ItemKey, Key
    <2>4. AtScreen'
        BY <1>1, <2>1, <2>2, <2>3, UnreadType, ShowReads
    <2>5. stage' = "walk"
        BY <1>1, <2>1, <1>0, UnreadType, ClosedType, ShowWalks DEF Readable
    <2> QED
        BY <2>4, <2>5 DEF ReadInv
<1>2. ASSUME NEW len \in MessageLen, ReviewMessage(len) PROVE ReadInv'
    <2>1. Readable([kind |-> "message", len |-> len])
        BY DEF Readable, Asked
    <2> QED
        BY <1>1, <1>2, <2>1 DEF ReviewMessage
<1>3. CASE ReviewAddress
    <2>1. Readable([kind |-> "address", len |-> 0])
        BY DEF Readable, Asked
    <2> QED
        BY <1>1, <1>3, <2>1 DEF ReviewAddress
<1>4. ASSUME NextPage PROVE ReadInv'
    <2>1. /\ AtScreen /\ uint8(pageIdx + 1) = pageIdx + 1
          /\ pageIdx + 1 < Pages(asked, itemIdx)
        BY <1>4, Walking DEF NextPage
    <2>2. PageShown(pageIdx + 1, Pages(asked, itemIdx))
        BY <1>0, <2>1 DEF PageShown
    <2>3. readTo[ItemKey(asked, itemIdx)] = (pageIdx + 1) * PAGE_LEN
        BY <2>1 DEF AtScreen, GoesOn
    <2>4. AtScreen'
        BY <1>0, <1>4, <2>1, <2>2, <2>3, ShowReads DEF NextPage, AtScreen
    <2>5. stage' # "decide"
        BY <1>4 DEF NextPage, Show
    <2> QED
        BY <2>4, <2>5 DEF ReadInv
<1>5. ASSUME NextItem PROVE ReadInv'
    <2>1. AtScreen /\ pageIdx + 1 >= Pages(asked, itemIdx)
        BY <1>0, <1>5, Walking DEF NextItem, AtScreen
    <2>2. itemIdx = 0 /\ 1 \in 0..(numItems(asked) - 1) /\ 1 \in 0..1
        BY <1>0, <1>5, NumItems DEF NextItem
    <2>3. PageShown(0, Pages(asked, 1))
        BY DEF PageShown
    <2>4. /\ readTo[ItemKey(asked, 1)] = 0 * PAGE_LEN
          /\ readTo[ItemKey(asked, 0)] = ReadLen(asked, 0)
        BY <1>0, <2>1, <2>2 DEF AtScreen, GoesOn
    <2>5. Show(asked, 1, 0, readTo) /\ asked' = asked /\ expert' = expert
        BY <1>5, <2>2 DEF NextItem
    <2>6. AtScreen'
        BY <1>0, <2>1, <2>2, <2>3, <2>4, <2>5, ShowReads DEF AtScreen
    <2>7. stage' # "decide"
        BY <2>5 DEF Show
    <2> QED
        BY <2>6, <2>7 DEF ReadInv
<1>6. ASSUME LastSeen PROVE ReadInv'
    <2>1. AtScreen /\ pageIdx + 1 >= Pages(asked, itemIdx)
        BY <1>0, <1>6, Walking DEF LastSeen, AtScreen
    <2>2. itemIdx = numItems(asked) - 1
        BY <1>0, <1>6, NumItems DEF LastSeen
    <2>3. AtScreen' /\ AtEnd'
        BY <1>6, <2>1, <2>2
           DEF LastSeen, AtScreen, AtEnd, Readable, GoesOn, ItemKey, TextLen, ReadLen,
               Pages, numItems, addr_getNumItems
    <2> QED
        BY <2>3 DEF ReadInv
<1>7. CASE Close \/ ToggleExpert
    BY <1>7 DEF Close, ToggleExpert, ReadInv
<1>8. CASE UNCHANGED vars
    BY <1>8 DEF vars, ReadInv, AtScreen, AtEnd, Readable, GoesOn, ItemKey, TextLen,
                ReadLen, Pages, numItems, addr_getNumItems
<1> QED
    BY <1>2, <1>3, <1>4, <1>5, <1>6, <1>7, <1>8 DEF Next

LEMMA ReadInvariance == Spec => [](WalkInv /\ ReadInv)
<1>1. Init => ReadInv
    BY DEF Init, ReadInv
<1>2. WalkInv /\ ReadInv /\ [Next]_vars => ReadInv'
    BY ReadNext
<1> QED
    BY <1>1, <1>2, WalkInvariance, PTL DEF Spec

(***************************************************************************)
(* Whoever has come to the last screen has read all of an address, and all *)
(* of a message exactly when its pages can be counted, for messages of any *)
(* length (parser.c:92-120, addr.c:37-60).                                 *)
(***************************************************************************)
THEOREM ReviewsAreComplete == Spec => []ReviewIsComplete
<1>1. WalkInv /\ ReadInv => ReviewIsComplete
    <2> SUFFICES ASSUME WalkInv, ReadInv, stage = "decide"
                 PROVE  /\ asked.kind = "message" =>
                              /\ readTo["Blind"] = 1
                              /\ readTo["Txn"] = 2 * asked.len
                                     <=> PagesFit(2 * asked.len)
                        /\ asked.kind = "address" =>
                              /\ readTo["Address"] = ADDRESS_LEN
                              /\ expert => readTo["Your Path"] = PATH_LEN
        BY DEF ReviewIsComplete
    <2>1. /\ readTo[ItemKey(asked, itemIdx)] = ReadLen(asked, itemIdx)
          /\ itemIdx = 1 => readTo[ItemKey(asked, 0)] = ReadLen(asked, 0)
          /\ itemIdx = numItems(asked) - 1
        BY DEF ReadInv, AtScreen, AtEnd, GoesOn
    <2>2. Extent(ADDRESS_LEN) = ADDRESS_LEN /\ Extent(PATH_LEN) = PATH_LEN
        BY AddressAssumption DEF Extent
    <2>3. CASE asked.kind = "message"
        <3>1. itemIdx = 1
            BY <2>1, <2>3 DEF numItems, parser_getNumItems
        <3>2. 2 * asked.len \in Nat \ {0}
            <4>1. \A len \in MessageLen : 2 * len \in Nat \ {0}
                BY ReviewAssumption
            <4> QED
                BY <2>3, <4>1 DEF ReadInv, AtScreen, Readable
        <3>3. readTo["Blind"] = 1 /\ readTo["Txn"] = Extent(2 * asked.len)
            BY <2>1, <2>3, <3>1, ItemTexts
        <3> QED
            BY <2>3, <3>2, <3>3, CountedPages
    <2>4. CASE asked.kind = "address" /\ expert
        <3>1. itemIdx = 1
            BY <2>1, <2>4 DEF numItems, addr_getNumItems
        <3> QED
            BY <2>1, <2>2, <2>4, <3>1, ItemTexts
    <2>5. CASE asked.kind = "address" /\ ~expert
        <3>1. itemIdx = 0
            BY <2>1, <2>5 DEF numItems, addr_getNumItems
        <3> QED
            BY <2>1, <2>2, <2>5, <3>1, ItemTexts
    <2> QED
        BY <2>3, <2>4, <2>5
<1> QED
    BY <1>1, ReadInvariance, PTL

(***************************************************************************)
(* A walk shows no screen twice, whatever is counted: bounded as its items *)
(* and pages are, it cannot go on for ever (fuzz/parser_parse.cpp:45-60).  *)
(***************************************************************************)
THEOREM WalksAdvance == Spec => WalkAdvances
<1> DEFINE Advances == stage = "walk" /\ stage' = "walk" =>
                          \/ itemIdx' > itemIdx
                          \/ itemIdx' = itemIdx /\ pageIdx' > pageIdx
<1>1. WalkInv /\ ReadInv /\ [Next]_vars => [Advances]_vars
    <2> SUFFICES ASSUME WalkInv, ReadInv, Next, stage = "walk", stage' = "walk"
                 PROVE  \/ itemIdx' > itemIdx
                        \/ itemIdx' = itemIdx /\ pageIdx' > pageIdx
        OBVIOUS
    <2>0. itemIdx \in Nat /\ pageIdx \in Nat
        BY DEF WalkInv, ReviewTypeOK
    <2>1. CASE NextPage
        BY <2>0, <2>1, Walking DEF NextPage, Show
    <2>2. CASE NextItem
        BY <2>0, <2>2 DEF NextItem, Show
    <2> QED
        BY <2>1, <2>2
           DEF Next, ReviewMessage, ReviewAddress, LastSeen, Close, ToggleExpert
<1> QED
    BY <1>1, ReadInvariance, PTL DEF Spec, WalkAdvances
===============================================================================

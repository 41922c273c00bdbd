----------------------------- MODULE BeaconList ------------------------------
(***************************************************************************)
(* The list of beacons on its way from the data base to the user: the loop *)
(* of getAllData (db.c) writes the names one after the other, each with    *)
(* CR LF behind it; the client gets that text with the four bytes in front *)
(* that parse_content leaves there, copies Content-Length bytes of it and  *)
(* takes it apart again in the loop of showAllBeacons (ncurse_cli.c); the  *)
(* user then types a name, which keyExistInServer looks for.               *)
(*                                                                         *)
(* Names are sequences of characters.  Positions in content are those of   *)
(* the code, from 0.                                                       *)
(***************************************************************************)
EXTENDS Integers, Sequences, SequencesExt

CONSTANTS
    Chars,         \* the characters of names
    Listings,      \* the sequences of names dbm_firstkey/dbm_nextkey may run through
    Typed,         \* what users type
    CR, LF, NUL,
    DumpSize,      \* bytes of http_get's buffer
    CopySize,      \* bytes of current_beacon
    RowSize,       \* bytes of a row of temp_array
    Rows           \* rows of temp_array

ASSUME ListAssumption ==
    /\ DumpSize \in Nat /\ CopySize \in Nat /\ RowSize \in Nat /\ Rows \in Nat
    /\ CR # LF /\ NUL # CR /\ NUL # LF /\ {CR, LF, NUL} \cap Chars = {}
    /\ Listings \subseteq Seq(Seq(Chars))

VARIABLES
    pc,            \* "dump", "parse", "ask", "chosen", or "overflow"
    beacons,       \* the names in the data base, in its order
    read,          \* names getAllData has taken
    buffer,        \* what it has written
    content,       \* the client's copy
    beacon_begin, beacon_end,
    window_index,
    temp_array,    \* the rows that were filled
    refused        \* names that the user was told do not exist

vars == <<pc, beacons, read, buffer, content, beacon_begin, beacon_end,
          window_index, temp_array, refused>>

Null == -1

Init ==
    /\ beacons \in Listings
    /\ pc = "dump" /\ read = 0 /\ buffer = <<>>
    /\ content = <<>> /\ beacon_begin = 0 /\ beacon_end = 0 /\ window_index = 0
    /\ temp_array = <<>> /\ refused = {}

Overflow ==
    /\ pc' = "overflow"
    /\ UNCHANGED <<beacons, read, buffer, content, beacon_begin, beacon_end,
                   window_index, temp_array, refused>>

-----------------------------------------------------------------------------
(* getAllData *)
Extended == buffer \o beacons[read + 1] \o <<CR, LF>>

DumpKey ==
    /\ pc = "dump" /\ read < Len(beacons)
    /\ Len(Extended) < DumpSize
    /\ buffer' = Extended /\ read' = read + 1
    /\ UNCHANGED <<pc, beacons, content, beacon_begin, beacon_end, window_index,
                   temp_array, refused>>

DumpOverflows ==
    /\ pc = "dump" /\ read < Len(beacons)
    /\ Len(Extended) >= DumpSize
    /\ Overflow

(* Mutant: the content starts behind the empty line. *)
ParsedBehindEmptyLine(body) == body

(* What parse_http_response leaves as the content: it stops in front of    *)
(* the empty line, so both ends of line come with it.                      *)
Parsed(body) == <<CR, LF, CR, LF>> \o body

(* showAllBeacons: Content-Length bytes, an end of line, a zero byte.      *)
Copied(body) == SubSeq(Parsed(body), 1, Len(body)) \o <<CR, LF, NUL>>

(* An empty list is answered with a page and does not get here. *)
ShowAll ==
    /\ pc = "dump" /\ read = Len(beacons) /\ buffer # <<>>
    /\ content' = Copied(buffer)
    /\ pc' = "parse"
    /\ beacon_begin' = 0 /\ beacon_end' = 0 /\ window_index' = 0
    /\ UNCHANGED <<beacons, read, buffer, temp_array, refused>>

-----------------------------------------------------------------------------
(* strchr(content + i, '\r'): the string ends at its first zero byte. *)
Strchr(i) ==
    LET found == {j \in i .. Len(content) - 1 :
                    content[j + 1] = CR /\ \A n \in i .. j : content[n + 1] # NUL}
    IN  IF found = {} THEN Null ELSE CHOOSE j \in found : \A n \in found : j <= n

(* The bytes from i up to j. *)
Between(i, j) == SubSeq(content, i + 1, j)

(* Mutant: the last end of line is looked for from the start of the name.  *)
NextEndTooEarly(end) == IF Strchr(end) # Null THEN end ELSE Null

(* Another name follows the one that ends at end. *)
NextEnd(end) == IF Strchr(end + 2) # Null THEN end ELSE Null

(* The current_beacon and the row it is copied to end with a zero byte. *)
Fits(name) == Len(name) < CopySize /\ Len(name) < RowSize /\ window_index < Rows

(* Mutant: the name keeps the character its end of line begins with. *)
ParseBeaconTooLong ==
    /\ pc = "parse" /\ beacon_end # Null
    /\ LET begin == beacon_begin + 2
           end   == Strchr(begin)
           name  == Between(begin, end + 1)
       IN  /\ end # Null /\ Fits(name)
           /\ temp_array' = Append(temp_array, name)
           /\ beacon_begin' = end /\ beacon_end' = NextEnd(end)
    /\ window_index' = window_index + 1
    /\ UNCHANGED <<pc, beacons, read, buffer, content, refused>>

(* Mutant: the index of the rows stays behind. *)
ParseBeaconIndexStays ==
    /\ pc = "parse" /\ beacon_end # Null
    /\ LET begin == beacon_begin + 2
           end   == Strchr(begin)
           name  == Between(begin, end)
       IN  /\ end # Null /\ Fits(name)
           /\ temp_array' = Append(temp_array, name)
           /\ beacon_begin' = end /\ beacon_end' = NextEnd(end)
    /\ UNCHANGED <<pc, beacons, read, buffer, content, window_index, refused>>

(* The body of the loop of showAllBeacons. *)
ParseBeacon ==
    /\ pc = "parse" /\ beacon_end # Null
    /\ LET begin == beacon_begin + 2
           end   == Strchr(begin)
           name  == Between(begin, end)
       IN  /\ end # Null /\ Fits(name)
           /\ temp_array' = Append(temp_array, name)
           /\ beacon_begin' = end /\ beacon_end' = NextEnd(end)
    /\ window_index' = window_index + 1
    /\ UNCHANGED <<pc, beacons, read, buffer, content, refused>>

(* It copies as far as strchr says, wherever that is. *)
ParseOverflows ==
    /\ pc = "parse" /\ beacon_end # Null
    /\ LET begin == beacon_begin + 2
           end   == Strchr(begin)
       IN  end = Null \/ ~Fits(Between(begin, end))
    /\ Overflow

ParseDone ==
    /\ pc = "parse" /\ beacon_end = Null
    /\ pc' = "ask"
    /\ UNCHANGED <<beacons, read, buffer, content, beacon_begin, beacon_end,
                   window_index, temp_array, refused>>

-----------------------------------------------------------------------------
keyExistInServer(name) == name \in Range(temp_array)

(* The user types a name; an empty one is asked for again. *)
Choose(name) ==
    /\ pc = "ask" /\ name # <<>> /\ keyExistInServer(name)
    /\ pc' = "chosen"
    /\ UNCHANGED <<beacons, read, buffer, content, beacon_begin, beacon_end,
                   window_index, temp_array, refused>>

Refuse(name) ==
    /\ pc = "ask" /\ name # <<>> /\ ~keyExistInServer(name)
    /\ refused' = refused \cup {name}
    /\ UNCHANGED <<pc, beacons, read, buffer, content, beacon_begin, beacon_end,
                   window_index, temp_array>>

(* Whatever was typed, 101 bytes are copied over the 36 of the selection.  *)
AnswerOverflows == pc = "ask" /\ Overflow

Step ==
    \/ DumpKey \/ DumpOverflows \/ ShowAll
    \/ ParseBeacon \/ ParseOverflows \/ ParseDone

Next ==
    \/ Step
    \/ \E name \in Typed : Choose(name) \/ Refuse(name)
    \/ AnswerOverflows

Spec == Init /\ [][Next]_vars

(* The loops run on by themselves; the user may leave the prompt alone. *)
FairSpec == Spec /\ WF_vars(Step)

-----------------------------------------------------------------------------
(* The pointers of the loop stay in the copy, and the rows are what was    *)
(* parsed so far.                                                          *)
TypeOK ==
    /\ pc \in {"dump", "parse", "ask", "chosen", "overflow"}
    /\ beacons \in Listings /\ read \in 0 .. Len(beacons)
    /\ beacon_begin \in 0 .. Len(content)
    /\ beacon_end \in {Null, 0, beacon_begin}
    /\ Len(temp_array) = window_index
    /\ refused \subseteq Typed

(* strchr never returns NULL inside the loop, whose body uses the result   *)
(* without a test: the copy always has one more end of line to find.       *)
LoopFindsEndOfLine ==
    pc = "parse" /\ beacon_end # Null => Strchr(beacon_begin + 2) # Null

(* The last name without its last two characters; they and the end of line *)
(* are the four bytes the copy is short of.                                *)
Cut(name) == SubSeq(name, 1, Len(name) - 2)

(* What can be chosen is a name of the data base, or the last one cut.     *)
ChosenIsListedOrCut ==
    pc = "ask" => \A name \in Range(temp_array) \ {<<>>} :
                     name \in Range(beacons) \/ name = Cut(Last(beacons))

(* Every name but the last one is there to be chosen. *)
AllButLastCanBeChosen ==
    pc = "ask" => \A i \in 1 .. Len(beacons) - 1 : keyExistInServer(beacons[i])

(* The bytes getAllData writes for the first n names. *)
Written[n \in 0 .. Len(beacons)] == IF n = 0 THEN 0 ELSE Written[n - 1] + Len(beacons[n]) + 2

(* The rows the loop fills: an empty one first, for what is between the two *)
(* ends of line in front of the list, and one per name; a last name of one  *)
(* character is lost with the four bytes and gets none.                    *)
RowsFilled == Len(beacons) + (IF Len(Last(beacons)) >= 2 THEN 1 ELSE 0)

(* The list fits in http_get's buffer, every name in current_beacon and in  *)
(* a row, and there is a row for all the loop fills.                       *)
NothingTooLong ==
    /\ Written[Len(beacons)] < DumpSize
    /\ \A i \in DOMAIN beacons : Len(beacons[i]) < CopySize /\ Len(beacons[i]) < RowSize
    /\ RowsFilled <= Rows

(* The loops of getAllData and showAllBeacons never run over a buffer when  *)
(* the list is not too long for one of them; the last row is filled then    *)
(* without the one behind it being touched.                                *)
LoopsStayInside ==
    [][(pc \in {"dump", "parse"} /\ beacons # <<>> /\ NothingTooLong)
            => pc' # "overflow"]_vars

(* numberOfBeacons, which is window_index after the loop, counts the empty  *)
(* row too: it is the number of beacons only when the last one has no row.  *)
(* So NothingTooLong asks for no row that is not needed.                   *)
EveryRowIsCounted == pc = "ask" => window_index = RowsFilled /\ RowsFilled <= Rows

(* A list for which the buffers are large enough gets through both loops   *)
(* to the prompt: the four bytes in front of the content and the four that *)
(* are missing behind it never make them run on or off the end.            *)
PromptIsReached ==
    pc = "dump" /\ beacons # <<>> /\ NothingTooLong ~> pc \in {"ask", "chosen"}

(* showAllBeacons tells the user "beacon does not exist" only of names     *)
(* that are not in the data base.                                          *)
RefusedDoesNotExist == refused \cap Range(beacons) = {}
==============================================================================

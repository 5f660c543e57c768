-------------------------------- MODULE Paging --------------------------------
(***************************************************************************)
(* The pages in which the MCP server shows a list of users or sessions     *)
(* (src/src/backend_client.py, src/src/mcp_server.py).                     *)
(***************************************************************************)
EXTENDS Integers, Sequences, TLAPS

CONSTANT None  \* an argument that was not given, or no next page

\* _validate_mcp_request_options lets these through.
Limits  == 1..100 \cup {None}
Offsets == Nat \cup {None}

Clamped(n, low, high) == IF n < low THEN low ELSE IF n > high THEN high ELSE n
normalized_limit(limit)   == IF limit = None THEN 50 ELSE Clamped(limit, 1, 100)
normalized_offset(offset) == IF offset = None \/ offset < 0 THEN 0 ELSE offset

paginateCollection(items, limit, offset) ==
  LET start == normalized_offset(offset)
      end   == start + normalized_limit(limit)
      page  == SubSeq(items, start + 1, IF end > Len(items) THEN Len(items) ELSE end)
  IN [page        |-> page,
      next_offset |-> IF start + Len(page) < Len(items) THEN start + Len(page) ELSE None]

\* Reading on from next_offset, with any limit at any page, neither skips nor repeats an item and
\* comes to an end: a page is the stretch of the list that begins at its offset, the next one
\* begins where it stops, further on, and there is none exactly when the list is exhausted
\* (src/src/backend_client.py:493-501).
THEOREM PagesAdjoin ==
  ASSUME NEW T, NEW items \in Seq(T), NEW limit \in Limits, NEW offset \in Offsets, None \notin Int
  PROVE  LET start == normalized_offset(offset)
             shown == paginateCollection(items, limit, offset)
         IN /\ shown.page \in Seq(T) /\ Len(shown.page) <= 100
            /\ \A i \in 1..Len(shown.page) : shown.page[i] = items[start + i]
            /\ shown.next_offset = None <=> start + Len(shown.page) >= Len(items)
            /\ shown.next_offset # None =>
                 shown.next_offset = start + Len(shown.page) /\ shown.next_offset > start
<1> DEFINE start == normalized_offset(offset)
           size  == normalized_limit(limit)
           last  == IF start + size > Len(items) THEN Len(items) ELSE start + size
           page  == SubSeq(items, start + 1, last)
           shown == paginateCollection(items, limit, offset)
<1>1. start \in Nat /\ size \in 1..100 /\ last \in Nat /\ last <= Len(items)
  BY DEF normalized_offset, normalized_limit, Clamped, Limits, Offsets
<1>2. shown.page = page
      /\ shown.next_offset = IF start + Len(page) < Len(items) THEN start + Len(page) ELSE None
  BY DEF paginateCollection
<1> HIDE DEF start, size, shown
<1>3. /\ page \in Seq(T)
      /\ Len(page) = IF start + 1 <= last THEN last - start ELSE 0
      /\ \A i \in 1..Len(page) : page[i] = items[start + i]
  BY <1>1
<1>4. Len(page) <= 100 /\ (start < Len(items) => Len(page) > 0)
  BY <1>1, <1>3
<1> HIDE DEF page
<1>5. None # start + Len(page)
  BY <1>1, <1>3
<1>6. /\ shown.page \in Seq(T) /\ Len(shown.page) <= 100
      /\ \A i \in 1..Len(shown.page) : shown.page[i] = items[start + i]
      /\ shown.next_offset = None <=> start + Len(shown.page) >= Len(items)
      /\ shown.next_offset # None =>
           shown.next_offset = start + Len(shown.page) /\ shown.next_offset > start
  BY <1>1, <1>2, <1>3, <1>4, <1>5
<1> QED
  BY <1>6 DEF start, shown
=============================================================================

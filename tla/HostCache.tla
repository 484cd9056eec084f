----------------------------- MODULE HostCache -----------------------------
(***************************************************************************)
(* ProxyHostRepository over PostgreSQL and the five-minute cache of rows   *)
(* in Valkey (api/internal/repository/proxy_host.go, pkg/cache/redis.go).  *)
(*                                                                         *)
(* Every statement and every cache command is a step of its own: there is  *)
(* no transaction around them, and a cache command that fails is logged    *)
(* and ignored.  Update reads the row, from the cache when it is there,    *)
(* and writes back every column of what it read.  Another writer of the    *)
(* rows is PostgreSQL itself: the foreign keys of certificate_id and       *)
(* access_list_id are ON DELETE SET NULL, and no cached row goes with them. *)
(***************************************************************************)
EXTENDS Naturals

CONSTANTS Clients, Hosts, Fields, Values, Marks,
          References,  \* the columns that name a certificate or an access list
          None,        \* they name none
          NoRow,       \* no row, or nothing cached
          CacheErrors  \* a cache command may fail

\* The columns Update writes, and those only UpdateConfigStatus and ToggleFavorite do.
Row == [data : [Fields -> Values], mark : Marks]

ASSUME RowAssumption == NoRow \notin Row
ASSUME ReferenceAssumption == References \subseteq Fields /\ None \in Values
ASSUME ErrorAssumption == CacheErrors \in BOOLEAN

VARIABLES row,    \* proxy_hosts, by id
          gone,   \* the certificates and access lists that were deleted
          cache,  \* the cached rows
          pc, loc, \* where each call is, and its local variables
          past,   \* the data every row ever had
          alone   \* no two calls overlapped yet, and no cache command failed

vars == <<row, gone, cache, pc, loc, past, alone>>

Steps == {"idle", "lookup", "select", "fill", "write", "invalidate", "store", "drop", "delete"}

\* The types: what a call has read is a row.
TypeOK ==
  /\ row \in [Hosts -> Row \cup {NoRow}]
  /\ gone \in [References -> SUBSET Values]
  /\ cache \in [Hosts -> Row \cup {NoRow}]
  /\ pc \in [Clients -> Steps]
  /\ \A c \in Clients : pc[c] # "idle" => loc[c].host \in Hosts
  /\ \A c \in Clients : pc[c] \in {"fill", "write", "store"} => loc[c].val \in Row
  /\ past \in [Hosts -> SUBSET [Fields -> Values]]
  /\ alone \in BOOLEAN

Init ==
  /\ row \in [Hosts -> Row]
  /\ gone = [f \in References |-> {}]
  /\ cache = [h \in Hosts |-> NoRow]
  /\ pc = [c \in Clients |-> "idle"]
  /\ loc = [c \in Clients |-> NoRow]
  /\ past = [h \in Hosts |-> {row[h].data}]
  /\ alone = TRUE

-----------------------------------------------------------------------------
To(c, step) == pc' = [pc EXCEPT ![c] = step]

Done(c) == To(c, "idle") /\ loc' = [loc EXCEPT ![c] = NoRow]

\* A cache command: the cache becomes new, or the command fails.
Cached(new) ==
  \/ cache' = new /\ UNCHANGED alone
  \/ CacheErrors /\ cache' = cache /\ alone' = FALSE

\* A call begins, alone or while another is under way.
Begins(c) ==
  /\ pc[c] = "idle"
  /\ alone' = (alone /\ \A d \in Clients : pc[d] = "idle")

\* Mutant of Merged: a column the request does not name gets its zero value.
Merged_NoGuard(val, req) ==
  [val EXCEPT !.data = [f \in Fields |-> IF f \in DOMAIN req THEN req[f]
                                         ELSE CHOOSE v \in Values : TRUE]]

\* The request names the columns it changes.
Merged(val, req) ==
  [val EXCEPT !.data = [f \in Fields |-> IF f \in DOMAIN req THEN req[f] ELSE val.data[f]]]

\* GetByID to read a row, and Update, which calls it first.
Start(c, op, h, req) ==
  /\ Begins(c)
  /\ op \in {"get", "update"}
  /\ loc' = [loc EXCEPT ![c] = [op |-> op, host |-> h, req |-> req, val |-> NoRow]]
  /\ To(c, "lookup")
  /\ UNCHANGED <<row, gone, cache, past>>

\* GetByID has the row: Update merges its request, a read is done.
Has(c, val) ==
  IF loc[c].op = "get"
  THEN Done(c)
  ELSE /\ loc' = [loc EXCEPT ![c].val = Merged(val, loc[c].req)]
       /\ To(c, "write")

Lookup(c) ==
  /\ pc[c] = "lookup"
  /\ LET val == cache[loc[c].host] IN
       \/ val # NoRow /\ Has(c, val)
       \/ (val = NoRow \/ CacheErrors) /\ To(c, "select") /\ UNCHANGED loc
  /\ UNCHANGED <<row, gone, cache, past, alone>>

\* Mutant of Select: that there is no row is not an error.
Select_NoCheck(c) ==
  /\ pc[c] = "select"
  /\ loc' = [loc EXCEPT ![c].val = row[loc[c].host]]
  /\ To(c, "fill")
  /\ UNCHANGED <<row, gone, cache, past, alone>>

Select(c) ==
  /\ pc[c] = "select"
  /\ LET val == row[loc[c].host] IN
       IF val = NoRow
       THEN Done(c)
       ELSE loc' = [loc EXCEPT ![c].val = val] /\ To(c, "fill")
  /\ UNCHANGED <<row, gone, cache, past, alone>>

Fill(c) ==
  /\ pc[c] = "fill"
  /\ Cached([cache EXCEPT ![loc[c].host] = loc[c].val])
  /\ Has(c, loc[c].val)
  /\ UNCHANGED <<row, gone, past>>

\* Mutant of Write: that no row was updated is not an error.
Write_MissingIgnored(c) ==
  /\ pc[c] = "write"
  /\ LET h == loc[c].host
         d == loc[c].val.data
     IN IF row[h] = NoRow
        THEN UNCHANGED <<row, past>>
        ELSE row' = [row EXCEPT ![h].data = d] /\ past' = [past EXCEPT ![h] = @ \cup {d}]
  /\ To(c, "invalidate")
  /\ UNCHANGED <<gone, cache, loc, alone>>

\* What columns name exists: the check of the foreign keys.
Exist(d) == \A f \in References : d[f] \notin gone[f]

\* UPDATE ... RETURNING: a row deleted meanwhile is an error, and so is a column that names what
\* was deleted, be it the request's or one the cached row still has.
Write(c) ==
  /\ pc[c] = "write"
  /\ LET h == loc[c].host
         d == loc[c].val.data
     IN IF row[h] = NoRow \/ ~Exist(d)
        THEN Done(c) /\ UNCHANGED <<row, past>>
        ELSE /\ row' = [row EXCEPT ![h].data = d]
             /\ past' = [past EXCEPT ![h] = @ \cup {d}]
             /\ To(c, "invalidate") /\ UNCHANGED loc
  /\ UNCHANGED <<gone, cache, alone>>

\* Update stores what it wrote after the invalidation; the others only invalidate.
Invalidate(c) ==
  /\ pc[c] = "invalidate"
  /\ Cached([cache EXCEPT ![loc[c].host] = NoRow])
  /\ IF loc[c].op = "update" THEN To(c, "store") /\ UNCHANGED loc ELSE Done(c)
  /\ UNCHANGED <<row, gone, past>>

Store(c) ==
  /\ pc[c] = "store"
  /\ Cached([cache EXCEPT ![loc[c].host] = loc[c].val])
  /\ Done(c)
  /\ UNCHANGED <<row, gone, past>>

\* Mutant of Mark: the cached row stays.
Mark_NoInvalidate(c, h, m) ==
  /\ pc[c] = "idle"
  /\ row[h] # NoRow
  /\ row' = [row EXCEPT ![h].mark = m]
  /\ UNCHANGED <<gone, cache, pc, loc, past, alone>>

\* UpdateConfigStatus and ToggleFavorite: one column, in one statement.
Mark(c, h, m) ==
  /\ Begins(c)
  /\ row[h] # NoRow
  /\ row' = [row EXCEPT ![h].mark = m]
  /\ loc' = [loc EXCEPT ![c] = [op |-> "mark", host |-> h, req |-> NoRow, val |-> NoRow]]
  /\ To(c, "invalidate")
  /\ UNCHANGED <<gone, cache, past>>

StartDelete(c, h) ==
  /\ Begins(c)
  /\ row[h] # NoRow
  /\ loc' = [loc EXCEPT ![c] = [op |-> "delete", host |-> h, req |-> NoRow, val |-> NoRow]]
  /\ To(c, "drop")
  /\ UNCHANGED <<row, gone, cache, past>>

\* Delete invalidates first and deletes then.
Drop(c) ==
  /\ pc[c] = "drop"
  /\ Cached([cache EXCEPT ![loc[c].host] = NoRow])
  /\ To(c, "delete")
  /\ UNCHANGED <<row, gone, loc, past>>

Delete(c) ==
  /\ pc[c] = "delete"
  /\ row' = [row EXCEPT ![loc[c].host] = NoRow]
  /\ Done(c)
  /\ UNCHANGED <<gone, cache, past, alone>>

Expire(h) ==
  /\ cache[h] # NoRow
  /\ cache' = [cache EXCEPT ![h] = NoRow]
  /\ UNCHANGED <<row, gone, pc, loc, past, alone>>

\* A row without what it names in a column.
Cleared(r, f, v) ==
  IF r # NoRow /\ r.data[f] = v THEN [r EXCEPT !.data[f] = None] ELSE r

\* A certificate or an access list is deleted: the foreign keys clear the columns that name it.
DeleteReferenced(f, v) ==
  /\ v # None /\ v \notin gone[f]
  /\ gone' = [gone EXCEPT ![f] = @ \cup {v}]
  /\ row' = [h \in Hosts |-> Cleared(row[h], f, v)]
  /\ past' = [h \in Hosts |-> IF row'[h] = NoRow THEN past[h] ELSE past[h] \cup {row'[h].data}]
  /\ UNCHANGED <<cache, pc, loc, alone>>

-----------------------------------------------------------------------------
Requests == UNION {[fs -> Values] : fs \in SUBSET Fields}

Next ==
  \/ \E c \in Clients, h \in Hosts :
       \/ Start(c, "get", h, NoRow)
       \/ \E req \in Requests : Start(c, "update", h, req)
       \/ \E m \in Marks : Mark(c, h, m)
       \/ StartDelete(c, h)
  \/ \E c \in Clients :
       \/ Lookup(c) \/ Select(c) \/ Fill(c) \/ Write(c) \/ Invalidate(c) \/ Store(c)
       \/ Drop(c) \/ Delete(c)
  \/ \E h \in Hosts : Expire(h)
  \/ \E f \in References, v \in Values : DeleteReferenced(f, v)

Spec == Init /\ [][Next]_vars

-----------------------------------------------------------------------------
Quiet == \A c \in Clients : pc[c] = "idle"

\* A column whose value is the row's, or names what was deleted and the row does not name any more.
Shows(val, r, f) ==
  \/ val.data[f] = r.data[f]
  \/ f \in References /\ val.data[f] \in gone[f] /\ r.data[f] = None

\* The row, as it is or as it was before the foreign keys cleared columns.
IsRow(val, r) == r # NoRow /\ val.mark = r.mark /\ \A f \in Fields : Shows(val, r, f)

\* The cache shows the row: once calls that never overlapped are done, and no cache command
\* failed, it has no other value than the table, except that it may go on naming a certificate
\* or an access list that was deleted, of which nothing tells the cache.
CacheIsRow == alone /\ Quiet => \A h \in Hosts : cache[h] = NoRow \/ IsRow(cache[h], row[h])

\* A column is cleared because what it names is deleted in this step.
LosesIt(h, f) ==
  f \in References /\ row'[h].data[f] = None /\ row[h].data[f] \in gone'[f] \ gone[f]

\* A partial update changes the columns its request names, to the values it names, and takes no
\* other column back to an earlier value, as long as calls do not overlap: not even one the
\* foreign keys cleared while the cached row still had it.
OnlyRequested ==
  [][alone' => \A h \in Hosts, f \in Fields :
       row[h] # NoRow /\ row'[h] # NoRow /\ row'[h].data[f] # row[h].data[f] =>
         \/ LosesIt(h, f)
         \/ \E c \in Clients :
              /\ pc[c] = "write" /\ loc[c].host = h
              /\ f \in DOMAIN loc[c].req /\ row'[h].data[f] = loc[c].req[f]]_vars

\* However calls interleave, the cache never shows columns the row never had.
CacheIsCommitted == \A h \in Hosts : cache[h] # NoRow => cache[h].data \in past[h]
=============================================================================

-------------------------- MODULE HostCache_proofs --------------------------
(* What is proved of the cached rows, for any number of clients, hosts and columns. *)
EXTENDS HostCache, TLAPS

Calls == [op : {"get", "update", "mark", "delete"}, host : Hosts,
          req : Requests \cup {NoRow}, val : Row \cup {NoRow}]

\* What a call keeps from one step to the next.
CallOK(c) ==
  pc[c] # "idle" =>
    /\ loc[c] \in Calls
    /\ pc[c] \in {"lookup", "select", "fill"} => loc[c].op \in {"get", "update"}
    /\ loc[c].op = "update" => loc[c].req \in Requests
    /\ pc[c] \in {"write", "store"} => loc[c].op = "update"
    /\ pc[c] \in {"fill", "write", "store"} => loc[c].val \in Row
    /\ pc[c] = "invalidate" /\ loc[c].op = "update" => loc[c].val \in Row

\* What a call is about to cache is a row that was committed.
WillCache(c) ==
  pc[c] \in {"fill", "store"} \/ (pc[c] = "invalidate" /\ loc[c].op = "update") =>
    loc[c].val.data \in past[loc[c].host]

Tables ==
  /\ row \in [Hosts -> Row \cup {NoRow}]
  /\ gone \in [References -> SUBSET Values]
  /\ cache \in [Hosts -> Row \cup {NoRow}]
  /\ pc \in [Clients -> Steps]
  /\ past \in [Hosts -> SUBSET [Fields -> Values]]
  /\ DOMAIN loc = Clients

RowIsPast == \A h \in Hosts : row[h] # NoRow => row[h].data \in past[h]

IInv ==
  /\ Tables /\ RowIsPast /\ CacheIsCommitted
  /\ \A c \in Clients : CallOK(c) /\ WillCache(c)

LEMMA InitIInv == Init => IInv
<1> SUFFICES ASSUME Init PROVE IInv OBVIOUS
<1>1. row \in [Hosts -> Row \cup {NoRow}] BY DEF Init
<1>2. \A h \in Hosts : row[h] \in Row BY DEF Init
<1>3. past \in [Hosts -> SUBSET [Fields -> Values]] BY <1>2 DEF Init, Row
<1>4. Tables BY <1>1, <1>3, ReferenceAssumption DEF Init, Tables, Steps
<1>5. RowIsPast BY DEF Init, RowIsPast
<1>6. CacheIsCommitted BY DEF Init, CacheIsCommitted
<1>7. \A c \in Clients : CallOK(c) /\ WillCache(c) BY DEF Init, CallOK, WillCache
<1> QED BY <1>4, <1>5, <1>6, <1>7 DEF IInv

LEMMA MergedType ==
  ASSUME NEW val \in Row, NEW req \in Requests
  PROVE  Merged(val, req) \in Row
<1>1. PICK fs \in SUBSET Fields : req \in [fs -> Values] BY DEF Requests
<1>2. [f \in Fields |-> IF f \in DOMAIN req THEN req[f] ELSE val.data[f]] \in [Fields -> Values]
  BY <1>1 DEF Row
<1> QED BY <1>2 DEF Merged, Row

\* The foreign keys leave a row a row: what they clear names nothing.
LEMMA ClearedType ==
  ASSUME NEW r \in Row \cup {NoRow}, NEW f \in References, NEW v
  PROVE  /\ Cleared(r, f, v) \in Row \cup {NoRow}
         /\ r # NoRow =>
              /\ Cleared(r, f, v) \in Row /\ Cleared(r, f, v).mark = r.mark
              /\ \A g \in Fields : Cleared(r, f, v).data[g] = r.data[g]
                                 \/ (g = f /\ r.data[f] = v /\ Cleared(r, f, v).data[f] = None)
         /\ r = NoRow => Cleared(r, f, v) = NoRow
<1>1. CASE r # NoRow /\ r.data[f] = v
  <2> DEFINE d == [r.data EXCEPT ![f] = None]
  <2>1. r \in Row /\ d \in [Fields -> Values] BY <1>1, ReferenceAssumption DEF Row
  <2>2. d[f] = None /\ \A g \in Fields \ {f} : d[g] = r.data[g]
    BY <2>1, ReferenceAssumption DEF Row
  <2>3. Cleared(r, f, v) = [r EXCEPT !.data = d] BY <1>1 DEF Cleared
  <2> HIDE DEF d
  <2>4. Cleared(r, f, v) \in Row /\ Cleared(r, f, v).mark = r.mark /\ Cleared(r, f, v).data = d
    BY <2>1, <2>3 DEF Row
  <2> QED BY <1>1, <2>2, <2>4
<1>2. CASE ~(r # NoRow /\ r.data[f] = v)
  <2>1. Cleared(r, f, v) = r BY <1>2 DEF Cleared
  <2> QED BY <2>1
<1> QED BY <1>1, <1>2

\* A step of one call: the others keep what they had, and past only grows.
LEMMA Others ==
  ASSUME IInv, NEW c \in Clients,
         \A d \in Clients \ {c} : pc'[d] = pc[d] /\ loc'[d] = loc[d],
         \A h \in Hosts : past[h] \subseteq past'[h]
  PROVE  \A d \in Clients \ {c} : CallOK(d)' /\ WillCache(d)'
<1> TAKE d \in Clients \ {c}
<1>1. CallOK(d)' BY DEF IInv, CallOK
<1>2. WillCache(d)' BY DEF IInv, CallOK, WillCache, Calls
<1> QED BY <1>1, <1>2

\* GetByID returns a row to its caller.
LEMMA HasStep ==
  ASSUME IInv, NEW c \in Clients, pc[c] # "idle", loc[c].op \in {"get", "update"},
         NEW val \in Row, Has(c, val)
  PROVE  /\ CallOK(c)' /\ WillCache(c)'
         /\ pc' \in [Clients -> Steps] /\ DOMAIN loc' = Clients
         /\ \A d \in Clients \ {c} : pc'[d] = pc[d] /\ loc'[d] = loc[d]
<1>1. loc[c] \in Calls /\ (loc[c].op = "update" => loc[c].req \in Requests)
  BY DEF IInv, CallOK
<1>2. CASE loc[c].op = "get"
  BY <1>2 DEF Has, Done, To, IInv, Tables, Steps, CallOK, WillCache
<1>3. CASE loc[c].op = "update"
  <2> DEFINE m == Merged(val, loc[c].req)
  <2>1. m \in Row BY <1>1, <1>3, MergedType
  <2> HIDE DEF m
  <2>2. loc' = [loc EXCEPT ![c].val = m] /\ pc' = [pc EXCEPT ![c] = "write"]
    BY <1>3 DEF Has, To, m
  <2>3. loc'[c] = [loc[c] EXCEPT !.val = m] BY <2>2 DEF IInv, Tables
  <2>4. loc'[c] \in Calls /\ loc'[c].op = "update" /\ loc'[c].req \in Requests /\ loc'[c].val = m
    BY <1>1, <1>3, <2>1, <2>3 DEF Calls
  <2>5. pc'[c] = "write" BY <2>2 DEF IInv, Tables
  <2> QED BY <2>1, <2>2, <2>4, <2>5 DEF IInv, Tables, Steps, CallOK, WillCache
<1> QED BY <1>2, <1>3

\* What is left to show of a step of one call.
LEMMA Combine ==
  ASSUME IInv, NEW c \in Clients, Tables', RowIsPast', CacheIsCommitted',
         CallOK(c)', WillCache(c)',
         \A d \in Clients \ {c} : pc'[d] = pc[d] /\ loc'[d] = loc[d],
         \A h \in Hosts : past[h] \subseteq past'[h]
  PROVE  IInv'
BY Others DEF IInv

\* A cache command leaves the cache committed when what it stores is.
LEMMA CachedStep ==
  ASSUME IInv, NEW h \in Hosts, NEW val \in Row \cup {NoRow},
         val # NoRow => val.data \in past[h], past' = past,
         Cached([cache EXCEPT ![h] = val])
  PROVE  cache' \in [Hosts -> Row \cup {NoRow}] /\ CacheIsCommitted'
BY DEF IInv, Tables, Cached, CacheIsCommitted

LEMMA CallStep ==
  ASSUME IInv, NEW c \in Clients,
         Lookup(c) \/ Select(c) \/ Fill(c) \/ Write(c) \/ Invalidate(c) \/ Store(c)
           \/ Drop(c) \/ Delete(c)
  PROVE  IInv'
<1> DEFINE h == loc[c].host  val == loc[c].val
<1>1. pc[c] # "idle"
  BY DEF Lookup, Select, Fill, Write, Invalidate, Store, Drop, Delete
<1>2. loc[c] \in Calls /\ h \in Hosts BY <1>1 DEF IInv, CallOK, Calls
<1>3. CallOK(c) /\ WillCache(c) /\ Tables /\ RowIsPast /\ CacheIsCommitted BY DEF IInv
<1>4. CASE Lookup(c)
  <2>1. UNCHANGED <<row, gone, cache, past>> BY <1>4 DEF Lookup
  <2>2. loc[c].op \in {"get", "update"} BY <1>1, <1>3, <1>4 DEF Lookup, CallOK
  <2>3. CASE cache[h] # NoRow /\ Has(c, cache[h])
    <3>1. cache[h] \in Row BY <2>3, <1>2, <1>3 DEF Tables
    <3>2. /\ CallOK(c)' /\ WillCache(c)' /\ pc' \in [Clients -> Steps] /\ DOMAIN loc' = Clients
          /\ \A d \in Clients \ {c} : pc'[d] = pc[d] /\ loc'[d] = loc[d]
      BY <1>1, <2>2, <2>3, <3>1, HasStep
    <3> QED BY <1>3, <2>1, <3>2, Combine DEF Tables, RowIsPast, CacheIsCommitted
  <2>4. CASE To(c, "select") /\ UNCHANGED loc
    <3>1. CallOK(c)' /\ WillCache(c)'
      BY <1>1, <1>3, <1>4, <2>1, <2>2, <2>4 DEF To, CallOK, WillCache, Tables
    <3> QED BY <1>3, <2>1, <2>4, <3>1, Combine
            DEF To, Tables, Steps, RowIsPast, CacheIsCommitted
  <2> QED BY <1>4, <2>3, <2>4 DEF Lookup
<1>5. CASE Select(c)
  <2>1. UNCHANGED <<row, gone, cache, past>> BY <1>5 DEF Select
  <2>2. CASE Done(c)
    BY <1>3, <2>1, <2>2, Combine
    DEF Done, To, CallOK, WillCache, Tables, Steps, RowIsPast, CacheIsCommitted
  <2>3. CASE row[h] # NoRow /\ loc' = [loc EXCEPT ![c].val = row[h]] /\ To(c, "fill")
    <3>1. row[h] \in Row /\ row[h].data \in past[h]
      BY <2>3, <1>2, <1>3 DEF Tables, RowIsPast
    <3>2. loc'[c] = [loc[c] EXCEPT !.val = row[h]] /\ pc'[c] = "fill"
      BY <2>3, <1>3 DEF Tables, To
    <3>3. /\ loc'[c] \in Calls /\ loc'[c].op = loc[c].op /\ loc'[c].req = loc[c].req
          /\ loc'[c].host = h /\ loc'[c].val = row[h]
      BY <1>2, <3>1, <3>2 DEF Calls
    <3>4. loc[c].op \in {"get", "update"} /\ (loc[c].op = "update" => loc[c].req \in Requests)
      BY <1>3, <1>5 DEF Select, CallOK
    <3>5. CallOK(c)' /\ WillCache(c)'
      BY <2>1, <3>1, <3>2, <3>3, <3>4 DEF CallOK, WillCache
    <3> QED BY <1>3, <2>1, <2>3, <3>5, Combine
            DEF To, Tables, Steps, RowIsPast, CacheIsCommitted
  <2> QED BY <1>5, <2>2, <2>3 DEF Select
<1>6. CASE Fill(c)
  <2>1. UNCHANGED <<row, gone, past>> /\ Has(c, val) BY <1>6 DEF Fill
  <2>2. val \in Row /\ val.data \in past[h] /\ loc[c].op \in {"get", "update"}
    BY <1>3, <1>6 DEF Fill, CallOK, WillCache
  <2>3. cache' \in [Hosts -> Row \cup {NoRow}] /\ CacheIsCommitted'
    BY <1>2, <1>6, <2>1, <2>2, CachedStep DEF Fill
  <2>4. /\ CallOK(c)' /\ WillCache(c)' /\ pc' \in [Clients -> Steps] /\ DOMAIN loc' = Clients
        /\ \A d \in Clients \ {c} : pc'[d] = pc[d] /\ loc'[d] = loc[d]
    BY <1>1, <2>1, <2>2, HasStep
  <2> QED BY <1>3, <2>1, <2>3, <2>4, Combine DEF Tables, RowIsPast
<1>7. CASE Write(c)
  <2>1. loc[c].op = "update" /\ val \in Row /\ UNCHANGED <<gone, cache>> /\ val.data \in [Fields -> Values]
    BY <1>3, <1>7 DEF Write, CallOK, Row
  <2>2. CASE Done(c) /\ UNCHANGED <<row, past>>
    BY <1>3, <2>1, <2>2, Combine
    DEF Done, To, CallOK, WillCache, Tables, Steps, RowIsPast, CacheIsCommitted
  <2>3. CASE /\ row[h] # NoRow
             /\ row' = [row EXCEPT ![h].data = val.data]
             /\ past' = [past EXCEPT ![h] = past[h] \cup {val.data}]
             /\ To(c, "invalidate") /\ UNCHANGED loc
    <3>1. row[h] \in Row BY <2>3, <1>2, <1>3 DEF Tables
    <3>2. [row[h] EXCEPT !.data = val.data] \in Row /\ [row[h] EXCEPT !.data = val.data].data = val.data
      BY <2>1, <3>1 DEF Row
    <3>3. row' = [row EXCEPT ![h] = [row[h] EXCEPT !.data = val.data]] BY <2>3
    <3>4. /\ row' \in [Hosts -> Row \cup {NoRow}] /\ row'[h].data = val.data
          /\ \A g \in Hosts \ {h} : row'[g] = row[g]
      BY <1>2, <1>3, <3>2, <3>3 DEF Tables
    <3>5. /\ past' \in [Hosts -> SUBSET [Fields -> Values]] /\ val.data \in past'[h]
          /\ \A g \in Hosts : past[g] \subseteq past'[g]
      BY <1>2, <1>3, <2>1, <2>3 DEF Tables
    <3>6. RowIsPast' BY <1>3, <3>4, <3>5 DEF RowIsPast
    <3>7. CacheIsCommitted' BY <1>3, <2>1, <3>5 DEF CacheIsCommitted
    <3>8. pc' \in [Clients -> Steps] /\ pc'[c] = "invalidate"
          /\ \A d \in Clients \ {c} : pc'[d] = pc[d]
      BY <1>3, <2>3 DEF To, Tables, Steps
    <3>9. CallOK(c)' /\ WillCache(c)'
      BY <1>1, <1>3, <2>1, <2>3, <3>5, <3>8 DEF CallOK, WillCache
    <3>10. Tables' BY <1>3, <2>1, <2>3, <3>4, <3>5, <3>8 DEF Tables
    <3> QED BY <2>3, <3>5, <3>6, <3>7, <3>8, <3>9, <3>10, Combine
  <2> QED BY <1>7, <2>1, <2>2, <2>3 DEF Write
<1>8. CASE Invalidate(c)
  <2>1. UNCHANGED <<row, gone, past>> BY <1>8 DEF Invalidate
  <2>2. cache' \in [Hosts -> Row \cup {NoRow}] /\ CacheIsCommitted'
    BY <1>2, <1>8, <2>1, CachedStep DEF Invalidate
  <2>3. CASE loc[c].op = "update" /\ To(c, "store") /\ UNCHANGED loc
    <3>1. CallOK(c)' /\ WillCache(c)'
      BY <1>1, <1>3, <1>8, <2>1, <2>3 DEF Invalidate, To, CallOK, WillCache, Tables
    <3> QED BY <1>3, <2>1, <2>2, <2>3, <3>1, Combine DEF To, Tables, Steps, RowIsPast
  <2>4. CASE Done(c)
    BY <1>3, <2>1, <2>2, <2>4, Combine
    DEF Done, To, CallOK, WillCache, Tables, Steps, RowIsPast
  <2> QED BY <1>8, <2>3, <2>4 DEF Invalidate
<1>9. CASE Store(c)
  <2>1. UNCHANGED <<row, gone, past>> /\ Done(c) BY <1>9 DEF Store
  <2>2. val \in Row /\ val.data \in past[h] BY <1>3, <1>9 DEF Store, CallOK, WillCache
  <2>3. cache' \in [Hosts -> Row \cup {NoRow}] /\ CacheIsCommitted'
    BY <1>2, <1>9, <2>1, <2>2, CachedStep DEF Store
  <2> QED BY <1>3, <2>1, <2>3, Combine
          DEF Done, To, CallOK, WillCache, Tables, Steps, RowIsPast
<1>10. CASE Drop(c)
  <2>1. UNCHANGED <<row, gone, loc, past>> /\ To(c, "delete") BY <1>10 DEF Drop
  <2>2. cache' \in [Hosts -> Row \cup {NoRow}] /\ CacheIsCommitted'
    BY <1>2, <1>10, <2>1, CachedStep DEF Drop
  <2>3. CallOK(c)' /\ WillCache(c)'
    BY <1>1, <1>3, <2>1 DEF To, CallOK, WillCache, Tables
  <2> QED BY <1>3, <2>1, <2>2, <2>3, Combine DEF To, Tables, Steps, RowIsPast
<1>11. CASE Delete(c)
  <2>1. UNCHANGED <<gone, cache, past>> /\ Done(c) /\ row' = [row EXCEPT ![h] = NoRow]
    BY <1>11 DEF Delete
  <2>2. row' \in [Hosts -> Row \cup {NoRow}] /\ RowIsPast'
    BY <1>2, <1>3, <2>1 DEF Tables, RowIsPast
  <2> QED BY <1>3, <2>1, <2>2, Combine
          DEF Done, To, CallOK, WillCache, Tables, Steps, CacheIsCommitted
<1> QED BY <1>4, <1>5, <1>6, <1>7, <1>8, <1>9, <1>10, <1>11

\* A call that begins.
LEMMA BeginStep ==
  ASSUME IInv, NEW c \in Clients, NEW call \in Calls, NEW step \in {"lookup", "invalidate", "drop"},
         loc' = [loc EXCEPT ![c] = call], pc' = [pc EXCEPT ![c] = step],
         call.op = "update" => call.req \in Requests /\ step = "lookup",
         step = "lookup" => call.op \in {"get", "update"},
         row' \in [Hosts -> Row \cup {NoRow}], RowIsPast', UNCHANGED <<gone, cache, past>>
  PROVE  IInv'
<1>1. pc'[c] = step /\ loc'[c] = call
      /\ \A d \in Clients \ {c} : pc'[d] = pc[d] /\ loc'[d] = loc[d]
  BY DEF IInv, Tables
<1>2. CallOK(c)' /\ WillCache(c)' BY <1>1 DEF CallOK, WillCache
<1>3. Tables' BY DEF IInv, Tables, Steps
<1>4. CacheIsCommitted' BY DEF IInv, CacheIsCommitted
<1> QED BY <1>1, <1>2, <1>3, <1>4, Combine

LEMMA NextStep == IInv /\ [Next]_vars => IInv'
<1> SUFFICES ASSUME IInv, [Next]_vars PROVE IInv'
  OBVIOUS
<1> USE DEF To
<1>1. ASSUME NEW c \in Clients, NEW op, NEW h \in Hosts, NEW req \in Requests \cup {NoRow},
             Start(c, op, h, req), op = "update" => req \in Requests
      PROVE  IInv'
  <2> DEFINE call == [op |-> op, host |-> h, req |-> req, val |-> NoRow]
  <2>1. call \in Calls /\ op \in {"get", "update"} BY <1>1 DEF Start, Calls
  <2>2. UNCHANGED <<row, gone, cache, past>> BY <1>1 DEF Start
  <2>3. row' \in [Hosts -> Row \cup {NoRow}] /\ RowIsPast' BY <2>2 DEF IInv, Tables, RowIsPast
  <2> QED BY <1>1, <2>1, <2>2, <2>3, BeginStep DEF Start
<1>2. ASSUME NEW c \in Clients, NEW h \in Hosts, NEW m \in Marks, Mark(c, h, m) PROVE IInv'
  <2> DEFINE call == [op |-> "mark", host |-> h, req |-> NoRow, val |-> NoRow]
             new == [row[h] EXCEPT !.mark = m]
  <2>1. call \in Calls BY DEF Calls
  <2>2. UNCHANGED <<gone, cache, past>> /\ row' = [row EXCEPT ![h] = new] BY <1>2 DEF Mark
  <2>3. row[h] \in Row BY <1>2 DEF Mark, IInv, Tables
  <2>4. new \in Row /\ new.data = row[h].data BY <2>3 DEF Row
  <2> HIDE DEF new
  <2>5. row' \in [Hosts -> Row \cup {NoRow}] BY <2>2, <2>4 DEF IInv, Tables
  <2>6. RowIsPast' BY <1>2, <2>2, <2>4 DEF Mark, IInv, Tables, RowIsPast
  <2> QED BY <1>2, <2>1, <2>2, <2>5, <2>6, BeginStep DEF Mark
<1>3. ASSUME NEW c \in Clients, NEW h \in Hosts, StartDelete(c, h) PROVE IInv'
  <2> DEFINE call == [op |-> "delete", host |-> h, req |-> NoRow, val |-> NoRow]
  <2>1. call \in Calls BY DEF Calls
  <2>2. UNCHANGED <<row, gone, cache, past>> BY <1>3 DEF StartDelete
  <2>3. row' \in [Hosts -> Row \cup {NoRow}] /\ RowIsPast' BY <2>2 DEF IInv, Tables, RowIsPast
  <2> QED BY <1>3, <2>1, <2>2, <2>3, BeginStep DEF StartDelete
<1>4. ASSUME NEW h \in Hosts, Expire(h) PROVE IInv'
  <2>1. \A c \in Clients : CallOK(c)' /\ WillCache(c)'
    BY <1>4 DEF Expire, IInv, CallOK, WillCache
  <2>2. Tables' /\ RowIsPast' /\ CacheIsCommitted'
    BY <1>4 DEF Expire, IInv, Tables, RowIsPast, CacheIsCommitted
  <2> QED BY <2>1, <2>2 DEF IInv
<1>5. ASSUME NEW f \in References, NEW v \in Values, DeleteReferenced(f, v) PROVE IInv'
  <2>1. UNCHANGED <<cache, pc, loc>> BY <1>5 DEF DeleteReferenced
  <2>2. \A h \in Hosts : row[h] \in Row \cup {NoRow} /\ past[h] \in SUBSET [Fields -> Values]
    BY DEF IInv, Tables
  <2>3. row' = [h \in Hosts |-> Cleared(row[h], f, v)] BY <1>5 DEF DeleteReferenced
  <2>4. \A h \in Hosts : row'[h] \in Row \cup {NoRow} BY <2>2, <2>3, ClearedType
  <2>5. row' \in [Hosts -> Row \cup {NoRow}] BY <2>3, <2>4
  <2>6. past' = [h \in Hosts |-> IF row'[h] = NoRow THEN past[h] ELSE past[h] \cup {row'[h].data}]
    BY <1>5 DEF DeleteReferenced
  <2>7. \A h \in Hosts : \A d \in past[h] : d \in past'[h] BY <2>6
  <2>8. \A h \in Hosts : row'[h] # NoRow => row'[h].data \in past'[h] BY <2>6
  <2>9. past' \in [Hosts -> SUBSET [Fields -> Values]]
    <3> DEFINE D == SUBSET [Fields -> Values]
               new(h) == IF row'[h] = NoRow THEN past[h] ELSE past[h] \cup {row'[h].data}
    <3>1. \A h \in Hosts : new(h) \in D BY <2>2, <2>4 DEF Row
    <3>2. past' = [h \in Hosts |-> new(h)] BY <2>6
    <3> HIDE DEF D, new
    <3>3. past' \in [Hosts -> D] BY <3>1, <3>2
    <3> QED BY <3>3 DEF D
  <2>10. gone' \in [References -> SUBSET Values] BY <1>5 DEF DeleteReferenced, IInv, Tables
  <2>11. Tables' BY <2>1, <2>5, <2>9, <2>10 DEF IInv, Tables
  <2>12. RowIsPast' /\ CacheIsCommitted' BY <2>1, <2>7, <2>8 DEF IInv, RowIsPast, CacheIsCommitted
  <2>13. \A c \in Clients : CallOK(c)' /\ WillCache(c)'
    <3> TAKE c \in Clients
    <3>1. CallOK(c)' BY <2>1 DEF IInv, CallOK
    <3>2. pc[c] # "idle" => loc[c].host \in Hosts BY DEF IInv, CallOK, Calls
    <3>3. WillCache(c)' BY <2>1, <2>7, <3>2 DEF IInv, WillCache
    <3> QED BY <3>1, <3>3
  <2> QED BY <2>11, <2>12, <2>13 DEF IInv
<1>6. CASE UNCHANGED vars
  BY <1>6 DEF vars, IInv, Tables, RowIsPast, CacheIsCommitted, CallOK, WillCache
<1> QED BY <1>1, <1>2, <1>3, <1>4, <1>5, <1>6, CallStep DEF Next

AloneOK == alone \in BOOLEAN

LEMMA AloneType == AloneOK /\ [Next]_vars => AloneOK'
<1> SUFFICES ASSUME alone \in BOOLEAN, [Next]_vars PROVE alone' \in BOOLEAN
  BY DEF AloneOK
<1>1. ASSUME NEW c \in Clients, Begins(c) PROVE alone' \in BOOLEAN
  BY <1>1 DEF Begins
<1>2. ASSUME NEW new, Cached(new) PROVE alone' \in BOOLEAN
  BY <1>2 DEF Cached
<1>3. ASSUME NEW c \in Clients, Lookup(c) \/ Select(c) \/ Write(c) \/ Delete(c)
      PROVE  alone' \in BOOLEAN
  BY <1>3 DEF Lookup, Select, Write, Delete
<1>4. ASSUME NEW c \in Clients, Fill(c) \/ Invalidate(c) \/ Store(c) \/ Drop(c)
      PROVE  alone' \in BOOLEAN
  BY <1>2, <1>4 DEF Fill, Invalidate, Store, Drop
<1>5. ASSUME NEW c \in Clients, NEW op, NEW h, NEW x,
             Start(c, op, h, x) \/ Mark(c, h, x) \/ StartDelete(c, h)
      PROVE  alone' \in BOOLEAN
  BY <1>1, <1>5 DEF Start, Mark, StartDelete
<1>6. ASSUME NEW h \in Hosts, Expire(h) PROVE alone' \in BOOLEAN
  BY <1>6 DEF Expire
<1>7. ASSUME NEW f, NEW v, DeleteReferenced(f, v) PROVE alone' \in BOOLEAN
  BY <1>7 DEF DeleteReferenced
<1>8. CASE UNCHANGED vars BY <1>8 DEF vars
<1> QED BY <1>3, <1>4, <1>5, <1>6, <1>7, <1>8 DEF Next

\* The types of the tables and of every call.
THEOREM TypeCorrect == Spec => []TypeOK
<1>1. IInv /\ AloneOK => TypeOK BY DEF IInv, Tables, CallOK, Calls, TypeOK, AloneOK
<1>2. Init => AloneOK BY DEF Init, AloneOK
<1> QED BY <1>1, <1>2, AloneType, InitIInv, NextStep, PTL DEF Spec

\* Whatever calls interleave, and whatever cache commands fail, the cache only shows
\* columns that were committed: Update stores what it wrote, GetByID what it selected.
THEOREM Committed == Spec => []CacheIsCommitted
<1>1. IInv => CacheIsCommitted BY DEF IInv
<1> QED BY <1>1, InitIInv, NextStep, PTL DEF Spec

-----------------------------------------------------------------------------
(* As long as calls do not overlap, and no cache command fails. *)

Apart == \A c, d \in Clients : pc[c] # "idle" /\ pc[d] # "idle" => c = d

\* A call is about to write what it read of the row, with the columns of its request.
WillWrite(val, req, r) ==
  /\ r # NoRow /\ val.mark = r.mark
  /\ \A f \in Fields : IF f \in DOMAIN req THEN val.data[f] = req[f] ELSE Shows(val, r, f)

\* What the one call under way knows of the row and of the cache.
Knows(c) ==
  LET h == loc[c].host
      val == loc[c].val
  IN /\ pc[c] = "fill" => IsRow(val, row[h])
     /\ pc[c] = "write" => WillWrite(val, loc[c].req, row[h])
     /\ pc[c] = "store" \/ (pc[c] = "invalidate" /\ loc[c].op = "update") => IsRow(val, row[h])
     /\ pc[c] = "delete" => cache[h] = NoRow

Current(h) == cache[h] = NoRow \/ IsRow(cache[h], row[h])

\* The cache shows the row, or is about to be invalidated.
Fresh(h) == Current(h) \/ \E c \in Clients : pc[c] = "invalidate" /\ loc[c].host = h

AloneInv ==
  alone => Apart /\ (\A h \in Hosts : Fresh(h)) /\ \A c \in Clients : Knows(c)

\* What shows a row goes on showing it when the foreign keys clear a column.
LEMMA ShowsOn ==
  ASSUME IInv, NEW f \in References, NEW v \in Values, DeleteReferenced(f, v), NEW h \in Hosts,
         row[h] # NoRow
  PROVE  /\ row'[h] # NoRow /\ row'[h].mark = row[h].mark
         /\ \A val : \A g \in Fields : Shows(val, row[h], g) => Shows(val, row[h], g)'
<1>1. row[h] \in Row /\ gone \in [References -> SUBSET Values] BY DEF IInv, Tables
<1>2. /\ row'[h] \in Row /\ row'[h].mark = row[h].mark
      /\ \A g \in Fields : row'[h].data[g] = row[h].data[g]
                         \/ (g = f /\ row[h].data[f] = v /\ row'[h].data[f] = None)
  BY <1>1, ClearedType DEF DeleteReferenced
<1>3. v \in gone'[f] /\ \A g \in References : gone[g] \subseteq gone'[g]
  BY <1>1 DEF DeleteReferenced
<1>4. ASSUME NEW val, NEW g \in Fields, Shows(val, row[h], g) PROVE Shows(val, row[h], g)'
  BY <1>2, <1>3, <1>4 DEF Shows
<1> QED BY <1>2, <1>4, RowAssumption

LEMMA StaysAlone == AloneOK /\ [Next]_vars /\ alone' => alone
<1> SUFFICES ASSUME alone \in BOOLEAN, [Next]_vars, alone' PROVE alone
  BY DEF AloneOK
<1>1. ASSUME NEW c \in Clients, Begins(c) PROVE alone
  BY <1>1 DEF Begins
<1>2. ASSUME NEW new, Cached(new) PROVE alone
  BY <1>2 DEF Cached
<1>3. ASSUME NEW c \in Clients, Lookup(c) \/ Select(c) \/ Write(c) \/ Delete(c) PROVE alone
  BY <1>3 DEF Lookup, Select, Write, Delete
<1>4. ASSUME NEW c \in Clients, Fill(c) \/ Invalidate(c) \/ Store(c) \/ Drop(c) PROVE alone
  BY <1>2, <1>4 DEF Fill, Invalidate, Store, Drop
<1>5. ASSUME NEW c \in Clients, NEW op, NEW h, NEW x,
             Start(c, op, h, x) \/ Mark(c, h, x) \/ StartDelete(c, h)
      PROVE  alone
  BY <1>1, <1>5 DEF Start, Mark, StartDelete
<1>6. ASSUME NEW h \in Hosts, Expire(h) PROVE alone BY <1>6 DEF Expire
<1>7. ASSUME NEW f, NEW v, DeleteReferenced(f, v) PROVE alone BY <1>7 DEF DeleteReferenced
<1>8. CASE UNCHANGED vars BY <1>8 DEF vars
<1> QED BY <1>3, <1>4, <1>5, <1>6, <1>7, <1>8 DEF Next

\* What is left to show of a step of the one call under way.
LEMMA AloneCombine ==
  ASSUME NEW c \in Clients, \A d \in Clients \ {c} : pc[d] = "idle" /\ pc'[d] = pc[d],
         \A h \in Hosts : Fresh(h)', Knows(c)'
  PROVE  AloneInv'
<1>1. Apart' BY DEF Apart
<1>2. \A d \in Clients \ {c} : Knows(d)' BY DEF Knows
<1> QED BY <1>1, <1>2 DEF AloneInv

\* A cache command that did not fail.
LEMMA CachedAlone ==
  ASSUME NEW new, Cached(new), alone' PROVE cache' = new
BY DEF Cached

\* GetByID returns the row to its caller.
LEMMA HasAlone ==
  ASSUME IInv, NEW c \in Clients, pc[c] # "idle", pc[c] # "invalidate",
         loc[c].op \in {"get", "update"}, NEW val \in Row, IsRow(val, row[loc[c].host]),
         Has(c, val), UNCHANGED <<row, gone>>,
         \A d \in Clients \ {c} : pc[d] = "idle",
         \A h \in Hosts : Current(h)'
  PROVE  AloneInv'
<1>1. DOMAIN loc = Clients /\ pc \in [Clients -> Steps] BY DEF IInv, Tables
<1>2. \A d \in Clients \ {c} : pc'[d] = pc[d] BY <1>1 DEF Has, Done, To
<1>3. \A h \in Hosts : Fresh(h)' BY DEF Fresh
<1>4. CASE loc[c].op = "get"
  <2>1. pc'[c] = "idle" BY <1>1, <1>4 DEF Has, Done, To
  <2> QED BY <1>2, <1>3, <2>1, AloneCombine DEF Knows
<1>5. CASE loc[c].op = "update"
  <2> PICK h, req, m : h = loc[c].host /\ req = loc[c].req /\ m = Merged(val, req) OBVIOUS
  <2>1. loc' = [loc EXCEPT ![c].val = m] /\ pc' = [pc EXCEPT ![c] = "write"]
    BY <1>5 DEF Has, To
  <2>2. /\ m.mark = val.mark
        /\ \A f \in Fields : m.data[f] = IF f \in DOMAIN req THEN req[f] ELSE val.data[f]
    BY DEF Merged, Row
  <2>3. WillWrite(m, req, row[h]) BY <2>2 DEF WillWrite, IsRow, Shows
  <2>4. loc'[c] = [loc[c] EXCEPT !.val = m] /\ pc'[c] = "write" BY <1>1, <2>1
  <2>5. loc[c] \in Calls BY DEF IInv, CallOK
  <2>6. loc'[c].host = h /\ loc'[c].req = req /\ loc'[c].val = m BY <2>4, <2>5 DEF Calls
  <2>7. WillWrite(m, req, row[h])' BY <2>3 DEF WillWrite, Shows
  <2>8. Knows(c)' BY <2>4, <2>6, <2>7 DEF Knows
  <2> QED BY <1>2, <1>3, <2>8, AloneCombine
<1> QED BY <1>4, <1>5

\* What is written is the row then.
LEMMA Written ==
  ASSUME NEW r \in Row, NEW val \in Row, NEW req, WillWrite(val, req, r)
  PROVE  /\ [r EXCEPT !.data = val.data] = val
         /\ IsRow(val, val)
BY RowAssumption DEF WillWrite, IsRow, Shows, Row

LEMMA AloneCall ==
  ASSUME IInv, AloneInv, alone, alone', NEW c \in Clients,
         Lookup(c) \/ Select(c) \/ Fill(c) \/ Write(c) \/ Invalidate(c) \/ Store(c)
           \/ Drop(c) \/ Delete(c)
  PROVE  AloneInv'
<1> DEFINE h == loc[c].host  val == loc[c].val
<1>1. pc[c] # "idle"
  BY DEF Lookup, Select, Fill, Write, Invalidate, Store, Drop, Delete
<1>2. \A d \in Clients \ {c} : pc[d] = "idle" BY <1>1 DEF AloneInv, Apart
<1>3. CallOK(c) /\ Tables /\ loc[c] \in Calls /\ h \in Hosts BY <1>1 DEF IInv, CallOK, Calls
<1>4. Knows(c) /\ \A g \in Hosts : Fresh(g) BY DEF AloneInv
<1>5. pc[c] # "invalidate" => \A g \in Hosts : Current(g)
  BY <1>2, <1>4 DEF Fresh
<1>6. DOMAIN loc = Clients /\ pc \in [Clients -> Steps]
      /\ cache \in [Hosts -> Row \cup {NoRow}] /\ row \in [Hosts -> Row \cup {NoRow}]
  BY <1>3 DEF Tables
<1>7. CASE Lookup(c)
  <2>1. UNCHANGED <<row, gone, cache>> /\ pc[c] = "lookup" /\ loc[c].op \in {"get", "update"}
    BY <1>1, <1>3, <1>7 DEF Lookup, CallOK
  <2>2. CASE cache[h] # NoRow /\ Has(c, cache[h])
    <3>1. cache[h] \in Row /\ IsRow(cache[h], row[h])
      BY <1>3, <1>5, <1>6, <2>1, <2>2 DEF Current
    <3>2. \A g \in Hosts : Current(g)' BY <1>5, <2>1 DEF Current, IsRow, Shows
    <3> QED BY <1>1, <1>2, <2>1, <2>2, <3>1, <3>2, HasAlone
  <2>3. CASE To(c, "select") /\ UNCHANGED loc
    <3>1. pc'[c] = "select" /\ \A d \in Clients \ {c} : pc'[d] = pc[d] BY <1>6, <2>3 DEF To
    <3>2. Knows(c)' BY <3>1 DEF Knows
    <3>3. \A g \in Hosts : Fresh(g)' BY <1>5, <2>1 DEF Fresh, Current, IsRow, Shows
    <3> QED BY <1>2, <3>1, <3>2, <3>3, AloneCombine
  <2> QED BY <1>7, <2>2, <2>3 DEF Lookup
<1>8. CASE Select(c)
  <2>1. UNCHANGED <<row, gone, cache>> /\ pc[c] = "select" BY <1>8 DEF Select
  <2>2. \A g \in Hosts : Fresh(g)' BY <1>5, <2>1 DEF Fresh, Current, IsRow, Shows
  <2>3. \A d \in Clients \ {c} : pc'[d] = pc[d] BY <1>6, <1>8 DEF Select, Done, To
  <2>4. CASE Done(c)
    <3>1. pc'[c] = "idle" BY <1>6, <2>4 DEF Done, To
    <3> QED BY <1>2, <2>2, <2>3, <3>1, AloneCombine DEF Knows
  <2>5. CASE row[h] # NoRow /\ loc' = [loc EXCEPT ![c].val = row[h]] /\ To(c, "fill")
    <3>1. loc'[c] = [loc[c] EXCEPT !.val = row[h]] /\ pc'[c] = "fill" BY <1>6, <2>5 DEF To
    <3>2. loc'[c].host = h /\ loc'[c].val = row[h] BY <1>3, <3>1 DEF Calls
    <3>3. Knows(c)' BY <2>1, <2>5, <3>1, <3>2 DEF Knows, IsRow, Shows
    <3> QED BY <1>2, <2>2, <2>3, <3>3, AloneCombine
  <2> QED BY <1>8, <2>4, <2>5 DEF Select
<1>9. CASE Fill(c)
  <2>1. /\ UNCHANGED <<row, gone>> /\ Has(c, val) /\ pc[c] = "fill"
        /\ loc[c].op \in {"get", "update"} /\ val \in Row
    BY <1>3, <1>9 DEF Fill, CallOK
  <2>2. IsRow(val, row[h]) BY <1>4, <2>1 DEF Knows
  <2>3. cache' = [cache EXCEPT ![h] = val] BY <1>9, CachedAlone DEF Fill
  <2>4. \A g \in Hosts : Current(g)'
    BY <1>3, <1>5, <1>6, <2>1, <2>2, <2>3 DEF Current, IsRow, Shows
  <2> QED BY <1>1, <1>2, <2>1, <2>2, <2>4, HasAlone
<1>10. CASE Write(c)
  <2>1. pc[c] = "write" /\ UNCHANGED <<gone, cache>> /\ val \in Row
    BY <1>3, <1>10 DEF Write, CallOK
  <2>2. WillWrite(val, loc[c].req, row[h]) BY <1>4, <2>1 DEF Knows
  <2>3. CASE Done(c) /\ UNCHANGED row
    <3>1. pc'[c] = "idle" /\ \A d \in Clients \ {c} : pc'[d] = pc[d] BY <1>6, <2>3 DEF Done, To
    <3>2. \A g \in Hosts : Fresh(g)' BY <1>5, <2>1, <2>3 DEF Fresh, Current, IsRow, Shows
    <3> QED BY <1>2, <3>1, <3>2, AloneCombine DEF Knows
  <2>4. CASE row' = [row EXCEPT ![h].data = val.data] /\ To(c, "invalidate") /\ UNCHANGED loc
    <3>1. row[h] \in Row BY <1>3, <1>6, <2>2 DEF WillWrite
    <3>2. [row[h] EXCEPT !.data = val.data] = val /\ IsRow(val, val)
      BY <2>1, <2>2, <3>1, Written
    <3>3. row'[h] = val /\ \A g \in Hosts \ {h} : row'[g] = row[g]
      <4>1. row' = [row EXCEPT ![h] = [row[h] EXCEPT !.data = val.data]] BY <2>4
      <4> QED BY <1>3, <1>6, <3>2, <4>1
    <3>4. pc'[c] = "invalidate" /\ \A d \in Clients \ {c} : pc'[d] = pc[d] BY <1>6, <2>4 DEF To
    <3>5. Knows(c)' BY <2>1, <2>4, <3>2, <3>3, <3>4 DEF Knows, IsRow, Shows
    <3>6. \A g \in Hosts : Fresh(g)'
      BY <1>5, <2>1, <2>4, <3>3, <3>4 DEF Fresh, Current, IsRow, Shows
    <3> QED BY <1>2, <3>4, <3>5, <3>6, AloneCombine
  <2> QED BY <1>10, <2>3, <2>4 DEF Write
<1>11. CASE Invalidate(c)
  <2>1. UNCHANGED <<row, gone>> /\ pc[c] = "invalidate" BY <1>11 DEF Invalidate
  <2>2. cache' = [cache EXCEPT ![h] = NoRow] BY <1>11, CachedAlone DEF Invalidate
  <2>3. \A g \in Hosts \ {h} : Current(g) BY <1>2, <1>4, <2>1 DEF Fresh
  <2>4. \A g \in Hosts : Fresh(g)' BY <1>6, <2>1, <2>2, <2>3 DEF Fresh, Current, IsRow, Shows
  <2>5. \A d \in Clients \ {c} : pc'[d] = pc[d] BY <1>6, <1>11 DEF Invalidate, Done, To
  <2>6. Knows(c)'
    <3>1. CASE loc[c].op = "update"
      <4>1. pc'[c] = "store" /\ loc' = loc BY <1>6, <1>11, <3>1 DEF Invalidate, To
      <4> QED BY <1>4, <2>1, <3>1, <4>1 DEF Knows, IsRow, Shows
    <3>2. CASE loc[c].op # "update"
      <4>1. pc'[c] = "idle" BY <1>6, <1>11, <3>2 DEF Invalidate, Done, To
      <4> QED BY <4>1 DEF Knows
    <3> QED BY <3>1, <3>2
  <2> QED BY <1>2, <2>4, <2>5, <2>6, AloneCombine
<1>12. CASE Store(c)
  <2>1. UNCHANGED <<row, gone>> /\ pc[c] = "store" BY <1>12 DEF Store
  <2>2. IsRow(val, row[h]) BY <1>3, <1>4, <2>1 DEF Knows, CallOK
  <2>3. cache' = [cache EXCEPT ![h] = val] BY <1>12, CachedAlone DEF Store
  <2>4. \A g \in Hosts : Fresh(g)'
    BY <1>3, <1>5, <1>6, <2>1, <2>2, <2>3 DEF Fresh, Current, IsRow, Shows
  <2>5. pc'[c] = "idle" /\ \A d \in Clients \ {c} : pc'[d] = pc[d]
    BY <1>6, <1>12 DEF Store, Done, To
  <2> QED BY <1>2, <2>4, <2>5, AloneCombine DEF Knows
<1>13. CASE Drop(c)
  <2>1. UNCHANGED <<row, gone, loc>> /\ pc[c] = "drop" BY <1>13 DEF Drop
  <2>2. cache' = [cache EXCEPT ![h] = NoRow] BY <1>13, CachedAlone DEF Drop
  <2>3. \A g \in Hosts : Fresh(g)'
    BY <1>5, <1>6, <2>1, <2>2 DEF Fresh, Current, IsRow, Shows
  <2>4. pc'[c] = "delete" /\ \A d \in Clients \ {c} : pc'[d] = pc[d] BY <1>6, <1>13 DEF Drop, To
  <2>5. Knows(c)' BY <1>3, <1>6, <2>1, <2>2, <2>4 DEF Knows
  <2> QED BY <1>2, <2>3, <2>4, <2>5, AloneCombine
<1>14. CASE Delete(c)
  <2>1. UNCHANGED <<gone, cache>> /\ pc[c] = "delete" /\ cache[h] = NoRow BY <1>4, <1>14 DEF Delete, Knows
  <2>2. \A g \in Hosts \ {h} : row'[g] = row[g] BY <1>6, <1>14 DEF Delete
  <2>3. \A g \in Hosts : Fresh(g)' BY <1>5, <2>1, <2>2 DEF Fresh, Current, IsRow, Shows
  <2>4. pc'[c] = "idle" /\ \A d \in Clients \ {c} : pc'[d] = pc[d]
    BY <1>6, <1>14 DEF Delete, Done, To
  <2> QED BY <1>2, <2>3, <2>4, AloneCombine DEF Knows
<1> QED BY <1>7, <1>8, <1>9, <1>10, <1>11, <1>12, <1>13, <1>14

LEMMA AloneStep == IInv /\ AloneOK /\ AloneInv /\ [Next]_vars => AloneInv'
<1> SUFFICES ASSUME IInv, AloneInv, alone, alone', [Next]_vars PROVE AloneInv'
  BY StaysAlone DEF AloneInv
<1>1. DOMAIN loc = Clients /\ pc \in [Clients -> Steps]
      /\ cache \in [Hosts -> Row \cup {NoRow}] /\ row \in [Hosts -> Row \cup {NoRow}]
  BY DEF IInv, Tables
<1>2. ASSUME NEW c \in Clients, Begins(c)
      PROVE  /\ \A d \in Clients : pc[d] = "idle"
             /\ \A h \in Hosts : Current(h)
  <2>1. \A d \in Clients : pc[d] = "idle" BY <1>2 DEF Begins
  <2> QED BY <2>1 DEF AloneInv, Fresh
<1>3. ASSUME NEW c \in Clients, NEW op, NEW h \in Hosts, NEW req,
             Start(c, op, h, req) \/ StartDelete(c, h)
      PROVE  AloneInv'
  <2>1. UNCHANGED <<row, gone, cache>> /\ Begins(c) BY <1>3 DEF Start, StartDelete
  <2>2. pc'[c] \in {"lookup", "drop"} /\ \A d \in Clients \ {c} : pc'[d] = pc[d]
    BY <1>1, <1>3 DEF Start, StartDelete, To
  <2>3. Knows(c)' BY <2>2 DEF Knows
  <2>4. \A g \in Hosts : Fresh(g)' BY <1>2, <2>1 DEF Fresh, Current, IsRow, Shows
  <2> QED BY <1>2, <2>1, <2>2, <2>3, <2>4, AloneCombine
<1>4. ASSUME NEW c \in Clients, NEW h \in Hosts, NEW m \in Marks, Mark(c, h, m) PROVE AloneInv'
  <2> DEFINE call == [op |-> "mark", host |-> h, req |-> NoRow, val |-> NoRow]
  <2>1. UNCHANGED <<gone, cache>> /\ Begins(c) /\ loc'[c] = call BY <1>1, <1>4 DEF Mark
  <2>2. pc'[c] = "invalidate" /\ \A d \in Clients \ {c} : pc'[d] = pc[d]
    BY <1>1, <1>4 DEF Mark, To
  <2>3. \A g \in Hosts \ {h} : row'[g] = row[g] BY <1>1, <1>4 DEF Mark
  <2>4. Knows(c)' BY <2>1, <2>2 DEF Knows
  <2>5. \A g \in Hosts : Fresh(g)' BY <1>2, <2>1, <2>2, <2>3 DEF Fresh, Current, IsRow, Shows
  <2> QED BY <1>2, <2>1, <2>2, <2>4, <2>5, AloneCombine
<1>5. ASSUME NEW h \in Hosts, Expire(h) PROVE AloneInv'
  <2>1. UNCHANGED <<row, gone, pc, loc>> /\ \A g \in Hosts : cache'[g] \in {NoRow, cache[g]}
    BY <1>1, <1>5 DEF Expire
  <2>2. Apart' BY <2>1 DEF AloneInv, Apart
  <2>3. \A g \in Hosts : Fresh(g)' BY <2>1 DEF AloneInv, Fresh, Current, IsRow, Shows
  <2>4. ASSUME NEW c \in Clients PROVE Knows(c)'
    <3>1. pc[c] = "delete" => loc[c].host \in Hosts BY DEF IInv, CallOK, Calls
    <3> QED BY <2>1, <3>1 DEF AloneInv, Knows, IsRow, WillWrite, Shows
  <2> QED BY <2>2, <2>3, <2>4 DEF AloneInv
<1>6. ASSUME NEW f \in References, NEW v \in Values, DeleteReferenced(f, v) PROVE AloneInv'
  <2>1. UNCHANGED <<cache, pc, loc>> BY <1>6 DEF DeleteReferenced
  <2>2. Apart' BY <2>1 DEF AloneInv, Apart
  <2>3. ASSUME NEW h \in Hosts, NEW val, IsRow(val, row[h]) PROVE IsRow(val, row[h])'
    BY <1>6, <2>3, ShowsOn DEF IsRow
  <2>4. \A h \in Hosts : Fresh(h)'
    <3> TAKE h \in Hosts
    <3>1. CASE cache[h] # NoRow /\ IsRow(cache[h], row[h])
      <4> PICK val : val = cache[h] OBVIOUS
      <4>1. IsRow(val, row[h])' BY <2>3, <3>1
      <4> QED BY <2>1, <4>1 DEF Fresh, Current
    <3>2. CASE ~(cache[h] # NoRow /\ IsRow(cache[h], row[h]))
      BY <2>1, <3>2 DEF AloneInv, Fresh, Current
    <3> QED BY <3>1, <3>2
  <2>5. ASSUME NEW c \in Clients, pc[c] # "idle" PROVE Knows(c)'
    <3> DEFINE h == loc[c].host
               val == loc[c].val
    <3>1. h \in Hosts BY <2>5 DEF IInv, CallOK, Calls
    <3>2. WillWrite(val, loc[c].req, row[h]) => WillWrite(val, loc[c].req, row[h])'
      BY <1>6, <2>1, <3>1, ShowsOn DEF WillWrite
    <3>3. IsRow(val, row[h]) => IsRow(val, row[h])'
      BY <1>6, <2>1, <3>1, ShowsOn DEF IsRow
    <3> QED BY <2>1, <3>2, <3>3 DEF AloneInv, Knows
  <2>6. \A c \in Clients : Knows(c)' BY <2>1, <2>5 DEF Knows
  <2> QED BY <2>2, <2>4, <2>6 DEF AloneInv
<1>7. CASE UNCHANGED vars
  BY <1>7 DEF vars, AloneInv, Apart, Fresh, Current, Knows, WillWrite, IsRow, Shows
<1> QED BY <1>3, <1>4, <1>5, <1>6, <1>7, AloneCall DEF Next

LEMMA InitAlone == Init => AloneInv /\ AloneOK
BY DEF Init, AloneInv, AloneOK, Apart, Fresh, Current, Knows

\* The cache shows the row: whatever reads, partial updates, marks and deletions there were,
\* as long as no two overlapped and no cache command failed, once they are done the cache
\* has no other row than the table, but for columns that name what was deleted since.
THEOREM ShowsTheRow == Spec => []CacheIsRow
<1>1. IInv /\ AloneInv => CacheIsRow BY DEF AloneInv, Fresh, Current, CacheIsRow, Quiet
<1> QED BY <1>1, InitIInv, InitAlone, NextStep, AloneType, AloneStep, PTL DEF Spec

LEMMA RequestedStep ==
  ASSUME IInv, AloneInv, alone, Next,
         NEW h \in Hosts, NEW f \in Fields, row[h] # NoRow, row'[h] # NoRow,
         row'[h].data[f] # row[h].data[f]
  PROVE  \/ LosesIt(h, f)
         \/ \E c \in Clients : /\ pc[c] = "write" /\ loc[c].host = h
                              /\ f \in DOMAIN loc[c].req /\ row'[h].data[f] = loc[c].req[f]
<1>1. row \in [Hosts -> Row \cup {NoRow}] /\ row[h] \in Row BY DEF IInv, Tables
<1>2. ASSUME NEW c \in Clients, NEW g \in Hosts, NEW m \in Marks, Mark(c, g, m) PROVE FALSE
  <2>1. row' = [row EXCEPT ![g] = [row[g] EXCEPT !.mark = m]] BY <1>2 DEF Mark
  <2>2. row'[h].data = row[h].data BY <1>1, <2>1 DEF Row
  <2> QED BY <2>2
<1>3. ASSUME NEW c \in Clients, Delete(c) PROVE FALSE
  BY <1>1, <1>3 DEF Delete
<1>4. ASSUME NEW g \in References, NEW v \in Values, DeleteReferenced(g, v) PROVE LosesIt(h, f)
  <2>1. f = g /\ row[h].data[f] = v /\ row'[h].data[f] = None
    BY <1>1, <1>4, ClearedType DEF DeleteReferenced
  <2>2. v \in gone'[g] /\ v \notin gone[g] BY <1>4 DEF DeleteReferenced, IInv, Tables
  <2> QED BY <2>1, <2>2 DEF LosesIt
<1>5. ASSUME NEW c \in Clients, Write(c)
      PROVE  /\ pc[c] = "write" /\ loc[c].host = h
             /\ f \in DOMAIN loc[c].req /\ row'[h].data[f] = loc[c].req[f]
  <2> DEFINE g == loc[c].host
             val == loc[c].val
             req == loc[c].req
  <2>1. /\ pc[c] = "write" /\ g \in Hosts /\ val \in Row /\ WillWrite(val, req, row[g])
    BY <1>5 DEF Write, IInv, CallOK, Calls, AloneInv, Knows
  <2>2. row[g] # NoRow /\ Exist(val.data) /\ row' = [row EXCEPT ![g].data = val.data]
    BY <1>5, <2>1 DEF Write, WillWrite
  <2>3. row[g] \in Row BY <1>1, <2>1, <2>2
  <2>4. row' = [row EXCEPT ![g] = [row[g] EXCEPT !.data = val.data]] BY <2>2
  <2>5. g = h /\ row'[h].data = val.data BY <1>1, <2>1, <2>3, <2>4 DEF Row
  <2>6. f \in DOMAIN req BY <2>1, <2>2, <2>5 DEF WillWrite, Shows, Exist
  <2>7. val.data[f] = req[f] BY <2>1, <2>5, <2>6 DEF WillWrite
  <2> QED BY <2>1, <2>5, <2>6, <2>7
<1> QED BY <1>2, <1>3, <1>4, <1>5
        DEF Next, Start, StartDelete, Lookup, Select, Fill, Invalidate, Store, Drop, Expire

\* A partial update that overlaps with no other call changes the columns its request names,
\* to the values it names, and takes no other column back to an earlier value: an update that
\* read what the foreign keys cleared since is rejected by them.
THEOREM NothingElse == Spec => OnlyRequested
<1> DEFINE A ==
      alone' => \A h \in Hosts, f \in Fields :
        row[h] # NoRow /\ row'[h] # NoRow /\ row'[h].data[f] # row[h].data[f] =>
          \/ LosesIt(h, f)
          \/ \E c \in Clients :
               /\ pc[c] = "write" /\ loc[c].host = h
               /\ f \in DOMAIN loc[c].req /\ row'[h].data[f] = loc[c].req[f]
<1>1. IInv /\ AloneOK /\ AloneInv /\ [Next]_vars => A \/ UNCHANGED vars
  <2> SUFFICES ASSUME IInv, AloneOK, AloneInv, Next, alone' PROVE A
    OBVIOUS
  <2>1. alone BY StaysAlone
  <2> QED BY <2>1, RequestedStep
<1>2. Spec => [][A]_vars
  BY <1>1, InitIInv, InitAlone, NextStep, AloneType, AloneStep, PTL DEF Spec
<1> QED BY <1>2 DEF OnlyRequested
=============================================================================

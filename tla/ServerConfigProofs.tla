------------------------- MODULE ServerConfigProofs -------------------------
(***************************************************************************)
(* Proofs about ServerConfig, for any servers, fields, values, requests    *)
(* and bounds.  What the three properties promise a patient user rests on  *)
(* what his patience keeps apart: Calm says who may be under way with a    *)
(* server at the same time, and what each request then has in hand.        *)
(***************************************************************************)
EXTENDS ServerConfig, TLAPS

Shown == selected # NoServer /\ tab = "config"

(* Facts that need no patience: a password is in the form only if it was   *)
(* typed there, a custom field is edited only where there is one, and a    *)
(* new server has a port.                                                  *)
FormInv ==
    /\ "password" \notin touched => form["password"] = Blank
    /\ \A q \in Fetches : reply[q]["password"] = Blank
    /\ touched \cap Keys # {} => rendered
    /\ \A u \in Saves : save[u] = "insert" => body[u]["port"] # Blank

(* One save of a server at a time, and none while its settings are read,   *)
(* by the form or by a start; one read for the form at a time, which is    *)
(* about the server on show.                                               *)
OneAtATime ==
    /\ \A u, v \in Saves :
        save[u] # "idle" /\ save[v] # "idle" /\ saveSrv[u] = saveSrv[v] => u = v
    /\ \A u \in Saves :
        /\ save[u] = "insert" => saveSrv[u] \notin exists
        /\ save[u] \in {"row", "keys"} => saveSrv[u] \in exists
    /\ \A q \in Fetches : fetch[q] # "idle" => ~Saving(fetchSrv[q])
    /\ \A t \in Starts : start[t] # "idle" => ~Saving(startSrv[t])
    /\ \A p, q \in Fetches : fetch[p] # "idle" /\ fetch[q] # "idle" => p = q
    /\ Shown => \A q \in Fetches : fetch[q] # "idle" => fetchSrv[q] = selected

(* What a read has collected is what is stored.                            *)
ReadIsStored ==
    /\ \A q \in Fetches :
        /\ fetch[q] \in {"keys", "reply"} =>
            reply[q]["port"] = stored[fetchSrv[q]]["port"]
        /\ fetch[q] = "reply" =>
            \A k \in Keys : reply[q][k] = stored[fetchSrv[q]][k]
    /\ \A t \in Starts :
        /\ start[t] = "keys" =>
            payload[t] = WithKeys(stored[startSrv[t]], Empty)
        /\ start[t] = "send" => payload[t] = Env(stored[startSrv[t]])

(* What is stored and what a save has still to write make what was asked.  *)
SaveOnItsWay ==
    \A u \in Saves :
        LET s == saveSrv[u] IN
        /\ save[u] = "row" =>
            /\ asked[s]["port"] = IF body[u]["port"] = Blank THEN stored[s]["port"]
                                  ELSE body[u]["port"]
            /\ asked[s]["password"] = body[u]["password"]
        /\ save[u] = "insert" =>
            /\ asked[s] = body[u]
            /\ \A k \in Keys \ todo[u] : body[u][k] = Blank
        /\ save[u] = "keys" =>
            \A f \in {"port", "password"} : stored[s][f] = asked[s][f]
        /\ save[u] \in {"row", "keys"} =>
            \A k \in Keys : asked[s][k] = IF k \in todo[u] THEN body[u][k]
                                          ELSE stored[s][k]

(* A save of the server on show writes what its form still shows, where    *)
(* the user has not edited.                                                *)
BodyIsForm ==
    Shown => \A u \in Saves : save[u] # "idle" /\ saveSrv[u] = selected =>
        \A f \in Fields \ ({"password"} \cup touched) : body[u][f] = form[f]

FormIsStored ==
    Shown /\ ~Fetching =>
        \A f \in Fields \ ({"password"} \cup touched) :
            form[f] = stored[selected][f]

StoredIsAsked == \A s \in exists : ~Saving(s) => stored[s] = asked[s]

Calm ==
    /\ OneAtATime /\ ReadIsStored /\ SaveOnItsWay /\ BodyIsForm
    /\ FormIsStored /\ StoredIsAsked

ConfigInv == TypeOK /\ FormInv /\ (Patient => Calm)

-----------------------------------------------------------------------------
(* Every step keeps every variable in its range, and the form's facts.     *)

LEMMA FieldsFact ==
  /\ "port" \in Fields /\ "password" \in Fields /\ "port" # "password"
  /\ \A k \in Keys : k \in Fields /\ k # "port" /\ k # "password"
  /\ \A f \in Fields : f \in Keys \/ f = "port" \/ f = "password"
  BY ConfigAssumption DEF ConfigAssumption, Fields

(* Settings with one field changed.                                        *)
LEMMA Changed ==
  ASSUME NEW g \in Settings, NEW f \in Fields, NEW v \in Values \cup {Blank}
  PROVE  /\ [g EXCEPT ![f] = v] \in Settings
         /\ g[f] \in Values \cup {Blank}
         /\ \A h \in Fields : [g EXCEPT ![f] = v][h] = IF h = f THEN v ELSE g[h]
  BY DEF Settings

LEMMA EnvType == \A g \in Settings : Env(g) \in Settings
  BY ConfigAssumption DEF ConfigAssumption, Env, Overlay, Settings

LEMMA WithKeysType ==
  \A g, h \in Settings : WithKeys(g, h) \in Settings
  BY DEF WithKeys, Settings

LEMMA WithKeysAt ==
  \A g, h : \A f \in Fields :
    WithKeys(g, h)[f] = IF f \in Keys THEN h[f] ELSE g[f]
  BY DEF WithKeys

LEMMA EmptyType == Empty \in Settings
  BY DEF Empty, Settings

LEMMA TypeInit == Init => TypeOK /\ FormInv
<1> SUFFICES ASSUME Init PROVE TypeOK /\ FormInv
  OBVIOUS
<1> USE ConfigAssumption DEF ConfigAssumption, Init
<1>1. 0 \in 0 .. MaxHurries /\ 0 \in 0 .. MaxErrors
  OBVIOUS
<1>2. TypeOK
  BY <1>1, EmptyType DEF TypeOK
<1>3. FormInv
  BY FieldsFact DEF FormInv, Empty
<1>4. QED
  BY <1>2, <1>3

LEMMA TypeStep == TypeOK /\ FormInv /\ [Next]_vars => TypeOK' /\ FormInv'
<1> SUFFICES ASSUME TypeOK, FormInv, [Next]_vars PROVE TypeOK' /\ FormInv'
  OBVIOUS
<1> USE ConfigAssumption, EnvType, WithKeysType, EmptyType
    DEF ConfigAssumption, TypeOK, FormInv, Hurry, db, page, fetchVars, saveVars,
        startVars, user
<1>1. ASSUME NEW s \in Servers, OpenServer(s) PROVE TypeOK' /\ FormInv'
  BY <1>1 DEF OpenServer
<1>2. CASE CloseServer
  BY <1>2 DEF CloseServer
<1>3. ASSUME NEW f \in Fields, NEW v \in Typed[f] \cup {Blank}, Edit(f, v)
      PROVE TypeOK' /\ FormInv'
  <2>1. form' = [form EXCEPT ![f] = v] /\ v \in Values \cup {Blank}
    BY <1>3 DEF Edit
  <2>2. form' \in Settings /\ \A h \in Fields : h # f => form'[h] = form[h]
    BY <2>1 DEF Settings
  <2>3. QED
    BY <1>3, <2>2, FieldsFact DEF Edit
<1>4. ASSUME NEW q \in Fetches, OpenConfig(q) PROVE TypeOK' /\ FormInv'
  BY <1>4 DEF OpenConfig
<1>5. ASSUME NEW q \in Fetches, FetchRow(q) PROVE TypeOK' /\ FormInv'
  <2> DEFINE v == stored[fetchSrv[q]]["port"]
  <2>0. fetchSrv[q] \in Servers
    BY <1>5 DEF FetchRow
  <2>1. v \in Values \cup {Blank}
    BY <2>0, FieldsFact DEF Settings
  <2>2. reply' = [reply EXCEPT ![q] = [reply[q] EXCEPT !["port"] = v]]
    BY <1>5 DEF FetchRow
  <2>3. reply'[q] \in Settings /\ reply'[q]["password"] = reply[q]["password"]
    BY <2>1, <2>2, FieldsFact DEF Settings
  <2>4. QED
    BY <1>5, <2>2, <2>3 DEF FetchRow
<1>6. ASSUME NEW q \in Fetches, FetchKeys(q) PROVE TypeOK' /\ FormInv'
  <2>1. reply' = [reply EXCEPT ![q] = WithKeys(reply[q], stored[fetchSrv[q]])]
    BY <1>6 DEF FetchKeys
  <2>2. reply'[q] \in Settings /\ reply'[q]["password"] = reply[q]["password"]
    BY <1>6, <2>1, FieldsFact, WithKeysAt DEF FetchKeys
  <2>3. QED
    BY <1>6, <2>1, <2>2 DEF FetchKeys
<1>7. ASSUME NEW q \in Fetches, FetchError(q) PROVE TypeOK' /\ FormInv'
  <2>1. TypeOK'
    <3>1. CASE FetchOver(q)
      <4>1. fetch' \in [Fetches -> {"idle", "row", "keys", "reply"}]
        BY <3>1 DEF FetchOver
      <4>2. /\ fetchSrv' \in [Fetches -> exists \cup {NoServer}]
            /\ reply' \in [Fetches -> Settings]
        BY <3>1 DEF FetchOver
      <4>3. \A p \in Fetches : fetch'[p] # "idle" => fetchSrv'[p] # NoServer
        BY <3>1 DEF FetchOver
      <4>4. QED
        BY <1>7, <4>1, <4>2, <4>3 DEF FetchError
    <3>2. CASE ~FetchOver(q)
      BY <1>7, <3>2 DEF FetchError
    <3>3. QED
      BY <3>1, <3>2
  <2>2. FormInv'
    BY <1>7, FieldsFact DEF FetchError, FetchOver, Empty
  <2>3. QED
    BY <2>1, <2>2
<1>8. ASSUME NEW q \in Fetches, FillForm(q) PROVE TypeOK' /\ FormInv'
  <2>1. WithKeys(reply[q], form)["password"] = reply[q]["password"]
    BY FieldsFact, WithKeysAt
  <2>2. Empty["password"] = Blank
    BY FieldsFact DEF Empty
  <2>3. TypeOK'
    <3>1. /\ form' \in Settings /\ rendered' \in BOOLEAN
          /\ touched' \subseteq Fields
      <4>1. CASE selected = NoServer
        <5>1. /\ form' = WithKeys(reply[q], form) /\ rendered' = rendered
              /\ touched' = touched
          BY <1>8, <4>1 DEF FillForm
        <5>2. QED
          BY <5>1
      <4>2. CASE selected # NoServer
        <5>1. form' = reply[q] /\ rendered' = TRUE /\ touched' = {}
          BY <1>8, <4>2 DEF FillForm
        <5>2. QED
          BY <5>1
      <4>3. QED
        BY <4>1, <4>2
    <3>2. /\ fetch' \in [Fetches -> {"idle", "row", "keys", "reply"}]
          /\ fetchSrv' \in [Fetches -> exists \cup {NoServer}]
          /\ \A p \in Fetches : fetch'[p] # "idle" => fetchSrv'[p] # NoServer
          /\ reply' \in [Fetches -> Settings]
      BY <1>8 DEF FillForm, FetchOver
    <3>3. QED
      BY <1>8, <3>1, <3>2 DEF FillForm
  <2>4. FormInv'
    BY <1>8, <2>1, <2>2 DEF FillForm, FetchOver
  <2>5. QED
    BY <2>3, <2>4
<1>9. ASSUME NEW u \in Saves, Save(u) PROVE TypeOK' /\ FormInv'
  <2>1. Wish(selected) \in Settings
    BY <1>9 DEF Save, Wish, Settings
  <2>2. QED
    BY <1>9, <2>1 DEF Save
<1>10. ASSUME NEW u \in Saves, UpdateRow(u) PROVE TypeOK' /\ FormInv'
  <2> DEFINE s == saveSrv[u]
             v == IF body[u]["port"] = Blank THEN stored[s]["port"]
                  ELSE body[u]["port"]
             g == [stored[s] EXCEPT !["port"] = v]
             h == [g EXCEPT !["password"] = body[u]["password"]]
  <2>1. s \in Servers
    BY <1>10 DEF UpdateRow
  <2>2. stored' = [stored EXCEPT ![s] = h]
    BY <1>10, <2>1, FieldsFact DEF UpdateRow
  <2>3. g \in Settings /\ g["port"] = v
    BY <2>1, FieldsFact DEF Settings
  <2>4. h \in Settings /\ h["port"] = v
    <3>1. body[u]["password"] \in Values \cup {Blank}
      BY FieldsFact DEF Settings
    <3> HIDE DEF g, v
    <3>2. QED
      BY <2>3, <3>1, FieldsFact DEF Settings
  <2>5. stored[s]["port"] # Blank => h["port"] # Blank
    BY <2>4
  <2> HIDE DEF h
  <2>6. /\ stored' \in [Servers -> Settings]
        /\ \A r \in exists : stored'[r]["port"] # Blank
    BY <2>1, <2>2, <2>4, <2>5
  <2>7. QED
    BY <1>10, <2>6 DEF UpdateRow
<1>11. ASSUME NEW u \in Saves, InsertRow(u) PROVE TypeOK' /\ FormInv'
  <2>1. /\ WithKeys(body[u], Empty) \in Settings
        /\ WithKeys(body[u], Empty)["port"] = body[u]["port"]
    BY FieldsFact, WithKeysAt
  <2>2. QED
    BY <1>11, <2>1 DEF InsertRow
<1>12. ASSUME NEW u \in Saves, SaveRefused(u) PROVE TypeOK' /\ FormInv'
  BY <1>12 DEF SaveRefused, SaveOver
<1>13. ASSUME NEW u \in Saves, Respond(u) PROVE TypeOK' /\ FormInv'
  BY <1>13 DEF Respond, SaveOver
<1>14. ASSUME NEW u \in Saves, NEW s \in Servers, NEW g \in Inputs, Create(u, s, g)
       PROVE TypeOK' /\ FormInv'
  BY <1>14 DEF Create, Inputs
<1>15. ASSUME NEW u \in Saves, NEW k \in Keys, WriteKey(u, k)
       PROVE TypeOK' /\ FormInv'
  <2> DEFINE s == saveSrv[u]
             g == [stored[s] EXCEPT ![k] = body[u][k]]
  <2>1. s \in Servers /\ stored' = [stored EXCEPT ![s] = g]
    BY <1>15 DEF WriteKey
  <2>2. g \in Settings /\ g["port"] = stored[s]["port"]
    BY <2>1, FieldsFact DEF Settings
  <2> HIDE DEF g
  <2>3. /\ stored' \in [Servers -> Settings]
        /\ \A r \in exists : stored'[r]["port"] # Blank
    BY <2>1, <2>2
  <2>4. QED
    BY <1>15, <2>3 DEF WriteKey
<1>16. ASSUME NEW u \in Saves, NEW k \in Keys, WriteKeyFails(u, k)
       PROVE TypeOK' /\ FormInv'
  BY <1>16 DEF WriteKeyFails
<1>17. ASSUME NEW t \in Starts, Start(t) PROVE TypeOK' /\ FormInv'
  BY <1>17 DEF Start
<1>18. ASSUME NEW t \in Starts, StartRow(t) PROVE TypeOK' /\ FormInv'
  BY <1>18 DEF StartRow
<1>19. ASSUME NEW t \in Starts, StartKeys(t) PROVE TypeOK' /\ FormInv'
  BY <1>19 DEF StartKeys
<1>20. ASSUME NEW t \in Starts, StartKeysFail(t) PROVE TypeOK' /\ FormInv'
  BY <1>20 DEF StartKeysFail
<1>21. ASSUME NEW t \in Starts, StartOver(t) PROVE TypeOK' /\ FormInv'
  BY <1>21 DEF StartOver
<1>22. CASE UNCHANGED vars
  BY <1>22 DEF vars
<1>23. QED
  BY <1>1, <1>2, <1>3, <1>4, <1>5, <1>6, <1>7, <1>8, <1>9, <1>10, <1>11,
     <1>12, <1>13, <1>14, <1>15, <1>16, <1>17, <1>18, <1>19, <1>20, <1>21,
     <1>22
  DEF Next, FetchStep, SaveStep, StartStep

-----------------------------------------------------------------------------
(* A patient user's next step finds and leaves things calm.                *)

LEMMA CalmStep ==
  ASSUME TypeOK, TypeOK', FormInv, Calm, Patient, Patient', [Next]_vars
  PROVE  Calm'
<1> USE ConfigAssumption, FieldsFact
    DEF ConfigAssumption, TypeOK, FormInv, Calm, Patient, Hurry, db, page,
        fetchVars, saveVars, startVars, user
<1>1. ASSUME NEW s \in Servers, OpenServer(s) PROVE Calm'
  <2>1. OneAtATime'
    BY <1>1 DEF OpenServer, OneAtATime, Saving, Shown, Fetching, Starting
  <2>2. ReadIsStored'
    BY <1>1 DEF OpenServer, OneAtATime, ReadIsStored, Saving
  <2>3. SaveOnItsWay'
    BY <1>1
      DEF OpenServer, OneAtATime, SaveOnItsWay, StoredIsAsked, FormIsStored,
          Saving, Shown
  <2>4. BodyIsForm'
    BY <1>1 DEF OpenServer, OneAtATime, BodyIsForm, Saving, Shown
  <2>5. FormIsStored'
    BY <1>1
      DEF OpenServer, OneAtATime, ReadIsStored, BodyIsForm, FormIsStored,
          Saving, Fetching, Shown
  <2>6. StoredIsAsked'
    BY <1>1 DEF OpenServer, OneAtATime, SaveOnItsWay, StoredIsAsked, Saving
  <2>7. QED
    BY <2>1, <2>2, <2>3, <2>4, <2>5, <2>6
<1>2. CASE CloseServer
  <2>1. OneAtATime'
    BY <1>2 DEF CloseServer, OneAtATime, Saving, Shown, Fetching, Starting
  <2>2. ReadIsStored'
    BY <1>2 DEF CloseServer, OneAtATime, ReadIsStored, Saving
  <2>3. SaveOnItsWay'
    BY <1>2
      DEF CloseServer, OneAtATime, SaveOnItsWay, StoredIsAsked, FormIsStored,
          Saving, Shown
  <2>4. BodyIsForm'
    BY <1>2 DEF CloseServer, OneAtATime, BodyIsForm, Saving, Shown
  <2>5. FormIsStored'
    BY <1>2
      DEF CloseServer, OneAtATime, ReadIsStored, BodyIsForm, FormIsStored,
          Saving, Fetching, Shown
  <2>6. StoredIsAsked'
    BY <1>2 DEF CloseServer, OneAtATime, SaveOnItsWay, StoredIsAsked, Saving
  <2>7. QED
    BY <2>1, <2>2, <2>3, <2>4, <2>5, <2>6
<1>3. ASSUME NEW f \in Fields, NEW v \in Typed[f] \cup {Blank}, Edit(f, v)
      PROVE Calm'
  <2>1. OneAtATime'
    BY <1>3 DEF Edit, OneAtATime, Saving, Shown, Fetching, Starting
  <2>2. ReadIsStored'
    BY <1>3 DEF Edit, OneAtATime, ReadIsStored, Saving
  <2>3. SaveOnItsWay'
    BY <1>3
      DEF Edit, OneAtATime, SaveOnItsWay, StoredIsAsked, FormIsStored, Saving,
          Shown
  <2>4. BodyIsForm'
    BY <1>3 DEF Edit, OneAtATime, BodyIsForm, Saving, Shown
  <2>5. FormIsStored'
    BY <1>3
      DEF Edit, OneAtATime, ReadIsStored, BodyIsForm, FormIsStored, Saving,
          Fetching, Shown
  <2>6. StoredIsAsked'
    BY <1>3 DEF Edit, OneAtATime, SaveOnItsWay, StoredIsAsked, Saving
  <2>7. QED
    BY <2>1, <2>2, <2>3, <2>4, <2>5, <2>6
<1>4. ASSUME NEW q \in Fetches, OpenConfig(q) PROVE Calm'
  <2>1. OneAtATime'
    BY <1>4 DEF OpenConfig, OneAtATime, Saving, Shown, Fetching, Starting
  <2>2. ReadIsStored'
    BY <1>4 DEF OpenConfig, OneAtATime, ReadIsStored, Saving
  <2>3. SaveOnItsWay'
    BY <1>4
      DEF OpenConfig, OneAtATime, SaveOnItsWay, StoredIsAsked, FormIsStored,
          Saving, Shown
  <2>4. BodyIsForm'
    BY <1>4 DEF OpenConfig, OneAtATime, BodyIsForm, Saving, Shown
  <2>5. FormIsStored'
    BY <1>4
      DEF OpenConfig, OneAtATime, ReadIsStored, BodyIsForm, FormIsStored,
          Saving, Fetching, Shown
  <2>6. StoredIsAsked'
    BY <1>4 DEF OpenConfig, OneAtATime, SaveOnItsWay, StoredIsAsked, Saving
  <2>7. QED
    BY <2>1, <2>2, <2>3, <2>4, <2>5, <2>6
<1>5. ASSUME NEW q \in Fetches, FetchRow(q) PROVE Calm'
  <2>1. OneAtATime'
    BY <1>5 DEF FetchRow, OneAtATime, Saving, Shown, Fetching, Starting
  <2>2. ReadIsStored'
    <3> DEFINE v == stored[fetchSrv[q]]["port"]
    <3>1. reply' = [reply EXCEPT ![q] = [reply[q] EXCEPT !["port"] = v]]
      BY <1>5 DEF FetchRow
    <3>2. reply'[q]["port"] = v
      BY <3>1 DEF Settings
    <3>3. QED
      BY <1>5, <3>1, <3>2 DEF FetchRow, ReadIsStored
  <2>3. SaveOnItsWay'
    BY <1>5
      DEF FetchRow, OneAtATime, SaveOnItsWay, StoredIsAsked, FormIsStored,
          Saving, Shown
  <2>4. BodyIsForm'
    BY <1>5 DEF FetchRow, OneAtATime, BodyIsForm, Saving, Shown
  <2>5. FormIsStored'
    BY <1>5
      DEF FetchRow, OneAtATime, ReadIsStored, BodyIsForm, FormIsStored,
          Saving, Fetching, Shown
  <2>6. StoredIsAsked'
    BY <1>5 DEF FetchRow, OneAtATime, SaveOnItsWay, StoredIsAsked, Saving
  <2>7. QED
    BY <2>1, <2>2, <2>3, <2>4, <2>5, <2>6
<1>6. ASSUME NEW q \in Fetches, FetchKeys(q) PROVE Calm'
  <2>1. OneAtATime'
    BY <1>6 DEF FetchKeys, OneAtATime, Saving, Shown, Fetching, Starting
  <2>2. ReadIsStored'
    <3> DEFINE g == stored[fetchSrv[q]]
    <3>1. reply' = [reply EXCEPT ![q] = WithKeys(reply[q], g)]
      BY <1>6 DEF FetchKeys
    <3>2. /\ reply'[q]["port"] = reply[q]["port"]
          /\ \A k \in Keys : reply'[q][k] = g[k]
      BY <3>1, WithKeysAt
    <3>3. QED
      BY <1>6, <3>1, <3>2 DEF FetchKeys, ReadIsStored
  <2>3. SaveOnItsWay'
    BY <1>6
      DEF FetchKeys, OneAtATime, SaveOnItsWay, StoredIsAsked, FormIsStored,
          Saving, Shown
  <2>4. BodyIsForm'
    BY <1>6 DEF FetchKeys, OneAtATime, BodyIsForm, Saving, Shown
  <2>5. FormIsStored'
    BY <1>6
      DEF FetchKeys, OneAtATime, ReadIsStored, BodyIsForm, FormIsStored,
          Saving, Fetching, Shown
  <2>6. StoredIsAsked'
    BY <1>6 DEF FetchKeys, OneAtATime, SaveOnItsWay, StoredIsAsked, Saving
  <2>7. QED
    BY <2>1, <2>2, <2>3, <2>4, <2>5, <2>6
<1>7. ASSUME NEW q \in Fetches, FetchError(q) PROVE Calm'
  <2>1. OneAtATime'
    BY <1>7
      DEF FetchError, FetchOver, OneAtATime, Saving, Shown, Fetching, Starting
  <2>2. ReadIsStored'
    BY <1>7 DEF FetchError, FetchOver, OneAtATime, ReadIsStored, Saving
  <2>3. SaveOnItsWay'
    BY <1>7
      DEF FetchError, FetchOver, OneAtATime, SaveOnItsWay, StoredIsAsked,
          FormIsStored, Saving, Shown
  <2>4. BodyIsForm'
    BY <1>7 DEF FetchError, FetchOver, OneAtATime, BodyIsForm, Saving, Shown
  <2>5. FormIsStored'
    BY <1>7
      DEF FetchError, FetchOver, OneAtATime, ReadIsStored, BodyIsForm,
          FormIsStored, Saving, Fetching, Shown
  <2>6. StoredIsAsked'
    BY <1>7
      DEF FetchError, FetchOver, OneAtATime, SaveOnItsWay, StoredIsAsked,
          Saving
  <2>7. QED
    BY <2>1, <2>2, <2>3, <2>4, <2>5, <2>6
<1>8. ASSUME NEW q \in Fetches, FillForm(q) PROVE Calm'
  <2>1. OneAtATime'
    BY <1>8
      DEF FillForm, FetchOver, OneAtATime, Saving, Shown, Fetching, Starting
  <2>2. ReadIsStored'
    BY <1>8 DEF FillForm, FetchOver, OneAtATime, ReadIsStored, Saving
  <2>3. SaveOnItsWay'
    BY <1>8
      DEF FillForm, FetchOver, OneAtATime, SaveOnItsWay, StoredIsAsked,
          FormIsStored, Saving, Shown
  <2>4. BodyIsForm'
    BY <1>8 DEF FillForm, FetchOver, OneAtATime, BodyIsForm, Saving, Shown
  <2>5. FormIsStored'
    BY <1>8
      DEF FillForm, FetchOver, OneAtATime, ReadIsStored, BodyIsForm,
          FormIsStored, Saving, Fetching, Shown
  <2>6. StoredIsAsked'
    BY <1>8
      DEF FillForm, FetchOver, OneAtATime, SaveOnItsWay, StoredIsAsked, Saving
  <2>7. QED
    BY <2>1, <2>2, <2>3, <2>4, <2>5, <2>6
<1>9. ASSUME NEW u \in Saves, Save(u) PROVE Calm'
  <2>1. OneAtATime'
    BY <1>9 DEF Save, Wish, OneAtATime, Saving, Shown, Fetching, Starting
  <2>2. ReadIsStored'
    BY <1>9 DEF Save, Wish, OneAtATime, ReadIsStored, Saving
  <2>3. SaveOnItsWay'
    BY <1>9
      DEF Save, Wish, OneAtATime, SaveOnItsWay, StoredIsAsked, FormIsStored,
          Saving, Shown
  <2>4. BodyIsForm'
    BY <1>9 DEF Save, Wish, OneAtATime, BodyIsForm, Saving, Shown
  <2>5. FormIsStored'
    BY <1>9
      DEF Save, Wish, OneAtATime, ReadIsStored, BodyIsForm, FormIsStored,
          Saving, Fetching, Shown
  <2>6. StoredIsAsked'
    BY <1>9 DEF Save, Wish, OneAtATime, SaveOnItsWay, StoredIsAsked, Saving
  <2>7. QED
    BY <2>1, <2>2, <2>3, <2>4, <2>5, <2>6
<1>10. ASSUME NEW u \in Saves, UpdateRow(u) PROVE Calm'
  <2> DEFINE s == saveSrv[u]
             v == IF body[u]["port"] = Blank THEN stored[s]["port"]
                  ELSE body[u]["port"]
  <2>0. /\ s \in Servers
        /\ \A r \in Servers : r # s => stored'[r] = stored[r]
        /\ stored'[s]["port"] = v /\ stored'[s]["password"] = body[u]["password"]
        /\ \A k \in Keys : stored'[s][k] = stored[s][k]
    BY <1>10 DEF UpdateRow, Settings
  <2>1. OneAtATime'
    BY <1>10 DEF UpdateRow, OneAtATime, Saving, Shown, Fetching, Starting
  <2>2. ReadIsStored'
    <3>1. /\ \A q \in Fetches : fetch[q] # "idle" => fetchSrv[q] # s
          /\ \A t \in Starts : start[t] # "idle" => startSrv[t] # s
      BY <1>10 DEF UpdateRow, OneAtATime, Saving
    <3>2. UNCHANGED <<fetch, fetchSrv, reply, start, startSrv, payload>>
      BY <1>10 DEF UpdateRow
    <3> HIDE DEF s
    <3>3. QED
      BY <2>0, <3>1, <3>2 DEF ReadIsStored
  <2>3. SaveOnItsWay'
    <3>1. /\ save[u] = "row" /\ save' = [save EXCEPT ![u] = "keys"]
          /\ UNCHANGED <<saveSrv, body, todo, asked>>
      BY <1>10 DEF UpdateRow
    <3>2. ASSUME NEW w \in Saves, save[w] # "idle", w # u
          PROVE  saveSrv[w] # s /\ saveSrv[w] \in Servers
      BY <3>1, <3>2 DEF OneAtATime
    <3>3. QED
      BY <2>0, <3>1, <3>2 DEF SaveOnItsWay
  <2>4. BodyIsForm'
    BY <1>10 DEF UpdateRow, OneAtATime, BodyIsForm, Saving, Shown
  <2>5. FormIsStored'
    <3>1. /\ save[u] = "row" /\ fetch' = fetch
          /\ UNCHANGED <<selected, tab, form, touched>>
      BY <1>10 DEF UpdateRow
    <3> SUFFICES ASSUME Shown, ~Fetching,
                        NEW f \in Fields \ ({"password"} \cup touched)
                 PROVE  form[f] = stored'[selected][f]
      BY <3>1 DEF FormIsStored, Shown, Fetching
    <3>2. form[f] = stored[selected][f] /\ selected \in Servers
      BY DEF FormIsStored, Shown
    <3>3. s = selected => body[u][f] = form[f]
      BY <3>1 DEF BodyIsForm
    <3>4. QED
      BY <2>0, <3>2, <3>3
  <2>6. StoredIsAsked'
    BY <1>10 DEF UpdateRow, OneAtATime, SaveOnItsWay, StoredIsAsked, Saving
  <2>7. QED
    BY <2>1, <2>2, <2>3, <2>4, <2>5, <2>6
<1>11. ASSUME NEW u \in Saves, InsertRow(u) PROVE Calm'
  <2>1. OneAtATime'
    BY <1>11 DEF InsertRow, OneAtATime, Saving, Shown, Fetching, Starting
  <2>2. ReadIsStored'
    BY <1>11 DEF InsertRow, OneAtATime, ReadIsStored, Saving
  <2>3. SaveOnItsWay'
    <3> DEFINE s == saveSrv[u]
    <3>1. /\ save[u] = "insert" /\ save' = [save EXCEPT ![u] = "keys"]
          /\ UNCHANGED <<saveSrv, body, todo, asked>>
          /\ stored' = [stored EXCEPT ![s] = WithKeys(body[u], Empty)]
      BY <1>11 DEF InsertRow
    <3>2. /\ s \in Servers
          /\ \A r \in Servers : r # s => stored'[r] = stored[r]
          /\ stored'[s]["port"] = body[u]["port"]
          /\ stored'[s]["password"] = body[u]["password"]
          /\ \A k \in Keys : stored'[s][k] = Blank
      BY <3>1, WithKeysAt DEF Empty
    <3>3. ASSUME NEW w \in Saves, save[w] # "idle", w # u
          PROVE  saveSrv[w] # s /\ saveSrv[w] \in Servers
      BY <3>1, <3>3 DEF OneAtATime
    <3>4. asked[s] = body[u] /\ \A k \in Keys \ todo[u] : body[u][k] = Blank
      BY <3>1 DEF SaveOnItsWay
    <3>5. QED
      BY <3>1, <3>2, <3>3, <3>4 DEF SaveOnItsWay
  <2>4. BodyIsForm'
    BY <1>11 DEF InsertRow, OneAtATime, BodyIsForm, Saving, Shown
  <2>5. FormIsStored'
    BY <1>11
      DEF InsertRow, OneAtATime, ReadIsStored, BodyIsForm, FormIsStored,
          Saving, Fetching, Shown
  <2>6. StoredIsAsked'
    BY <1>11 DEF InsertRow, OneAtATime, SaveOnItsWay, StoredIsAsked, Saving
  <2>7. QED
    BY <2>1, <2>2, <2>3, <2>4, <2>5, <2>6
<1>12. ASSUME NEW u \in Saves, SaveRefused(u) PROVE Calm'
  <2>1. OneAtATime'
    BY <1>12
      DEF SaveRefused, SaveOver, OneAtATime, Saving, Shown, Fetching, Starting
  <2>2. ReadIsStored'
    BY <1>12 DEF SaveRefused, SaveOver, OneAtATime, ReadIsStored, Saving
  <2>3. SaveOnItsWay'
    BY <1>12
      DEF SaveRefused, SaveOver, OneAtATime, SaveOnItsWay, StoredIsAsked,
          FormIsStored, Saving, Shown
  <2>4. BodyIsForm'
    BY <1>12 DEF SaveRefused, SaveOver, OneAtATime, BodyIsForm, Saving, Shown
  <2>5. FormIsStored'
    BY <1>12
      DEF SaveRefused, SaveOver, OneAtATime, ReadIsStored, BodyIsForm,
          FormIsStored, Saving, Fetching, Shown
  <2>6. StoredIsAsked'
    BY <1>12
      DEF SaveRefused, SaveOver, OneAtATime, SaveOnItsWay, StoredIsAsked,
          Saving
  <2>7. QED
    BY <2>1, <2>2, <2>3, <2>4, <2>5, <2>6
<1>13. ASSUME NEW u \in Saves, Respond(u) PROVE Calm'
  <2>1. OneAtATime'
    BY <1>13
      DEF Respond, SaveOver, OneAtATime, Saving, Shown, Fetching, Starting
  <2>2. ReadIsStored'
    BY <1>13 DEF Respond, SaveOver, OneAtATime, ReadIsStored, Saving
  <2>3. SaveOnItsWay'
    BY <1>13
      DEF Respond, SaveOver, OneAtATime, SaveOnItsWay, StoredIsAsked,
          FormIsStored, Saving, Shown
  <2>4. BodyIsForm'
    BY <1>13 DEF Respond, SaveOver, OneAtATime, BodyIsForm, Saving, Shown
  <2>5. FormIsStored'
    BY <1>13
      DEF Respond, SaveOver, OneAtATime, ReadIsStored, BodyIsForm,
          FormIsStored, Saving, Fetching, Shown
  <2>6. StoredIsAsked'
    <3> DEFINE s == saveSrv[u]
    <3>1. /\ save[u] = "keys" /\ todo[u] = {} /\ s \in Servers
          /\ save' = [save EXCEPT ![u] = "idle"]
          /\ saveSrv' = [saveSrv EXCEPT ![u] = NoServer]
          /\ UNCHANGED <<exists, stored, asked>>
      BY <1>13 DEF Respond, SaveOver
    <3>2. \A f \in Fields : stored[s][f] = asked[s][f]
      BY <3>1 DEF SaveOnItsWay
    <3>3. stored[s] = asked[s]
      BY <3>1, <3>2 DEF Settings
    <3>4. QED
      BY <3>1, <3>3 DEF StoredIsAsked, Saving
  <2>7. QED
    BY <2>1, <2>2, <2>3, <2>4, <2>5, <2>6
<1>14. ASSUME NEW u \in Saves, NEW s \in Servers, NEW g \in Inputs, Create(u, s, g)
       PROVE Calm'
  <2>1. OneAtATime'
    BY <1>14 DEF Create, Inputs, OneAtATime, Saving, Shown, Fetching, Starting
  <2>2. ReadIsStored'
    BY <1>14 DEF Create, Inputs, OneAtATime, ReadIsStored, Saving
  <2>3. SaveOnItsWay'
    BY <1>14
      DEF Create, Inputs, OneAtATime, SaveOnItsWay, StoredIsAsked,
          FormIsStored, Saving, Shown
  <2>4. BodyIsForm'
    BY <1>14 DEF Create, Inputs, OneAtATime, BodyIsForm, Saving, Shown
  <2>5. FormIsStored'
    BY <1>14
      DEF Create, Inputs, OneAtATime, ReadIsStored, BodyIsForm, FormIsStored,
          Saving, Fetching, Shown
  <2>6. StoredIsAsked'
    BY <1>14
      DEF Create, Inputs, OneAtATime, SaveOnItsWay, StoredIsAsked, Saving
  <2>7. QED
    BY <2>1, <2>2, <2>3, <2>4, <2>5, <2>6
<1>15. ASSUME NEW u \in Saves, NEW k \in Keys, WriteKey(u, k) PROVE Calm'
  <2> DEFINE s == saveSrv[u]
  <2>0. /\ s \in Servers
        /\ \A r \in Servers : r # s => stored'[r] = stored[r]
        /\ \A f \in Fields :
             stored'[s][f] = IF f = k THEN body[u][k] ELSE stored[s][f]
    BY <1>15 DEF WriteKey, Settings
  <2>1. OneAtATime'
    BY <1>15 DEF WriteKey, OneAtATime, Saving, Shown, Fetching, Starting
  <2>2. ReadIsStored'
    BY <1>15 DEF WriteKey, OneAtATime, ReadIsStored, Saving
  <2>3. SaveOnItsWay'
    <3>1. /\ save[u] = "keys" /\ k \in todo[u] /\ save' = save
          /\ todo' = [todo EXCEPT ![u] = todo[u] \ {k}]
          /\ UNCHANGED <<saveSrv, body, asked>>
      BY <1>15 DEF WriteKey
    <3>2. ASSUME NEW w \in Saves, save[w] # "idle", w # u
          PROVE  saveSrv[w] # s /\ saveSrv[w] \in Servers
      BY <3>1, <3>2 DEF OneAtATime
    <3>3. QED
      BY <2>0, <3>1, <3>2 DEF SaveOnItsWay
  <2>4. BodyIsForm'
    BY <1>15 DEF WriteKey, OneAtATime, BodyIsForm, Saving, Shown
  <2>5. FormIsStored'
    BY <1>15
      DEF WriteKey, OneAtATime, ReadIsStored, BodyIsForm, FormIsStored,
          Saving, Fetching, Shown
  <2>6. StoredIsAsked'
    BY <1>15 DEF WriteKey, OneAtATime, SaveOnItsWay, StoredIsAsked, Saving
  <2>7. QED
    BY <2>1, <2>2, <2>3, <2>4, <2>5, <2>6
<1>16. ASSUME NEW u \in Saves, NEW k \in Keys, WriteKeyFails(u, k) PROVE Calm'
  <2>1. OneAtATime'
    BY <1>16 DEF WriteKeyFails, OneAtATime, Saving, Shown, Fetching, Starting
  <2>2. ReadIsStored'
    BY <1>16 DEF WriteKeyFails, OneAtATime, ReadIsStored, Saving
  <2>3. SaveOnItsWay'
    BY <1>16
      DEF WriteKeyFails, OneAtATime, SaveOnItsWay, StoredIsAsked,
          FormIsStored, Saving, Shown
  <2>4. BodyIsForm'
    BY <1>16 DEF WriteKeyFails, OneAtATime, BodyIsForm, Saving, Shown
  <2>5. FormIsStored'
    BY <1>16
      DEF WriteKeyFails, OneAtATime, ReadIsStored, BodyIsForm, FormIsStored,
          Saving, Fetching, Shown
  <2>6. StoredIsAsked'
    BY <1>16 DEF WriteKeyFails, OneAtATime, SaveOnItsWay, StoredIsAsked, Saving
  <2>7. QED
    BY <2>1, <2>2, <2>3, <2>4, <2>5, <2>6
<1>17. ASSUME NEW t \in Starts, Start(t) PROVE Calm'
  <2>1. OneAtATime'
    BY <1>17 DEF Start, OneAtATime, Saving, Shown, Fetching, Starting
  <2>2. ReadIsStored'
    BY <1>17 DEF Start, OneAtATime, ReadIsStored, Saving
  <2>3. SaveOnItsWay'
    BY <1>17
      DEF Start, OneAtATime, SaveOnItsWay, StoredIsAsked, FormIsStored,
          Saving, Shown
  <2>4. BodyIsForm'
    BY <1>17 DEF Start, OneAtATime, BodyIsForm, Saving, Shown
  <2>5. FormIsStored'
    BY <1>17
      DEF Start, OneAtATime, ReadIsStored, BodyIsForm, FormIsStored, Saving,
          Fetching, Shown
  <2>6. StoredIsAsked'
    BY <1>17 DEF Start, OneAtATime, SaveOnItsWay, StoredIsAsked, Saving
  <2>7. QED
    BY <2>1, <2>2, <2>3, <2>4, <2>5, <2>6
<1>18. ASSUME NEW t \in Starts, StartRow(t) PROVE Calm'
  <2>1. OneAtATime'
    BY <1>18 DEF StartRow, OneAtATime, Saving, Shown, Fetching, Starting
  <2>2. ReadIsStored'
    BY <1>18 DEF StartRow, OneAtATime, ReadIsStored, Saving
  <2>3. SaveOnItsWay'
    BY <1>18
      DEF StartRow, OneAtATime, SaveOnItsWay, StoredIsAsked, FormIsStored,
          Saving, Shown
  <2>4. BodyIsForm'
    BY <1>18 DEF StartRow, OneAtATime, BodyIsForm, Saving, Shown
  <2>5. FormIsStored'
    BY <1>18
      DEF StartRow, OneAtATime, ReadIsStored, BodyIsForm, FormIsStored,
          Saving, Fetching, Shown
  <2>6. StoredIsAsked'
    BY <1>18 DEF StartRow, OneAtATime, SaveOnItsWay, StoredIsAsked, Saving
  <2>7. QED
    BY <2>1, <2>2, <2>3, <2>4, <2>5, <2>6
<1>19. ASSUME NEW t \in Starts, StartKeys(t) PROVE Calm'
  <2>1. OneAtATime'
    BY <1>19 DEF StartKeys, OneAtATime, Saving, Shown, Fetching, Starting
  <2>2. ReadIsStored'
    <3> DEFINE g == stored[startSrv[t]]
    <3>1. /\ start[t] = "keys" /\ start' = [start EXCEPT ![t] = "send"]
          /\ payload' = [payload EXCEPT ![t] = Env(WithKeys(payload[t], g))]
          /\ UNCHANGED <<stored, startSrv, fetch, fetchSrv, reply>>
          /\ g \in Settings
      BY <1>19 DEF StartKeys
    <3>2. payload[t] = WithKeys(g, Empty)
      BY <3>1 DEF ReadIsStored
    <3>3. WithKeys(WithKeys(g, Empty), g) = g
      BY <3>1 DEF WithKeys, Settings
    <3>4. QED
      BY <3>1, <3>2, <3>3 DEF ReadIsStored
  <2>3. SaveOnItsWay'
    BY <1>19
      DEF StartKeys, OneAtATime, SaveOnItsWay, StoredIsAsked, FormIsStored,
          Saving, Shown
  <2>4. BodyIsForm'
    BY <1>19 DEF StartKeys, OneAtATime, BodyIsForm, Saving, Shown
  <2>5. FormIsStored'
    BY <1>19
      DEF StartKeys, OneAtATime, ReadIsStored, BodyIsForm, FormIsStored,
          Saving, Fetching, Shown
  <2>6. StoredIsAsked'
    BY <1>19 DEF StartKeys, OneAtATime, SaveOnItsWay, StoredIsAsked, Saving
  <2>7. QED
    BY <2>1, <2>2, <2>3, <2>4, <2>5, <2>6
<1>20. ASSUME NEW t \in Starts, StartKeysFail(t) PROVE Calm'
  <2>1. OneAtATime'
    BY <1>20 DEF StartKeysFail, OneAtATime, Saving, Shown, Fetching, Starting
  <2>2. ReadIsStored'
    BY <1>20 DEF StartKeysFail, OneAtATime, ReadIsStored, Saving
  <2>3. SaveOnItsWay'
    BY <1>20
      DEF StartKeysFail, OneAtATime, SaveOnItsWay, StoredIsAsked,
          FormIsStored, Saving, Shown
  <2>4. BodyIsForm'
    BY <1>20 DEF StartKeysFail, OneAtATime, BodyIsForm, Saving, Shown
  <2>5. FormIsStored'
    BY <1>20
      DEF StartKeysFail, OneAtATime, ReadIsStored, BodyIsForm, FormIsStored,
          Saving, Fetching, Shown
  <2>6. StoredIsAsked'
    BY <1>20 DEF StartKeysFail, OneAtATime, SaveOnItsWay, StoredIsAsked, Saving
  <2>7. QED
    BY <2>1, <2>2, <2>3, <2>4, <2>5, <2>6
<1>21. ASSUME NEW t \in Starts, StartOver(t) PROVE Calm'
  <2>1. OneAtATime'
    BY <1>21 DEF StartOver, OneAtATime, Saving, Shown, Fetching, Starting
  <2>2. ReadIsStored'
    BY <1>21 DEF StartOver, OneAtATime, ReadIsStored, Saving
  <2>3. SaveOnItsWay'
    BY <1>21
      DEF StartOver, OneAtATime, SaveOnItsWay, StoredIsAsked, FormIsStored,
          Saving, Shown
  <2>4. BodyIsForm'
    BY <1>21 DEF StartOver, OneAtATime, BodyIsForm, Saving, Shown
  <2>5. FormIsStored'
    BY <1>21
      DEF StartOver, OneAtATime, ReadIsStored, BodyIsForm, FormIsStored,
          Saving, Fetching, Shown
  <2>6. StoredIsAsked'
    BY <1>21 DEF StartOver, OneAtATime, SaveOnItsWay, StoredIsAsked, Saving
  <2>7. QED
    BY <2>1, <2>2, <2>3, <2>4, <2>5, <2>6
<1>22. CASE UNCHANGED vars
  BY <1>22 DEF vars, OneAtATime, ReadIsStored, SaveOnItsWay, BodyIsForm,
    FormIsStored, StoredIsAsked, Saving, Fetching, Shown
<1>23. QED
  BY <1>1, <1>2, <1>3, <1>4, <1>5, <1>6, <1>7, <1>8, <1>9, <1>10, <1>11,
     <1>12, <1>13, <1>14, <1>15, <1>16, <1>17, <1>18, <1>19, <1>20, <1>21,
     <1>22
  DEF Next, FetchStep, SaveStep, StartStep

-----------------------------------------------------------------------------
(* The inductive invariant holds, and gives the properties.                *)

LEMMA ConfigAlways == Spec => []ConfigInv
<1>1. Init => Calm
  BY DEF Init, Calm, OneAtATime, ReadIsStored, SaveOnItsWay, BodyIsForm,
         FormIsStored, StoredIsAsked, Shown
<1>2. Init => ConfigInv
  BY <1>1, TypeInit DEF ConfigInv
<1>3. ConfigInv /\ [Next]_vars => ConfigInv'
  <2> SUFFICES ASSUME ConfigInv, [Next]_vars PROVE ConfigInv'
    OBVIOUS
  <2>1. TypeOK' /\ FormInv'
    BY TypeStep DEF ConfigInv
  <2>2. Patient' => Patient
    <3>1. \/ hurries' = hurries \/ hurries' = hurries + 1
      BY DEF Next, FetchStep, SaveStep, StartStep, OpenServer, CloseServer,
            Edit,
        OpenConfig, FetchRow, FetchKeys, FetchError, FillForm, Save, UpdateRow,
        InsertRow, SaveRefused, Respond, Create, WriteKey, WriteKeyFails, Start,
        StartRow, StartKeys, StartKeysFail, StartOver, Hurry, user, vars
    <3>2. \/ errors' = errors \/ errors' = errors + 1
      BY DEF Next, FetchStep, SaveStep, StartStep, OpenServer, CloseServer,
            Edit,
        OpenConfig, FetchRow, FetchKeys, FetchError, FillForm, Save, UpdateRow,
        InsertRow, SaveRefused, Respond, Create, WriteKey, WriteKeyFails, Start,
        StartRow, StartKeys, StartKeysFail, StartOver, vars
    <3>3. hurries \in Nat /\ errors \in Nat
      BY ConfigAssumption DEF ConfigAssumption, ConfigInv, TypeOK
    <3>4. QED
      BY <3>1, <3>2, <3>3 DEF Patient
  <2>3. Patient' => Calm'
    BY <2>1, <2>2, CalmStep DEF ConfigInv
  <2>4. QED
    BY <2>1, <2>3 DEF ConfigInv
<1>4. QED
  BY <1>2, <1>3, PTL DEF Spec

(* Every variable keeps to its values, and a server that exists has a      *)
(* port, whatever the order of requests and failures (api_servers.go).     *)
THEOREM TypeCorrect == Spec => []TypeOK
<1>1. ConfigInv => TypeOK
  BY DEF ConfigInv
<1>2. QED
  BY <1>1, ConfigAlways, PTL

(* The Config tab of a patient user shows the settings of the server it is *)
(* about, but for what he edited (server.js, openServerConfig).            *)
THEOREM FormShowsItsServer == Spec => []FormIsOwn
<1>1. ConfigInv => FormIsOwn
  BY DEF ConfigInv, Calm, FormIsStored, FormIsOwn, Shown
<1>2. QED
  BY <1>1, ConfigAlways, PTL

(* A save that is over has changed what a patient user edited and no other *)
(* field, although its row and its keys are statements of their own.       *)
THEOREM SavesLand == Spec => []SaveLands
<1>1. ConfigInv => SaveLands
  BY DEF ConfigInv, Calm, StoredIsAsked, SaveLands
<1>2. QED
  BY <1>1, ConfigAlways, PTL

(* A start sends what was asked for, with the mode's value or else the     *)
(* game's where nothing was (buildServerStartPayload).                     *)
THEOREM SavesAreApplied == Spec => []SavedIsApplied
<1>1. ConfigInv => SavedIsApplied
  <2> SUFFICES ASSUME ConfigInv, Patient, NEW t \in Starts, start[t] = "send",
                      NEW f \in Fields
               PROVE  LET wish == asked[startSrv[t]][f] IN
                 \/ wish # Blank /\ payload[t][f] = wish
                 \/ wish = Blank /\ ModeEnv[f] # Blank /\ payload[t][f] = ModeEnv[f]
                 \/ wish = Blank /\ ModeEnv[f] = Blank /\ payload[t][f] = DefaultEnv[f]
    BY DEF SavedIsApplied
  <2> DEFINE s == startSrv[t]
  <2>1. s \in exists /\ ~Saving(s)
    BY DEF ConfigInv, TypeOK, Calm, OneAtATime
  <2>2. stored[s] = asked[s]
    BY <2>1 DEF ConfigInv, Calm, StoredIsAsked
  <2>3. payload[t] = Env(asked[s])
    BY <2>2 DEF ConfigInv, Calm, ReadIsStored
  <2>4. Env(asked[s])[f] =
          IF asked[s][f] # Blank THEN asked[s][f]
          ELSE IF ModeEnv[f] # Blank THEN ModeEnv[f] ELSE DefaultEnv[f]
    BY DEF Env, Overlay
  <2>5. QED
    BY <2>3, <2>4
<1>2. QED
  BY <1>1, ConfigAlways, PTL
=============================================================================

---------------------------- MODULE ServerConfig ----------------------------
(***************************************************************************)
(* A server's settings from the form to the container: the Config tab      *)
(* fetches them, the user edits and saves (ui/js/server.js), or creates a  *)
(* server (ui/js/admin.js); the master reads and writes the server's row   *)
(* and one server_configs row per key in statements of their own, and a    *)
(* start reads them again and lays them over the game's and the mode's     *)
(* values (master/api_servers.go).                                         *)
(*                                                                         *)
(* A field is the port, the password, or the key of a custom field.  Max   *)
(* players are updated like the port, the RCON password like the password. *)
(* One browser, one game and one mode.  A definition whose comment starts  *)
(* with "Slip" is the next one with a mistake in it.                       *)
(***************************************************************************)
EXTENDS Naturals, FiniteSets

CONSTANTS
    Servers,
    Keys,           \* custom_fields of the game
    Values,         \* values of fields
    Typed,          \* Typed[f]: what users type into f
    Blank,          \* an empty field; NULL, or no row in server_configs
    DefaultEnv,     \* game_definitions.default_env
    ModeEnv,        \* game_modes.config
    Fetches, Saves, Starts,     \* requests under way at a time
    MaxHurries,     \* bound of the model: times the user does not wait
    MaxErrors,      \* bound: queries and requests that fail unnoticed
    NoServer

Fields == {"port", "password"} \cup Keys

Settings == [Fields -> Values \cup {Blank}]

ASSUME ConfigAssumption ==
    /\ Keys \cap {"port", "password"} = {}
    /\ Blank \notin Values /\ NoServer \notin Servers
    /\ Typed \in [Fields -> SUBSET Values]
    /\ DefaultEnv \in Settings /\ ModeEnv \in Settings
    /\ MaxHurries \in Nat /\ MaxErrors \in Nat

VARIABLES
    exists,     \* servers with a row
    stored,     \* port and password of the row, and server_configs
    selected, tab,  \* the server on show, and the tab of its panel
    form,       \* what the fields of the Config tab hold
    rendered,   \* the inputs of the custom fields are there
    touched,    \* fields the user has edited since they were filled
    fetch, fetchSrv, reply,     \* a GET of the settings
    save, saveSrv, body, todo,  \* a PUT or POST, and the keys not yet written
    start, startSrv, payload,   \* a start, and what it has read or will send
    asked,      \* what the user has asked for, field by field
    hurries,    \* times the user did not wait for an answer that mattered
    errors      \* failures so far that nobody was told of

db == <<exists, stored>>
page == <<selected, tab, form, rendered, touched>>
fetchVars == <<fetch, fetchSrv, reply>>
saveVars == <<save, saveSrv, body, todo>>
startVars == <<start, startSrv, payload>>
user == <<asked, hurries>>
vars == <<db, page, fetchVars, saveVars, startVars, user, errors>>

Empty == [f \in Fields |-> Blank]

Init ==
    /\ exists = {} /\ stored = [s \in Servers |-> Empty]
    /\ selected = NoServer /\ tab = "logs"
    /\ form = Empty /\ rendered = FALSE /\ touched = {}
    /\ fetch = [q \in Fetches |-> "idle"]
    /\ fetchSrv = [q \in Fetches |-> NoServer]
    /\ reply = [q \in Fetches |-> Empty]
    /\ save = [u \in Saves |-> "idle"]
    /\ saveSrv = [u \in Saves |-> NoServer]
    /\ body = [u \in Saves |-> Empty]
    /\ todo = [u \in Saves |-> {}]
    /\ start = [t \in Starts |-> "idle"]
    /\ startSrv = [t \in Starts |-> NoServer]
    /\ payload = [t \in Starts |-> Empty]
    /\ asked = [s \in Servers |-> Empty]
    /\ hurries = 0 /\ errors = 0

Fetching == \E q \in Fetches : fetch[q] # "idle"
Saving(s) == \E u \in Saves : save[u] # "idle" /\ saveSrv[u] = s
Starting(s) == \E t \in Starts : start[t] # "idle" /\ startSrv[t] = s

(* The user goes on although, if soon, he should wait.                     *)
Hurry(soon) ==
    IF soon THEN hurries < MaxHurries /\ hurries' = hurries + 1
    ELSE UNCHANGED hurries

(* The keys of one, the port and the password of the other.                *)
WithKeys(row, keys) == [f \in Fields |-> IF f \in Keys THEN keys[f] ELSE row[f]]

-----------------------------------------------------------------------------
(* The browser                                                             *)

(* Slip: the tab stays where it was.                                       *)
OpenServerKeepsTab(s) ==
    /\ s \in exists
    /\ selected' = s
    /\ UNCHANGED <<tab, db, form, rendered, touched, fetchVars, saveVars,
                   startVars, user, errors>>

(* openServer switches to the Logs tab.                                    *)
OpenServer(s) ==
    /\ s \in exists
    /\ selected' = s /\ tab' = "logs"
    /\ UNCHANGED <<db, form, rendered, touched, fetchVars, saveVars,
                   startVars, user, errors>>

(* closeServer, and leaving for the admin page or an agent.                *)
CloseServer ==
    /\ selected # NoServer
    /\ selected' = NoServer
    /\ UNCHANGED <<tab, db, form, rendered, touched, fetchVars, saveVars,
                   startVars, user, errors>>

(* switchTab("config"): openServerConfig up to its await.                  *)
OpenConfig(q) ==
    /\ fetch[q] = "idle" /\ selected # NoServer
    /\ tab' = "config"
    /\ fetch' = [fetch EXCEPT ![q] = "row"]
    /\ fetchSrv' = [fetchSrv EXCEPT ![q] = selected]
    /\ Hurry(Fetching \/ Saving(selected))
    /\ UNCHANGED <<selected, form, rendered, touched, db, reply, saveVars,
                   startVars, asked, errors>>

FetchOver(q) ==
    /\ fetch' = [fetch EXCEPT ![q] = "idle"]
    /\ fetchSrv' = [fetchSrv EXCEPT ![q] = NoServer]
    /\ reply' = [reply EXCEPT ![q] = Empty]

(* openServerConfig after its await: port and empty passwords, then the    *)
(* custom fields of the game of the server selected by now; with none      *)
(* selected it throws there.                                               *)
FillForm(q) ==
    /\ fetch[q] = "reply"
    /\ IF selected = NoServer
       THEN form' = WithKeys(reply[q], form) /\ UNCHANGED <<rendered, touched>>
       ELSE form' = reply[q] /\ rendered' = TRUE /\ touched' = {}
    /\ FetchOver(q)
    /\ UNCHANGED <<selected, tab, db, saveVars, startVars, user, errors>>

Edit(f, v) ==
    /\ selected # NoServer /\ tab = "config" /\ form[f] # v
    /\ f \in Keys => rendered
    /\ form' = [form EXCEPT ![f] = v]
    /\ touched' = touched \cup {f}
    /\ Hurry(Fetching)
    /\ UNCHANGED <<selected, tab, rendered, db, fetchVars, saveVars,
                   startVars, asked, errors>>

(* What a user wants who saves: the fields he edited, an empty port being  *)
(* no wish, and no password unless he typed one ("Leave empty to clear").  *)
Wish(s) ==
    [f \in Fields |->
        IF f \in touched /\ ~(f = "port" /\ form[f] = Blank) THEN form[f]
        ELSE IF f = "password" THEN Blank ELSE asked[s][f]]

(* saveServerConfig sends the form as it is, for the server selected.      *)
Save(u) ==
    /\ save[u] = "idle" /\ selected # NoServer /\ tab = "config"
    /\ save' = [save EXCEPT ![u] = "row"]
    /\ saveSrv' = [saveSrv EXCEPT ![u] = selected]
    /\ body' = [body EXCEPT ![u] = form]
    /\ todo' = [todo EXCEPT ![u] = IF rendered THEN Keys ELSE {}]
    /\ asked' = [asked EXCEPT ![selected] = Wish(selected)]
    /\ Hurry(Fetching \/ Saving(selected) \/ Starting(selected))
    /\ UNCHANGED <<page, db, fetchVars, startVars, errors>>

(* createServer of the admin page, which insists on a port.                *)
Create(u, s, settings) ==
    /\ save[u] = "idle" /\ s \notin exists /\ ~Saving(s)
    /\ settings["port"] # Blank
    /\ save' = [save EXCEPT ![u] = "insert"]
    /\ saveSrv' = [saveSrv EXCEPT ![u] = s]
    /\ body' = [body EXCEPT ![u] = settings]
    /\ todo' = [todo EXCEPT ![u] = {k \in Keys : settings[k] # Blank}]
    /\ asked' = [asked EXCEPT ![s] = settings]
    /\ UNCHANGED <<page, db, fetchVars, startVars, hurries, errors>>

(* startServer, for the server selected.                                   *)
Start(t) ==
    /\ start[t] = "idle" /\ selected # NoServer
    /\ start' = [start EXCEPT ![t] = "row"]
    /\ startSrv' = [startSrv EXCEPT ![t] = selected]
    /\ Hurry(Saving(selected))
    /\ UNCHANGED <<db, page, fetchVars, saveVars, payload, asked, errors>>

-----------------------------------------------------------------------------
(* The master: getServer                                                   *)

(* The form shows no password, so none is read here.                       *)
FetchRow(q) ==
    /\ fetch[q] = "row"
    /\ fetch' = [fetch EXCEPT ![q] = "keys"]
    /\ reply' = [reply EXCEPT ![q]["port"] = stored[fetchSrv[q]]["port"]]
    /\ UNCHANGED <<db, page, fetchSrv, saveVars, startVars, user, errors>>

FetchKeys(q) ==
    /\ fetch[q] = "keys"
    /\ fetch' = [fetch EXCEPT ![q] = "reply"]
    /\ reply' = [reply EXCEPT ![q] = WithKeys(@, stored[fetchSrv[q]])]
    /\ UNCHANGED <<db, page, fetchSrv, saveVars, startVars, user, errors>>

(* The answer to a failed SELECT of the row has no settings, that to a     *)
(* failed SELECT of the keys no keys; the browser fills its form with what *)
(* is not there.  An answer that does not come leaves the form as it was.  *)
FetchError(q) ==
    /\ errors < MaxErrors
    /\ errors' = errors + 1
    /\ \/ /\ fetch[q] \in {"row", "keys"}
          /\ fetch' = [fetch EXCEPT ![q] = "reply"]
          /\ UNCHANGED <<fetchSrv, reply>>
       \/ fetch[q] # "idle" /\ FetchOver(q)
    /\ UNCHANGED <<db, page, saveVars, startVars, user>>

-----------------------------------------------------------------------------
(* The master: updateServer and createServer                               *)

(* An empty port keeps the old one, an empty password clears it.           *)
UpdateRow(u) ==
    /\ save[u] = "row"
    /\ stored' = [stored EXCEPT
           ![saveSrv[u]]["port"] = IF body[u]["port"] = Blank THEN @
                                   ELSE body[u]["port"],
           ![saveSrv[u]]["password"] = body[u]["password"]]
    /\ save' = [save EXCEPT ![u] = "keys"]
    /\ UNCHANGED <<exists, page, fetchVars, saveSrv, body, todo, startVars,
                   user, errors>>

InsertRow(u) ==
    /\ save[u] = "insert"
    /\ exists' = exists \cup {saveSrv[u]}
    /\ stored' = [stored EXCEPT ![saveSrv[u]] = WithKeys(body[u], Empty)]
    /\ save' = [save EXCEPT ![u] = "keys"]
    /\ UNCHANGED <<page, fetchVars, saveSrv, body, todo, startVars, user, errors>>

SaveOver(u) ==
    /\ save' = [save EXCEPT ![u] = "idle"]
    /\ saveSrv' = [saveSrv EXCEPT ![u] = NoServer]
    /\ body' = [body EXCEPT ![u] = Empty]
    /\ todo' = [todo EXCEPT ![u] = {}]

(* The UPDATE or INSERT fails and the user is told so.                     *)
SaveRefused(u) ==
    /\ save[u] \in {"row", "insert"}
    /\ asked' = [asked EXCEPT ![saveSrv[u]] = stored[saveSrv[u]]]
    /\ SaveOver(u)
    /\ UNCHANGED <<db, page, fetchVars, startVars, hurries, errors>>

(* Slip: a key left empty keeps its row.                                   *)
WriteKeyIfSet(u, k) ==
    /\ save[u] = "keys" /\ k \in todo[u]
    /\ todo' = [todo EXCEPT ![u] = @ \ {k}]
    /\ stored' = IF body[u][k] = Blank THEN stored
                 ELSE [stored EXCEPT ![saveSrv[u]][k] = body[u][k]]
    /\ UNCHANGED <<exists, page, fetchVars, save, saveSrv, body, startVars,
                   user, errors>>

(* An upsert, or the DELETE of a key left empty, in the order of a Go map. *)
WriteKey(u, k) ==
    /\ save[u] = "keys" /\ k \in todo[u]
    /\ todo' = [todo EXCEPT ![u] = @ \ {k}]
    /\ stored' = [stored EXCEPT ![saveSrv[u]][k] = body[u][k]]
    /\ UNCHANGED <<exists, page, fetchVars, save, saveSrv, body, startVars,
                   user, errors>>

(* A key that could not be written is logged at most; the answer is "ok".  *)
WriteKeyFails(u, k) ==
    /\ save[u] = "keys" /\ k \in todo[u]
    /\ errors < MaxErrors
    /\ errors' = errors + 1
    /\ todo' = [todo EXCEPT ![u] = @ \ {k}]
    /\ UNCHANGED <<db, page, fetchVars, save, saveSrv, body, startVars, user>>

Respond(u) ==
    /\ save[u] = "keys" /\ todo[u] = {}
    /\ SaveOver(u)
    /\ UNCHANGED <<db, page, fetchVars, startVars, user, errors>>

-----------------------------------------------------------------------------
(* The master: buildServerStartPayload                                     *)

(* What is set in top hides what is set in bottom.                         *)
Overlay(bottom, top) ==
    [f \in Fields |-> IF top[f] = Blank THEN bottom[f] ELSE top[f]]

(* Slip: the mode under the game's defaults.                               *)
EnvModeFirst(settings) == Overlay(Overlay(ModeEnv, DefaultEnv), settings)

Env(settings) == Overlay(Overlay(DefaultEnv, ModeEnv), settings)

StartRow(t) ==
    /\ start[t] = "row"
    /\ start' = [start EXCEPT ![t] = "keys"]
    /\ payload' = [payload EXCEPT ![t] = WithKeys(stored[startSrv[t]], Empty)]
    /\ UNCHANGED <<db, page, fetchVars, saveVars, startSrv, user, errors>>

StartKeys(t) ==
    /\ start[t] = "keys"
    /\ start' = [start EXCEPT ![t] = "send"]
    /\ payload' = [payload EXCEPT ![t] =
                      Env(WithKeys(@, stored[startSrv[t]]))]
    /\ UNCHANGED <<db, page, fetchVars, saveVars, startSrv, user, errors>>

(* A failed SELECT of the keys is passed over.                             *)
StartKeysFail(t) ==
    /\ start[t] = "keys" /\ errors < MaxErrors
    /\ errors' = errors + 1
    /\ start' = [start EXCEPT ![t] = "send"]
    /\ payload' = [payload EXCEPT ![t] = Env(@)]
    /\ UNCHANGED <<db, page, fetchVars, saveVars, startSrv, user>>

(* The command is sent, or there is no agent, or no row to be read.        *)
StartOver(t) ==
    /\ start[t] \in {"row", "send"}
    /\ start' = [start EXCEPT ![t] = "idle"]
    /\ startSrv' = [startSrv EXCEPT ![t] = NoServer]
    /\ payload' = [payload EXCEPT ![t] = Empty]
    /\ UNCHANGED <<db, page, fetchVars, saveVars, user, errors>>

-----------------------------------------------------------------------------

Inputs == {g \in Settings : \A f \in Fields : g[f] \in Typed[f] \cup {Blank}}

FetchStep(q) ==
    OpenConfig(q) \/ FetchRow(q) \/ FetchKeys(q) \/ FetchError(q) \/ FillForm(q)

SaveStep(u) ==
    \/ Save(u) \/ UpdateRow(u) \/ InsertRow(u) \/ SaveRefused(u) \/ Respond(u)
    \/ \E s \in Servers, g \in Inputs : Create(u, s, g)
    \/ \E k \in Keys : WriteKey(u, k) \/ WriteKeyFails(u, k)

StartStep(t) ==
    Start(t) \/ StartRow(t) \/ StartKeys(t) \/ StartKeysFail(t) \/ StartOver(t)

Next ==
    \/ \E s \in Servers : OpenServer(s)
    \/ CloseServer
    \/ \E f \in Fields : \E v \in Typed[f] \cup {Blank} : Edit(f, v)
    \/ \E q \in Fetches : FetchStep(q)
    \/ \E u \in Saves : SaveStep(u)
    \/ \E t \in Starts : StartStep(t)

Spec == Init /\ [][Next]_vars

-----------------------------------------------------------------------------
(* Properties                                                              *)

(* The values every variable ranges over; a server always has a port.      *)
TypeOK ==
    /\ exists \subseteq Servers /\ stored \in [Servers -> Settings]
    /\ \A s \in exists : stored[s]["port"] # Blank
    /\ selected \in exists \cup {NoServer} /\ tab \in {"logs", "config"}
    /\ form \in Settings /\ rendered \in BOOLEAN /\ touched \subseteq Fields
    /\ fetch \in [Fetches -> {"idle", "row", "keys", "reply"}]
    /\ fetchSrv \in [Fetches -> exists \cup {NoServer}]
    /\ \A q \in Fetches : fetch[q] # "idle" => fetchSrv[q] # NoServer
    /\ reply \in [Fetches -> Settings]
    /\ save \in [Saves -> {"idle", "row", "insert", "keys"}]
    /\ saveSrv \in [Saves -> Servers \cup {NoServer}]
    /\ \A u \in Saves : save[u] # "idle" => saveSrv[u] # NoServer
    /\ body \in [Saves -> Settings] /\ todo \in [Saves -> SUBSET Keys]
    /\ start \in [Starts -> {"idle", "row", "keys", "send"}]
    /\ startSrv \in [Starts -> exists \cup {NoServer}]
    /\ \A t \in Starts : start[t] # "idle" => startSrv[t] # NoServer
    /\ payload \in [Starts -> Settings]
    /\ asked \in [Servers -> Settings]
    /\ hurries \in 0 .. MaxHurries /\ errors \in 0 .. MaxErrors

(* The user waits for the settings before he edits or saves, for a save    *)
(* before he looks at or starts that server, and nothing fails unnoticed.  *)
Patient == hurries = 0 /\ errors = 0

(* Then the Config tab shows the settings of the server it is about, but   *)
(* for what was edited, whatever servers were shown before, ...            *)
FormIsOwn ==
    Patient /\ selected # NoServer /\ tab = "config" /\ ~Fetching =>
        \A f \in Fields \ ({"password"} \cup touched) :
            form[f] = stored[selected][f]

(* ... a save that is over has changed what the user edited and no other   *)
(* field (but the password, which it sets or clears), ...                  *)
SaveLands ==
    Patient => \A s \in exists : ~Saving(s) => stored[s] = asked[s]

(* ... and a start sends what was asked for, with the mode's value, or     *)
(* else the game's, where nothing was.                                     *)
SavedIsApplied ==
    Patient => \A t \in Starts : start[t] = "send" =>
        \A f \in Fields :
            LET wish == asked[startSrv[t]][f] IN
            \/ wish # Blank /\ payload[t][f] = wish
            \/ wish = Blank /\ ModeEnv[f] # Blank /\ payload[t][f] = ModeEnv[f]
            \/ wish = Blank /\ ModeEnv[f] = Blank /\ payload[t][f] = DefaultEnv[f]
=============================================================================

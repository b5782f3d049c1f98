---------------------------- MODULE Configuration ---------------------------
(***************************************************************************)
(* A connection as the editor collects it (app/lib/ui/connection_editor    *)
(* .dart), and what the core makes of it: what is wrong with it, and the   *)
(* connection string a driver is given (core/dbcore/dsn.go, engine.go).    *)
(*                                                                         *)
(* A connection string is the record of what it says: its spelling, and    *)
(* what Redacted hides of it, are left out.  A field holds a name, a blank *)
(* or nothing; a port that is not a number is Junk and one that is not     *)
(* given is 0, as in Config.                                               *)
(***************************************************************************)
EXTENDS Integers, FiniteSets, Sequences

CONSTANTS
  Entries,   \* of each field: what the user may put there
  Existing   \* the profiles an editor may be opened on

VARIABLES
  form,      \* the fields of the editor
  portTyped  \* whether the user has filled in the port

formVars == <<form, portTyped>>

Engines   == {"sqlserver", "postgres", "mysql", "sqlite"}
Networked == Engines \ {"sqlite"}
Junk      == -1
LastPort  == 65535

DefaultPort(engine) ==
  CASE engine = "sqlserver" -> 1433
    [] engine = "postgres"  -> 5432
    [] engine = "mysql"     -> 3306
    [] OTHER -> 0

Trimmed(field)  == IF field = " " THEN "" ELSE field
HasDomain(user) == user = "DOMAIN\\user"

-----------------------------------------------------------------------------
(* connection_editor.dart                                                  *)

NewForm ==
  [engine |-> "sqlserver", auth |-> "sql", tls |-> "require", readOnly |-> FALSE,
   host |-> "", port |-> 0, database |-> "", user |-> "", file |-> "",
   params |-> <<>>, rawDsn |-> "", timeout |-> 0]

\* What is filled in is a field; the engine is chosen.
ASSUME FormAssumption ==
  /\ \A f \in Existing : DOMAIN f = DOMAIN NewForm /\ f.engine \in Engines
  /\ DOMAIN Entries \subseteq DOMAIN NewForm \ {"engine"}

FormInit == form \in Existing \cup {NewForm} /\ portTyped = FALSE

FillIn(field, entry) ==
  /\ form' = [form EXCEPT ![field] = entry]
  /\ portTyped' = (portTyped \/ field = "port")

\* The port of the engine is filled in where there is none.
ChooseEngine(engine) ==
  /\ form' = [form EXCEPT !.engine = engine,
                          !.port = IF @ = 0 THEN DefaultPort(engine) ELSE @]
  /\ UNCHANGED portTyped

FormNext ==
  \/ \E field \in DOMAIN Entries : \E entry \in Entries[field] : FillIn(field, entry)
  \/ \E engine \in Engines : ChooseEngine(engine)

\* Mistake: the editor forgets what only some engines ask for.
FormAcceptsAnyUser(f) ==
  IF f.engine = "sqlite" THEN Trimmed(f.file) # ""
  ELSE Trimmed(f.host) # "" /\ f.port \in 0..LastPort /\ Trimmed(f.user) # ""

\* The validators: what Test and Save go on with.
FormAccepts(f) ==
  IF f.engine = "sqlite" THEN Trimmed(f.file) # ""
  ELSE /\ Trimmed(f.host) # ""
       /\ f.port = 0 \/ f.port \in 1..LastPort
       /\ f.engine = "postgres" => Trimmed(f.database) # ""
       /\ Trimmed(f.user) # ""
       /\ f.engine = "sqlserver" /\ f.auth = "windows" => HasDomain(f.user)

\* _buildProfile and toJson: a port that is no number is left out.
Profile(f) ==
  [f EXCEPT !.host = Trimmed(@), !.database = Trimmed(@), !.user = Trimmed(@),
            !.file = Trimmed(@), !.port = IF @ = Junk THEN 0 ELSE @, !.timeout = 15]

-----------------------------------------------------------------------------
(* dsn.go                                                                  *)

AuthMethod(c) == IF c.auth = "windows" THEN "windows" ELSE "sql"

\* Mistake: what is not said is preferred and not required.
TlsModePreferring(c) == IF c.tls \in {"disable", "verify"} THEN c.tls ELSE "prefer"

TlsMode(c) ==
  IF c.tls \in {"disable", "prefer", "require", "verify"} THEN c.tls
  ELSE IF c.tls = "" /\ c.engine = "sqlite" THEN "disable"
  ELSE "require"

Timeout(c) == IF c.timeout > 0 THEN c.timeout ELSE 15

HostPort(c) == <<c.host, IF c.port = 0 THEN DefaultPort(c.engine) ELSE c.port>>

\* The problems of a configuration, all at once.
Validate(c) ==
  IF c.rawDsn # "" THEN {p \in {"engine"} : c.engine = ""}
  ELSE IF c.engine \notin Engines THEN {"engine"}
  ELSE IF c.engine = "sqlite" THEN {p \in {"file"} : Trimmed(c.file) = ""}
  ELSE {p \in {"host", "port", "user", "database", "domain"} :
          \/ p = "host" /\ Trimmed(c.host) = ""
          \/ p = "port" /\ c.port \notin 0..LastPort
          \/ p = "user" /\ Trimmed(c.user) = ""
          \/ p = "database" /\ c.engine = "postgres" /\ Trimmed(c.database) = ""
          \/ p = "domain" /\ c.engine = "sqlserver" /\ AuthMethod(c) = "windows"
                          /\ ~HasDomain(c.user)}

\* Settings by name, of which those put first win.
Setting(key, value) == [k \in {key} |-> value]
first ++ second ==
  [k \in DOMAIN first \cup DOMAIN second |-> IF k \in DOMAIN first THEN first[k] ELSE second[k]]

\* Each engine spells how far to encrypt in its own words.
TlsSettings(c) ==
  LET mode == TlsMode(c)
  IN  CASE c.engine = "sqlserver" ->
             Setting("encrypt", CASE mode = "disable" -> "disable"
                                  [] mode = "prefer"  -> "false"
                                  [] OTHER -> "true")
             ++ IF mode \in {"require", "verify"}
                THEN Setting("TrustServerCertificate", IF mode = "require" THEN "true" ELSE "false")
                ELSE <<>>
        [] c.engine = "postgres" ->
             Setting("sslmode", IF mode = "verify" THEN "verify-full" ELSE mode)
        [] c.engine = "mysql" ->
             Setting("tls", CASE mode = "disable" -> "false"
                              [] mode = "prefer"  -> "preferred"
                              [] mode = "require" -> "skip-verify"
                              [] mode = "verify"  -> "true")

\* The settings of a DSN; those the user gave by name replace the others.
SqlServerSettings(c) ==
  c.params
  ++ (IF c.database = "" THEN <<>> ELSE Setting("database", c.database))
  ++ (IF AuthMethod(c) = "windows" THEN Setting("authenticator", "ntlm") ELSE <<>>)
  ++ Setting("connection timeout", Timeout(c))
  ++ TlsSettings(c)

PostgresSettings(c) == c.params ++ Setting("connect_timeout", Timeout(c)) ++ TlsSettings(c)

MysqlSettings(c) ==
  c.params ++ [s \in {"parseTime", "loc"} |-> IF s = "loc" THEN "UTC" ELSE "true"]
           ++ Setting("timeout", Timeout(c)) ++ TlsSettings(c)

\* SQLite keeps what the user names beside its own of the same name: each
\* setting has its values in order.
SqliteSettings(c) ==
  LET own == Setting("_pragma", "busy_timeout(5000)")
             ++ (IF c.readOnly THEN Setting("mode", "ro") ELSE <<>>)
      Values(settings, key) == IF key \in DOMAIN settings THEN <<settings[key]>> ELSE <<>>
  IN  [key \in DOMAIN own \cup DOMAIN c.params |-> Values(own, key) \o Values(c.params, key)]

Settings(c) ==
  CASE c.engine = "sqlserver" -> SqlServerSettings(c)
    [] c.engine = "postgres"  -> PostgresSettings(c)
    [] c.engine = "mysql"     -> MysqlSettings(c)
    [] c.engine = "sqlite"    -> SqliteSettings(c)

DSN(c) ==
  IF c.rawDsn # "" THEN [raw |-> c.rawDsn]
  ELSE IF c.engine = "sqlite" THEN [file |-> c.file, settings |-> Settings(c)]
  ELSE [server |-> HostPort(c), user |-> c.user,
        path |-> IF c.engine = "sqlserver" THEN "" ELSE c.database,
        settings |-> Settings(c)]

\* The configuration that lists the databases of a server.
ForEnumeration(c) ==
  IF c.engine # "postgres" THEN [c EXCEPT !.database = ""]
  ELSE IF Trimmed(c.database) = "" THEN [c EXCEPT !.database = "postgres"]
  ELSE c

-----------------------------------------------------------------------------
\* The editor's rules are those of the core, written twice: what it lets the
\* user save the core can dial.
EditorAgreesWithCore == FormAccepts(form) => Validate(Profile(form)) = {}

\* The setting that says how far to encrypt, and what it says where a
\* connection may go unencrypted.
TlsSetting   == [sqlserver |-> "encrypt", postgres |-> "sslmode", mysql |-> "tls"]
SaysUnsecure == [sqlserver |-> {"disable", "false"}, postgres |-> {"disable", "prefer"},
                 mysql |-> {"false", "preferred"}]

\* Unencrypted is a deliberate act: a connection that may go unencrypted was
\* asked for in the form or by a parameter of the driver's own.
EncryptedUnlessAsked ==
  LET c   == Profile(form)
      key == TlsSetting[c.engine]
  IN  c.engine \in Networked /\ c.rawDsn = "" /\ Validate(c) = {} =>
        \/ DSN(c).settings[key] \notin SaysUnsecure[c.engine]
        \/ c.tls \in {"disable", "prefer"}
        \/ key \in DOMAIN c.params

\* The databases of a server can be listed before one is chosen: a form that
\* lacks nothing but a database is dialled, at the same server as the same
\* user and with the same settings but for the database.
EnumerationDials ==
  LET c == Profile(form)
      e == ForEnumeration(c)
  IN  c.engine \in Networked /\ Validate(c) \subseteq {"database"} =>
        /\ Validate(e) = {}
        /\ c.rawDsn = "" => /\ DSN(e).server = DSN(c).server
                            /\ DSN(e).user = DSN(c).user
                            /\ TlsSettings(e) = TlsSettings(c)

\* DefaultPort: "what the connection editor pre-fills so a user only has to
\* type a host".
UntypedPortIsDefault ==
  LET c == Profile(form)
  IN  c.engine \in Networked /\ ~portTyped =>
        HostPort(c)[2] = DefaultPort(c.engine)

\* What the fields are has no bearing on these; that there is one of every name,
\* and an engine the app knows, has.
FormTypeOK == DOMAIN form = DOMAIN NewForm /\ form.engine \in Engines
=============================================================================

------------------------------ MODULE ModuleCalls ------------------------------
(***************************************************************************)
(* What a hooked call of another module's export does                      *)
(* (src/DLL/hooks/module: http_tls.cpp, credentials_crypto_amsi.cpp,       *)
(* jobs_lsa_sspi.cpp, exception_etw.cpp, event.cpp).                       *)
(*                                                                         *)
(* A wrapper copies what it needs, calls the original, and has             *)
(* PublishModuleEvent tell the callback, in one order or the other.  What  *)
(* a report names comes from the call, from the caller's memory, or from   *)
(* one of two rings that remember earlier calls: HTTP handles and the      *)
(* names of LSA packages.  The rings have a lock each, held for one lookup *)
(* or one store.  Nobody tells them of handles that are closed.            *)
(*                                                                         *)
(* The hooks stay installed throughout; ModuleHooks has installing them    *)
(* and calling the original.  The functions a behaviour calls are its      *)
(* subject: those that share a ring, or one function.                      *)
(***************************************************************************)
EXTENDS Naturals, SequencesExt

CONSTANTS User,        \* threads of the program
          Families,    \* sets of functions that share a ring, called together
          Host,        \* servers the program connects to
          HandleMax,   \* bound: handle values the system gives out
          RingMax,     \* entries of a ring (128 handles, 16 packages)
          OpMax        \* bound: calls of the program that share a ring

ASSUME RingsHold == RingMax \in Nat \ {0} /\ {HandleMax, OpMax} \subseteq Nat

VARIABLES
  subject,  \* the functions this behaviour calls
  within,   \* the hooked calls each thread is in
  inHook,   \* the thread's mark: ModuleHookReentryScope
  ring,     \* g_HttpHandles, or g_LsaPackageCache
  head,     \* stores so far
  object,   \* what each handle stands for (the system's)
  given,    \* history: how often each handle was given out
  ops       \* calls of the program so far

vars == <<subject, within, inHook, ring, head, object, given, ops>>

-----------------------------------------------------------------------------
(* The wrappers: report before or after the original, always or when it    *)
(* succeeded, and where the name in the report comes from.                 *)

After(name)   == [when |-> "after", name |-> name, ifOk |-> FALSE, ifHttp |-> FALSE, role |-> "none"]
Before(name)  == [After(name) EXCEPT !.when = "before"]
OnSuccess(w)  == [w EXCEPT !.ifOk = TRUE]
Connects(w)   == [w EXCEPT !.role = "connect"]
\* A message is told if one of its buffers looks like HTTP (PublishSchannelPlaintext);
\* a connection is told and stored if it is for INTERNET_SERVICE_HTTP.
HttpOnly(w)   == [w EXCEPT !.ifHttp = TRUE]
Opens(w)      == [w EXCEPT !.role = "open"]
Stores(w)     == [w EXCEPT !.role = "package"]

RtlAddFunctionTableHook               == OnSuccess(After("none"))
RtlInstallFunctionTableCallbackHook   == OnSuccess(After("read"))
RtlDeleteFunctionTableHook            == OnSuccess(After("none"))
RtlAddVectoredExceptionHandlerHook    == After("none")
RtlRemoveVectoredExceptionHandlerHook == After("none")
SetUnhandledExceptionFilterHook       == After("none")
CoInitializeExHook                    == After("value")
CoInitializeSecurityHook              == After("value")
CoCreateInstanceHook                  == After("read")
EventRegisterHook                     == After("read")
EventUnregisterHook                   == After("none")
StartTraceWHook                       == After("read")
EnableTraceEx2Hook                    == After("read")
EtwEventWriteHook                     == After("read")
EtwEventWriteExHook                   == After("read")
EtwEventWriteFullHook                 == After("read")
EtwEventWriteTransferHook             == After("read")
CreateJobObjectWHook                  == After("read")
OpenJobObjectWHook                    == After("read")
AssignProcessToJobObjectHook          == After("value")
SetInformationJobObjectHook           == After("value")
LsaConnectUntrustedHook               == After("value")
AcquireCredentialsHandleAHook         == After("redacted")
AcquireCredentialsHandleWHook         == After("redacted")
InitializeSecurityContextAHook        == After("redacted")
InitializeSecurityContextWHook        == After("redacted")
AcceptSecurityContextHook             == After("value")
CredReadAHook                         == After("redacted")
CredReadWHook                         == After("redacted")
CredEnumerateAHook                    == After("redacted")
CredEnumerateWHook                    == After("redacted")
CredReadDomainCredentialsAHook        == After("value")
CredReadDomainCredentialsWHook        == After("value")
LsaOpenPolicyHook                     == After("redacted")
LsaQueryInformationPolicyHook         == After("value")
VaultEnumerateVaultsHook              == After("value")
VaultOpenVaultHook                    == After("read")
VaultEnumerateItemsHook               == After("value")
VaultGetItemHook                      == After("read")
CryptUnprotectDataHook                == After("value")
NCryptUnprotectSecretHook             == After("value")
NCryptOpenStorageProviderHook         == After("redacted")
NCryptOpenKeyHook                     == After("redacted")
NCryptDecryptHook                     == After("value")
CfAbortOperationHook                  == After("value")
CfRegisterSyncRootHook                == After("read")
CfConnectSyncRootHook                 == After("read")
CfCreatePlaceholdersHook              == After("read")
AmsiInitializeHook                    == After("read")
AmsiUninitializeHook                  == After("value")
AmsiOpenSessionHook                   == After("value")
AmsiCloseSessionHook                  == After("value")
AmsiScanBufferHook                    == After("read")
AmsiScanStringHook                    == After("read")
AmsiNotifyOperationHook               == After("read")
EncryptMessageHook                    == HttpOnly(Before("read"))
DecryptMessageHook                    == HttpOnly(OnSuccess(After("read")))
LsaLookupAuthenticationPackageHook    == Stores(After("copied"))
LsaCallAuthenticationPackageHook      == After("package")
WinHttpConnectHook                    == Connects(After("read"))
InternetConnectWHook                  == HttpOnly(Connects(After("read")))
InternetConnectAHook                  == HttpOnly(Connects(After("read")))
WinHttpOpenRequestHook                == Opens(After("parent"))
HttpOpenRequestWHook                  == Opens(After("parent"))
HttpOpenRequestAHook                  == Opens(After("parent"))
WinHttpSendRequestHook                == Before("request")
HttpSendRequestWHook                  == Before("request")
HttpSendRequestAHook                  == Before("request")

g_Hooks == [
   RtlAddFunctionTable |-> RtlAddFunctionTableHook,
   RtlInstallFunctionTableCallback |-> RtlInstallFunctionTableCallbackHook,
   RtlDeleteFunctionTable |-> RtlDeleteFunctionTableHook,
   RtlAddVectoredExceptionHandler |-> RtlAddVectoredExceptionHandlerHook,
   RtlRemoveVectoredExceptionHandler |-> RtlRemoveVectoredExceptionHandlerHook,
   SetUnhandledExceptionFilter |-> SetUnhandledExceptionFilterHook,
   CoInitializeEx |-> CoInitializeExHook, CoInitializeSecurity |-> CoInitializeSecurityHook,
   CoCreateInstance |-> CoCreateInstanceHook, EventRegister |-> EventRegisterHook,
   EventUnregister |-> EventUnregisterHook, StartTraceW |-> StartTraceWHook,
   EnableTraceEx2 |-> EnableTraceEx2Hook, EtwEventWrite |-> EtwEventWriteHook,
   EtwEventWriteEx |-> EtwEventWriteExHook, EtwEventWriteFull |-> EtwEventWriteFullHook,
   EtwEventWriteTransfer |-> EtwEventWriteTransferHook,
   CreateJobObjectW |-> CreateJobObjectWHook, OpenJobObjectW |-> OpenJobObjectWHook,
   AssignProcessToJobObject |-> AssignProcessToJobObjectHook,
   SetInformationJobObject |-> SetInformationJobObjectHook,
   LsaConnectUntrusted |-> LsaConnectUntrustedHook,
   AcquireCredentialsHandleA |-> AcquireCredentialsHandleAHook,
   AcquireCredentialsHandleW |-> AcquireCredentialsHandleWHook,
   InitializeSecurityContextA |-> InitializeSecurityContextAHook,
   InitializeSecurityContextW |-> InitializeSecurityContextWHook,
   AcceptSecurityContext |-> AcceptSecurityContextHook, CredReadA |-> CredReadAHook,
   CredReadW |-> CredReadWHook, CredEnumerateA |-> CredEnumerateAHook,
   CredEnumerateW |-> CredEnumerateWHook,
   CredReadDomainCredentialsA |-> CredReadDomainCredentialsAHook,
   CredReadDomainCredentialsW |-> CredReadDomainCredentialsWHook,
   LsaOpenPolicy |-> LsaOpenPolicyHook,
   LsaQueryInformationPolicy |-> LsaQueryInformationPolicyHook,
   VaultEnumerateVaults |-> VaultEnumerateVaultsHook, VaultOpenVault |-> VaultOpenVaultHook,
   VaultEnumerateItems |-> VaultEnumerateItemsHook, VaultGetItem |-> VaultGetItemHook,
   CryptUnprotectData |-> CryptUnprotectDataHook,
   NCryptUnprotectSecret |-> NCryptUnprotectSecretHook,
   NCryptOpenStorageProvider |-> NCryptOpenStorageProviderHook,
   NCryptOpenKey |-> NCryptOpenKeyHook, NCryptDecrypt |-> NCryptDecryptHook,
   CfAbortOperation |-> CfAbortOperationHook, CfRegisterSyncRoot |-> CfRegisterSyncRootHook,
   CfConnectSyncRoot |-> CfConnectSyncRootHook,
   CfCreatePlaceholders |-> CfCreatePlaceholdersHook, AmsiInitialize |-> AmsiInitializeHook,
   AmsiUninitialize |-> AmsiUninitializeHook, AmsiOpenSession |-> AmsiOpenSessionHook,
   AmsiCloseSession |-> AmsiCloseSessionHook, AmsiScanBuffer |-> AmsiScanBufferHook,
   AmsiScanString |-> AmsiScanStringHook, AmsiNotifyOperation |-> AmsiNotifyOperationHook,
   EncryptMessage |-> EncryptMessageHook, DecryptMessage |-> DecryptMessageHook,
   LsaLookupAuthenticationPackage |-> LsaLookupAuthenticationPackageHook,
   LsaCallAuthenticationPackage |-> LsaCallAuthenticationPackageHook,
   WinHttpConnect |-> WinHttpConnectHook, InternetConnectW |-> InternetConnectWHook,
   InternetConnectA |-> InternetConnectAHook, WinHttpOpenRequest |-> WinHttpOpenRequestHook,
   HttpOpenRequestW |-> HttpOpenRequestWHook, HttpOpenRequestA |-> HttpOpenRequestAHook,
   WinHttpSendRequest |-> WinHttpSendRequestHook, HttpSendRequestW |-> HttpSendRequestWHook,
   HttpSendRequestA |-> HttpSendRequestAHook]

\* Functions that share no ring with others.
Single == DOMAIN g_Hooks \ UNION {
   {"WinHttpConnect", "WinHttpOpenRequest", "WinHttpSendRequest"},
   {"InternetConnectW", "HttpOpenRequestW", "HttpSendRequestW"},
   {"InternetConnectA", "HttpOpenRequestA", "HttpSendRequestA"},
   {"LsaLookupAuthenticationPackage", "LsaCallAuthenticationPackage"}}

Subject == Families \cup {{f} : f \in Single}

-----------------------------------------------------------------------------
(* Handles, names and rings.                                               *)

Handle   == 1..HandleMax
NoHandle == 0
Unknown  == "<unknown>"
Name     == {"plain", "password"}
NoObject == [is |-> "nothing", host |-> Unknown, secure |-> FALSE, over |-> NoHandle, usable |-> FALSE]
NoEntry  == [handle |-> NoHandle, host |-> Unknown, secure |-> FALSE]
NoReport == [told |-> FALSE, host |-> Unknown, secure |-> FALSE]

\* LSA gives each package an id of its own; an id of zero is never remembered.
Package   == {"msv", "kerberos", "tls"}
PackageId == [msv |-> 0, kerberos |-> 2, tls |-> 3]

\* mutant of Lookup: the slots are searched for the last store before the head
LookupLatest(h) == ring[((head + RingMax - 1) % RingMax) + 1]

\* The first slot with this handle, wherever the head is.
Lookup(h) ==
  LET S == {i \in 1..RingMax : ring[i].handle = h /\ h # NoHandle}
  IN  IF S = {} THEN NoEntry ELSE ring[Min(S)]

\* mutant of StoreEntry: the index is not reduced to the ring's length
StoreBeyond(e) ==
  /\ ring' = [i \in DOMAIN ring \cup {head + 1} |-> IF i = head + 1 THEN e ELSE ring[i]]
  /\ head' = head + 1

StoreEntry(e) == ring' = [ring EXCEPT ![(head % RingMax) + 1] = e] /\ head' = head + 1

\* CopyRedactedWide: a name that looks sensitive is not passed on.
Redacted(name) == IF name = "password" THEN "<redacted>" ELSE name

\* A call of f with a name, a server or a package, on a handle or a package's id.
Frame(f, arg, on, secure, http) ==
  [fn |-> f, at |-> "enter", arg |-> arg, kept |-> "none", on |-> on, got |-> NoHandle, secure |-> secure,
   http |-> http, ok |-> FALSE, entry |-> NoEntry, report |-> NoReport, passed |-> arg, inner |-> FALSE]

Init ==
  /\ subject \in Subject
  /\ within = [t \in User |-> <<>>] /\ inHook = [t \in User |-> FALSE]
  /\ ring = [i \in 1..RingMax |-> NoEntry] /\ head = 0
  /\ object = [h \in Handle |-> NoObject] /\ given = [h \in Handle |-> 0] /\ ops = 0

Top(t)       == within[t][Len(within[t])]
W(t)         == g_Hooks[Top(t).fn]
At(t, label) == within[t] # <<>> /\ Top(t).at = label
Become(t, f) == within' = [within EXCEPT ![t][Len(within[t])] = f]
Local        == UNCHANGED <<subject, ring, head, object, given, ops>>
Sharing      == Cardinality(subject) > 1

-----------------------------------------------------------------------------
(* The calls a program can make.                                           *)

Usable(h, is) == object[h].is = is /\ object[h].usable

\* Only InternetConnect connects for other services than HTTP.
Services(f)    == IF g_Hooks[f].ifHttp THEN BOOLEAN ELSE {TRUE}
ToHost(f)      == {Frame(f, x, NoHandle, s, y) : x \in Host, s \in BOOLEAN, y \in Services(f)}
OnHandle(f)    == UNION {{Frame(f, "none", h, s, TRUE) : h \in {g \in Handle : Usable(g, "connect")}} : s \in BOOLEAN}
OnRequest(f)   == {Frame(f, "none", h, FALSE, TRUE) : h \in {g \in Handle : Usable(g, "request")}}
ForPackage(f)  == {Frame(f, p, NoHandle, FALSE, TRUE) : p \in Package}
OfPackage(f)   == {Frame(f, p, PackageId[p], FALSE, TRUE) : p \in Package}
WithMessage(f) == {Frame(f, "none", NoHandle, FALSE, y) : y \in BOOLEAN}
WithName(f)    == {Frame(f, a, NoHandle, FALSE, TRUE) : a \in Name}

Begins(f) ==
  LET w == g_Hooks[f] IN
  CASE w.role = "connect" -> ToHost(f)
    [] w.role = "open"    -> OnHandle(f)
    [] w.name = "request" -> OnRequest(f)
    [] w.role = "package" -> ForPackage(f)
    [] w.name = "package" -> OfPackage(f)
    [] w.ifHttp /\ w.role = "none" -> WithMessage(f)
    [] OTHER              -> WithName(f)

\* Calls that share nothing are watched one at a time.
UserCall(t) ==
  /\ within[t] = <<>> /\ ops < IF Sharing THEN OpMax ELSE 1
  /\ \E f \in subject : \E x \in Begins(f) : within' = [within EXCEPT ![t] = <<x>>]
  /\ ops' = ops + 1
  /\ UNCHANGED <<subject, inHook, ring, head, object, given>>

\* The memory of the caller is the program's, and may change under the call.
Overwrite(t) ==
  /\ ~Sharing /\ within[t] # <<>> /\ Top(t).at # "enter" /\ Top(t).arg \in Name
  /\ \E a \in Name \ {Top(t).arg} : Become(t, [Top(t) EXCEPT !.arg = a])
  /\ UNCHANGED inHook /\ Local

\* Closing a handle meets no hook; its value may be given out again.
CloseHandle(h) ==
  /\ object[h].usable /\ ~ \E t \in User : within[t] # <<>> /\ Top(t).on = h
  /\ object' = [object EXCEPT ![h] = NoObject]
  /\ UNCHANGED <<subject, within, inHook, ring, head, given, ops>>

-----------------------------------------------------------------------------
(* One wrapper.                                                            *)

\* mutant of Enter: names are copied without a look at what they say
EnterPlain(t) ==
  /\ At(t, "enter")
  /\ Become(t, [Top(t) EXCEPT !.at = IF W(t).when = "before" THEN "publish" ELSE "original", !.kept = Top(t).arg])
  /\ UNCHANGED inHook /\ Local

\* A name that is copied is copied before the original sees it.
Enter(t) ==
  /\ At(t, "enter")
  /\ Become(t, [Top(t) EXCEPT
       !.at = IF W(t).when = "before" THEN "publish" ELSE "original",
       !.kept = CASE W(t).name = "redacted" -> Redacted(Top(t).arg)
                  [] W(t).name = "copied" -> Top(t).arg [] OTHER -> @])
  /\ UNCHANGED inHook /\ Local

Next1(t) ==
  CASE W(t).when = "before"   -> "leave"
    [] W(t).role = "open"     -> "parent"
    [] W(t).role = "connect"  -> "store"
    [] W(t).role = "package"  -> "store"
    [] OTHER                  -> "publish"

\* A call that makes no handle: it succeeds or fails.
Original(t) ==
  /\ At(t, "original") /\ W(t).role \notin {"connect", "open"}
  /\ \E ok \in BOOLEAN :
       Become(t, [Top(t) EXCEPT !.at = Next1(t), !.ok = ok,
                    !.got = IF W(t).role = "package" /\ ok THEN PackageId[Top(t).arg] ELSE NoHandle])
  /\ UNCHANGED inHook /\ Local

\* A connection or a request is given a value that stands for nothing now.
OriginalOpens(t) ==
  /\ At(t, "original") /\ W(t).role \in {"connect", "open"}
  /\ LET f == Top(t) IN
       \/ /\ Become(t, [f EXCEPT !.at = Next1(t)])
          /\ UNCHANGED <<object, given>>
       \/ \E h \in {g \in Handle : object[g] = NoObject} :
            /\ Become(t, [f EXCEPT !.at = Next1(t), !.ok = TRUE, !.got = h])
            /\ given' = [given EXCEPT ![h] = @ + 1]
            /\ object' = [object EXCEPT ![h] =
                 IF W(t).role = "connect"
                 THEN [is |-> IF f.http THEN "connect" ELSE "ftp", host |-> f.arg, secure |-> f.secure, over |-> NoHandle, usable |-> FALSE]
                 ELSE [is |-> "request", host |-> object[f.on].host, secure |-> f.secure \/ object[f.on].secure,
                       over |-> f.on, usable |-> FALSE]]
  /\ UNCHANGED <<subject, inHook, ring, head, ops>>

\* HttpCacheStoreRequest looks its connection up first, and lets go of the lock.
ParentLookup(t) ==
  /\ At(t, "parent")
  /\ Become(t, [Top(t) EXCEPT !.at = "store", !.entry = IF Top(t).got = NoHandle THEN @ ELSE Lookup(Top(t).on)])
  /\ UNCHANGED inHook /\ Local

Stored(t) ==
  LET f == Top(t) IN
  CASE W(t).role = "open"    -> [handle |-> f.got, host |-> f.entry.host, secure |-> f.secure \/ f.entry.secure]
    [] W(t).role = "connect" -> [handle |-> f.got, host |-> f.arg, secure |-> f.secure]
    [] OTHER                 -> [handle |-> f.got, host |-> f.kept, secure |-> FALSE]

\* Without a handle, or an id, or HTTP, nothing is remembered.
StoreCall(t) ==
  /\ At(t, "store")
  /\ IF Top(t).got = NoHandle \/ (W(t).ifHttp /\ ~Top(t).http) THEN UNCHANGED <<ring, head>> ELSE StoreEntry(Stored(t))
  /\ Become(t, [Top(t) EXCEPT !.at = "publish"])
  /\ UNCHANGED <<subject, inHook, object, given, ops>>

-----------------------------------------------------------------------------
(* PublishModuleEvent.                                                     *)

\* What the report names.
Report(t) ==
  LET f == Top(t)
      found == Lookup(f.on)
      name(host, secure) == [told |-> TRUE, host |-> host, secure |-> secure] IN
  CASE W(t).name \in {"redacted", "copied"} -> name(f.kept, FALSE)
    [] W(t).name = "read"    -> name(f.arg, f.secure)
    [] W(t).name = "parent"  -> name(found.host, f.secure \/ found.secure)
    [] W(t).name \in {"request", "package"} -> name(found.host, found.secure)
    [] OTHER                 -> name("none", FALSE)

Wanted(t) ==
  /\ W(t).ifOk => Top(t).ok
  /\ W(t).ifHttp => Top(t).http

\* mutant of PublishModuleEvent: it does not look for the mark
PublishUnmarked(t) ==
  /\ At(t, "publish")
  /\ IF Wanted(t) THEN inHook' = [inHook EXCEPT ![t] = TRUE] /\ Become(t, [Top(t) EXCEPT !.at = "callback", !.report = Report(t)])
     ELSE Become(t, [Top(t) EXCEPT !.at = IF W(t).when = "before" THEN "original" ELSE "leave"]) /\ UNCHANGED inHook
  /\ Local

\* Nothing is told of a call the callback itself makes.
PublishModuleEvent(t) ==
  /\ At(t, "publish")
  /\ IF Wanted(t) /\ ~inHook[t]
     THEN /\ inHook' = [inHook EXCEPT ![t] = TRUE]
          /\ Become(t, [Top(t) EXCEPT !.at = "callback", !.report = Report(t)])
     ELSE /\ Become(t, [Top(t) EXCEPT !.at = IF W(t).when = "before" THEN "original" ELSE "leave"])
          /\ UNCHANGED inHook
  /\ Local

\* The callback may call a hooked function, too.
CallbackCalls(t) ==
  /\ ~Sharing /\ At(t, "callback") /\ Len(within[t]) = 1
  /\ \E f \in subject : \E x \in Begins(f) :
       within' = [within EXCEPT ![t] = Append(@, [x EXCEPT !.inner = TRUE])]
  /\ UNCHANGED inHook /\ Local

CallbackReturns(t) ==
  /\ At(t, "callback")
  /\ Become(t, [Top(t) EXCEPT !.at = IF W(t).when = "before" THEN "original" ELSE "leave"])
  /\ inHook' = [inHook EXCEPT ![t] = FALSE] /\ Local

\* The program learns of a handle as the wrapper returns.
Leave(t) ==
  /\ At(t, "leave")
  /\ within' = [within EXCEPT ![t] = SubSeq(@, 1, Len(@) - 1)]
  /\ object' = [h \in Handle |-> IF W(t).role \in {"connect", "open"} /\ h = Top(t).got
                                 THEN [object[h] EXCEPT !.usable = TRUE] ELSE object[h]]
  /\ UNCHANGED <<subject, inHook, ring, head, given, ops>>

UserStep(t) ==
  \/ UserCall(t) \/ Overwrite(t) \/ Enter(t) \/ Original(t) \/ OriginalOpens(t) \/ ParentLookup(t)
  \/ StoreCall(t) \/ PublishModuleEvent(t) \/ CallbackCalls(t) \/ CallbackReturns(t) \/ Leave(t)

Next == (\E t \in User : UserStep(t)) \/ \E h \in Handle : CloseHandle(h)

Spec == Init /\ [][Next]_vars

-----------------------------------------------------------------------------
(* Properties.                                                             *)

\* Every variable has its type.
TypeOK ==
  /\ ops \in 0..(OpMax + 1) /\ inHook \in [User -> BOOLEAN]
  /\ \A t \in User : Len(within[t]) <= 2
  /\ DOMAIN ring = 1..RingMax
  /\ \A i \in 1..RingMax : ring[i].handle \in Handle \cup {NoHandle} \cup {PackageId[p] : p \in Package}
  /\ \A h \in Handle : object[h].over \in Handle \cup {NoHandle}

\* A call of the program that should be told has been told once by the time it
\* returns, one the callback makes never, and the thread's mark is up exactly while
\* its callback runs.
ToldOnce ==
  \A t \in User :
    /\ inHook[t] <=> \E i \in DOMAIN within[t] : within[t][i].at = "callback"
    /\ \A i \in DOMAIN within[t] :
         LET f == within[t][i] IN
         f.at = "leave" => (f.report.told <=> ~f.inner /\ (g_Hooks[f.fn].ifOk => f.ok) /\
                                              (g_Hooks[f.fn].ifHttp => f.http))

\* A request, or a call of a package, is reported under the name of the connection
\* it was opened on, or of the package, or as unknown; and not as unknown unless
\* the ring has been overwritten.  (Of a handle value that was given out twice
\* the ring may still hold the first owner.)
Once(h) == h = NoHandle \/ given[h] <= 1

NamesItsConnection ==
  \A t \in User :
    LET f == Top(t) IN
    (At(t, "callback") /\ g_Hooks[f.fn].name \in {"request", "parent"} /\ Once(f.on) /\ Once(object[f.on].over)) =>
      \/ f.report.host = object[f.on].host /\ (object[f.on].secure => f.report.secure)
      \/ f.report.host = Unknown /\ head > RingMax

\* What a call was passed is what its report names, where the wrapper copies it
\* before the call; and a name that looks sensitive is never passed on where the
\* wrapper redacts, whatever the caller's memory says by then.
NamesWhatWasPassed ==
  \A t \in User : \A i \in DOMAIN within[t] :
    LET f == within[t][i] IN
    f.report.told =>
      CASE g_Hooks[f.fn].name = "redacted" -> f.report.host = Redacted(f.passed)
        [] g_Hooks[f.fn].name = "copied"   -> f.report.host = f.passed
        [] g_Hooks[f.fn].name = "package"  -> f.report.host \in {f.arg, Unknown}
        [] OTHER -> TRUE

=============================================================================

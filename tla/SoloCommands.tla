----------------------------- MODULE SoloCommands -----------------------------
(***************************************************************************)
(* The commands of a directory that is linked directly to a branch         *)
(* (cmd/solo), as the steps of their handlers, which LinkState takes:      *)
(*    "ask"               confirmSoloWrite                                 *)
(*    "state", "profile"  solo.LoadCurrentProfile: link.json, then the     *)
(*                        profile of its URL (or the current one)          *)
(*    "state", "key"      the same once more, for the key only             *)
(*    "read", "write"     a request to the branch of the profile           *)
(*    "call"              one that may change something and is not asked   *)
(*                        for: a query of the user, a chat                 *)
(*    "local"             files of the directory are read or written       *)
(* Requests of one kind in a row are one step: pages of a list, the bodies *)
(* of several functions.  Commands with the same steps are one to TLC.     *)
(***************************************************************************)
EXTENDS Sequences

\* LoadCurrentProfile
Client == <<"state", "profile">>

Reading == Client \o <<"read">>
Writing == <<"ask">> \o Client \o <<"write">>

(* storage *)
StorageLs == Reading
StorageCp == Writing
StorageMv == Writing
\* rm asks once for the command and, without --yes, once more for each bucket.
StorageRm == <<"ask">> \o Client \o <<"ask", "write">>
SeedBuckets == Writing
StorageBucketsList == Reading
StorageBucketsGet == Reading
StorageBucketsCreate == Writing
StorageBucketsUpdate == Writing
StorageBucketsDelete == Writing

(* secrets *)
SecretsList == Reading
SecretsSet == <<"local">> \o Writing
\* The names that are not given are read, and then shown by the prompt.
SecretsUnset == Client \o <<"read", "ask", "write">>

(* functions *)
FunctionsDeploy == <<"ask">> \o Client \o <<"local", "write">>
FunctionsNew == <<"local">>
FunctionsList == Reading
FunctionsDownload == Client \o <<"read", "read", "local">>
FunctionsDelete == Writing

(* auth *)
AuthHooksGet == Reading
AuthHooksSet == <<"local", "ask">> \o Client \o <<"read", "write", "read">>
AuthThirdPartyList == Reading
AuthThirdPartyAdd == Writing
AuthThirdPartyRemove == Writing
AuthThirdPartySync == Writing
AuthConfigGet == Reading
AuthConfigSet == <<"local">> \o Writing

(* pages *)
PagesList == Reading
PagesBinding == Reading
PagesBind == Writing
PagesCreate == Writing
PagesUpload == Writing \o <<"local", "write">>
PagesDeploy == Writing
PagesDeployList == Reading
PagesSync == Client \o <<"ask", "write">>
PagesUnbind == Writing
PagesFastCreate == PagesUpload \o <<"write", "write">>

(* AI Gateway *)
QuotaGet == Reading
QuotaSetDefault == Writing
QuotaUsersList == Reading
QuotaUsersGet == Reading
QuotaUsersSet == Writing
Usage == Reading
\* The URL and the key each come from a LoadCurrentProfile of their own; chat
\* and test look at the key once before (soloAIGatewayURLForCall).
GatewayStatus == Client \o <<"state", "key", "read">>
GatewayModels == GatewayStatus
GatewayChat == Client \o <<"state", "key", "state", "key", "call">>
GatewayTest == GatewayChat

(* the branch and its database *)
EndpointsList == Client
EndpointsCheck == Reading
DBQuery == <<"local">> \o Client \o <<"call">>
DBAdvisors == Reading
GenTypes == Reading
ConfigureGet == Client

SoloHandlers ==
    {StorageLs, StorageCp, StorageMv, StorageRm, SeedBuckets, StorageBucketsList,
     StorageBucketsGet, StorageBucketsCreate, StorageBucketsUpdate, StorageBucketsDelete,
     SecretsList, SecretsSet, SecretsUnset, FunctionsDeploy, FunctionsNew, FunctionsList,
     FunctionsDownload, FunctionsDelete, AuthHooksGet, AuthHooksSet, AuthThirdPartyList,
     AuthThirdPartyAdd, AuthThirdPartyRemove, AuthThirdPartySync, AuthConfigGet, AuthConfigSet,
     PagesList, PagesBinding, PagesBind, PagesCreate, PagesUpload, PagesDeploy, PagesDeployList,
     PagesSync, PagesUnbind, PagesFastCreate, QuotaGet, QuotaSetDefault, QuotaUsersList,
     QuotaUsersGet, QuotaUsersSet, Usage, GatewayStatus, GatewayModels, GatewayChat, GatewayTest,
     EndpointsList, EndpointsCheck, DBQuery, DBAdvisors, GenTypes, ConfigureGet}
=============================================================================

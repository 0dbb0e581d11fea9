-------------------------- MODULE MCGraphQLRequest --------------------------
(***************************************************************************)
(* Instances of GraphQLRequest for TLC: requests of the web client and of  *)
(* other clients of the API, which between them have serial and concurrent *)
(* root fields, fields that may be null, and resolvers that always fail.   *)
(***************************************************************************)
EXTENDS GraphQLRequest

Request(operation, fields) == [operation |-> operation, fields |-> fields]

SomeRequests ==
    {Request("Mutation", <<"addMembers", "updateMembers">>),
     Request("Mutation", <<"deleteProject", "addApiToken">>),
     Request("Query", <<"projects">>),
     Request("Query", <<"me", "runningRuntime", "qualityProjectDesc">>)}

\* Up to two members in the first project, one in the project
\* of the second root field.
Members ==
    LET place == CHOOSE p \in DOMAIN SelectionOf["Project"] :
                    SelectionOf["Project"][p] = "members"
    IN  {<< <<o[1], o[2], "Project">>, <<place, o[3], "Member">> >> :
            o \in {<<1, 1, 1>>, <<1, 1, 2>>, <<2, 1, 1>>}}

=============================================================================

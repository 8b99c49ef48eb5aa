CONSTANTS
    Requests <- AllRequests
    Responses <- MCResponses
    HeaderTimeout = 2
    BodyTimeout = 2
    RewriteTimeout = 1
    Origin <- MCOrigin
    Admitted <- MCAdmitted
    Texts <- MCTexts
    MaxOrigins = 2
SPECIFICATION Spec
INVARIANTS TypeOK NothingLeftOpen NoPlaylistVerbatim WholeDeadline ClaimsAreOfTheBody
PROPERTIES AnsweredOnce HandlerSettles
CHECK_DEADLOCK FALSE

SPECIFICATION Spec
CONSTANTS
    MAX_APU_SIZE = 20
    TransactionIds = {1, 65535}
    Questions <- MCQuestions
    Replies <- MCReplies
INVARIANTS
    RequestArrives
    ResponseArrives
    PartsAgree

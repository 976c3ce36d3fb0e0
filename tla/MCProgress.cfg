SPECIFICATION ProgressSpec
PROPERTIES TransactionsMove BlocksArrive UsersAreServed
CHECK_DEADLOCK FALSE
